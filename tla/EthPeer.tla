------------------------------ MODULE EthPeer ------------------------------
(* One connection of the eth protocol, from NewPeer to Close: the two       *)
(* goroutines of the handshake, the loop that reads messages, and the       *)
(* dispatcher with the requests of headers, bodies and receipts             *)
(* (protocols/eth/peer.go, dispatcher.go, handler.go and runPeer).          *)
(*                                                                          *)
(* The program starts no dispatcher and answers no response: that is the    *)
(* behaviour in which "dispatcher" is "none".  The other one is what        *)
(* dispatcher.go is written for: started with the peer, its responses       *)
(* handed over by the loop that reads.                                      *)
EXTENDS Naturals, FiniteSets

CONSTANTS Requests,   \* the Request objects
          Nobody      \* stands for no request

VARIABLES
    phase,        \* of the protocol's Run: "handshake", "running", "leaving", "ended"
    connected,    \* the remote is there; when it is not, rw fails
    writing,      \* the goroutine that sends the status still runs
    reading,      \* the goroutine that reads the remote's status still runs
    errc,         \* what they have sent and Handshake has not received
    received,     \* how many of their answers Handshake has received
    status,       \* "unread", "read": the status packet
    term,         \* the channel is closed
    dispatcher,   \* the loop: [at |-> "none", "idle", "sending", "tracking", "ended", of |-> a request]
    pending,      \* the requests it tracks
    caller,       \* request -> where its caller is
    cancelled,    \* the requests whose cancel channel is closed
    deliverer     \* the reading loop: [at |-> "free", "dispatching", "checking", "offering", "awaiting", ...]

handshakeVars == <<writing, reading, errc, received, status>>
dispatchVars  == <<dispatcher, pending, caller, cancelled, deliverer>>
vars == <<phase, connected, term, handshakeVars, dispatchVars>>

\* A caller is dispatching its request, waits until it was sent, holds it open,
\* is closing it, waits for the dispatcher to have forgotten it, handles the
\* response, or is done.
Waiting == {"dispatching", "sent", "closing", "forgotten"}

Loop(at, r) == [at |-> at, of |-> r]
Idle == Loop("idle", Nobody)
Free == [at |-> "free", of |-> Nobody, matches |-> FALSE]

----------------------------------------------------------------------------
(* The handshake                                                           *)

\* Slips a change to the code could make, each in the place of the definition it
\* is named after: an unbuffered channel; a loop that ends one round too soon; a
\* response of the wrong type that stops the tracking.
Room_Unbuffered == phase = "handshake" /\ errc = {}
Answered_Once(n) == n = 1
Remaining_Matched(r, matches) == pending \ {r}

Room == Cardinality(errc) < 2
Answered(n) == n = 2

\* p2p.Send of the status returns, with an error or without.
StatusSent ==
    /\ writing /\ Room
    /\ \E ok \in {connected, FALSE} : errc' = errc \cup {<<"writer", ok>>}
    /\ writing' = FALSE
    /\ UNCHANGED <<phase, connected, term, reading, received, status, dispatchVars>>

\* readStatus returns.
StatusRead ==
    /\ reading /\ Room
    /\ \E ok \in {connected, FALSE} :
        /\ errc' = errc \cup {<<"reader", ok>>}
        /\ status' = IF ok THEN "read" ELSE status
    /\ reading' = FALSE
    /\ UNCHANGED <<phase, connected, term, writing, received, dispatchVars>>

\* The remote keeps quiet while it is connected: then nothing is read.
StatusMissing == reading /\ ~connected /\ StatusRead

\* One round of Handshake's loop.  After the last the status is taken, and may
\* have a difficulty that is too large; else runPeer registers the peer.
HandshakeReceives ==
    /\ phase = "handshake"
    /\ \E e \in errc :
        /\ errc' = errc \ {e}
        /\ received' = received + 1
        /\ \/ ~e[2] /\ phase' = "leaving"
           \/ e[2] /\ ~Answered(received + 1) /\ UNCHANGED phase
           \/ e[2] /\ Answered(received + 1) /\ phase' \in {"running", "leaving"}
    /\ UNCHANGED <<connected, term, writing, reading, status, dispatchVars>>

HandshakeTimeout ==
    /\ phase = "handshake"
    /\ phase' = "leaving"
    /\ UNCHANGED <<connected, term, handshakeVars, dispatchVars>>

Handshake == StatusSent \/ StatusRead \/ HandshakeReceives \/ HandshakeTimeout

----------------------------------------------------------------------------
(* Requests                                                                *)

To(r, place) == caller' = [caller EXCEPT ![r] = place]

\* RequestOneHeader and its like; the peer is known once it was registered.
RequestStarts(r) ==
    /\ phase # "handshake" /\ caller[r] = "new"
    /\ To(r, "dispatching")
    /\ UNCHANGED <<phase, connected, term, handshakeVars, dispatcher, pending, cancelled, deliverer>>

RequestAccepted(r) ==
    /\ caller[r] = "dispatching" /\ dispatcher = Idle
    /\ To(r, "sent") /\ dispatcher' = Loop("sending", r)
    /\ UNCHANGED <<phase, connected, term, handshakeVars, pending, cancelled, deliverer>>

\* p2p.Send returns, and the caller has its answer before the request is tracked.
RequestSent(r) ==
    /\ dispatcher = Loop("sending", r)
    /\ \/ connected /\ To(r, "open") /\ dispatcher' = Loop("tracking", r)
       \/ To(r, "failed") /\ dispatcher' = Idle
    /\ UNCHANGED <<phase, connected, term, handshakeVars, pending, cancelled, deliverer>>

RequestTracked(r) ==
    /\ dispatcher = Loop("tracking", r)
    /\ pending' = pending \cup {r} /\ dispatcher' = Idle
    /\ UNCHANGED <<phase, connected, term, handshakeVars, caller, cancelled, deliverer>>

\* Close, once for a request.
CloseStarts(r) ==
    /\ caller[r] = "open"
    /\ To(r, "closing")
    /\ UNCHANGED <<phase, connected, term, handshakeVars, dispatcher, pending, cancelled, deliverer>>

\* Whether it was tracked or not.
CloseAccepted(r) ==
    /\ caller[r] = "closing" /\ dispatcher = Idle
    /\ pending' = pending \ {r}
    /\ To(r, "forgotten")
    /\ UNCHANGED <<phase, connected, term, handshakeVars, dispatcher, cancelled, deliverer>>

CloseEnds(r) ==
    /\ caller[r] = "forgotten"
    /\ cancelled' = cancelled \cup {r}
    /\ To(r, "closed")
    /\ UNCHANGED <<phase, connected, term, handshakeVars, dispatcher, pending, deliverer>>

\* Either call finds that the peer is closed.
Disconnected(r) ==
    /\ term /\ caller[r] \in {"dispatching", "closing"}
    /\ To(r, "disconnected")
    /\ UNCHANGED <<phase, connected, term, handshakeVars, dispatcher, pending, cancelled, deliverer>>

\* The caller has handled the response: res.Done.
Handled(r) ==
    /\ caller[r] = "handling" /\ deliverer.at = "awaiting" /\ deliverer.of = r
    /\ To(r, "done") /\ deliverer' = Free
    /\ UNCHANGED <<phase, connected, term, handshakeVars, dispatcher, pending, cancelled>>

DispatcherExits ==
    /\ dispatcher = Idle /\ term
    /\ dispatcher' = Loop("ended", Nobody)
    /\ UNCHANGED <<phase, connected, term, handshakeVars, pending, caller, cancelled, deliverer>>

Request(r) ==
    \/ RequestStarts(r) \/ RequestAccepted(r) \/ RequestSent(r) \/ RequestTracked(r)
    \/ CloseStarts(r) \/ CloseAccepted(r) \/ CloseEnds(r) \/ Disconnected(r) \/ Handled(r)

----------------------------------------------------------------------------
(* Responses: handleMessage, in the loop of Handle                         *)

Deliverer(at) == deliverer' = [deliverer EXCEPT !.at = at]

\* A response may have any id, and the type that was asked for or another.
ResponseArrives(r) ==
    /\ phase = "running" /\ connected /\ deliverer = Free /\ dispatcher.at # "none"
    /\ \E matches \in BOOLEAN :
        deliverer' = [at |-> "dispatching", of |-> r, matches |-> matches]
    /\ UNCHANGED <<phase, connected, term, handshakeVars, dispatcher, pending, caller, cancelled>>

\* What is tracked after a response to r.
Remaining(r, matches) == IF matches THEN pending \ {r} ELSE pending

\* A dangling response, or one of the wrong type, is an error the loop does not see.
ResponseAccepted(r) ==
    /\ deliverer.at = "dispatching" /\ deliverer.of = r /\ dispatcher = Idle
    /\ IF r \in pending /\ deliverer.matches THEN Deliverer("checking") ELSE deliverer' = Free
    /\ pending' = Remaining(r, deliverer.matches)
    /\ UNCHANGED <<phase, connected, term, handshakeVars, dispatcher, caller, cancelled>>

CancelChecked(r) ==
    /\ deliverer.at = "checking" /\ deliverer.of = r
    /\ IF r \in cancelled THEN deliverer' = Free ELSE Deliverer("offering")
    /\ UNCHANGED <<phase, connected, term, handshakeVars, dispatcher, pending, caller, cancelled>>

\* A caller that holds its request open receives on its sink.
Delivered(r) ==
    /\ deliverer.at = "offering" /\ deliverer.of = r
    /\ \/ caller[r] = "open" /\ To(r, "handling") /\ Deliverer("awaiting")
       \/ r \in cancelled /\ deliverer' = Free /\ UNCHANGED caller
    /\ UNCHANGED <<phase, connected, term, handshakeVars, dispatcher, pending, cancelled>>

Response(r) == ResponseArrives(r) \/ ResponseAccepted(r) \/ CancelChecked(r) \/ Delivered(r)

----------------------------------------------------------------------------
(* The connection                                                          *)

\* ReadMsg fails, or a message is refused: Handle returns.
HandleEnds ==
    /\ phase = "running" /\ deliverer = Free
    /\ phase' = "leaving"
    /\ UNCHANGED <<connected, term, handshakeVars, dispatchVars>>

\* The deferred Close of the protocol's Run.
Close ==
    /\ phase = "leaving"
    /\ term' = TRUE /\ phase' = "ended"
    /\ UNCHANGED <<connected, handshakeVars, dispatchVars>>

\* The remote hangs up, or the server does so when Run has returned.
HangUp ==
    /\ connected
    /\ connected' = FALSE
    /\ UNCHANGED <<phase, term, handshakeVars, dispatchVars>>

Init ==
    /\ phase = "handshake" /\ connected = TRUE /\ term = FALSE
    /\ writing = TRUE /\ reading = TRUE /\ errc = {} /\ received = 0 /\ status = "unread"
    /\ dispatcher \in {Loop("none", Nobody), Idle} /\ pending = {}
    /\ caller = [r \in Requests |-> "new"] /\ cancelled = {} /\ deliverer = Free

Next ==
    \/ Handshake \/ HandleEnds \/ Close \/ HangUp \/ DispatcherExits
    \/ \E r \in Requests : Request(r) \/ Response(r)

Spec == Init /\ [][Next]_vars

\* Goroutines go on, sends and timers end.  The remote owes nothing, but the
\* server hangs up when Run has returned.  A caller closes its request or handles
\* its response, as dispatchRequest demands.
Progress(r) ==
    /\ WF_vars(RequestAccepted(r)) /\ WF_vars(RequestSent(r)) /\ WF_vars(RequestTracked(r))
    /\ WF_vars(CloseStarts(r)) /\ WF_vars(CloseAccepted(r)) /\ WF_vars(CloseEnds(r))
    /\ WF_vars(Disconnected(r)) /\ WF_vars(Handled(r))
    /\ WF_vars(ResponseAccepted(r)) /\ WF_vars(CancelChecked(r)) /\ WF_vars(Delivered(r))

FairSpec ==
    /\ Spec
    /\ WF_vars(StatusSent) /\ WF_vars(StatusMissing)
    /\ WF_vars(HandshakeReceives) /\ WF_vars(HandshakeTimeout)
    /\ WF_vars(~connected /\ HandleEnds) /\ WF_vars(Close) /\ WF_vars(phase = "ended" /\ HangUp)
    /\ WF_vars(DispatcherExits)
    /\ \A r \in Requests : Progress(r)

----------------------------------------------------------------------------
(* Properties                                                              *)

\* A session is run only when both halves of its handshake are over: the status
\* it goes by was read, and no other goroutine still reads its messages ("safe to
\* read after two values have been received").
HandshakeComplete ==
    phase = "running" => status = "read" /\ ~reading /\ ~writing /\ errc = {}

\* The caller, the dispatcher and the reading loop never lose a request between
\* them: an open one is tracked, about to be, or on its way back, unless the
\* dispatcher has ended; and what is on its way back has somebody to take it or
\* was cancelled, so that the reading loop is not left with it.
OnItsWay(r) == deliverer.at \in {"checking", "offering"} /\ deliverer.of = r
RequestsAccounted ==
    \A r \in Requests :
        /\ caller[r] = "open" => \/ r \in pending \/ OnItsWay(r)
                                 \/ dispatcher \in {Loop("tracking", r), Loop("ended", Nobody)}
        /\ OnItsWay(r) => caller[r] \in {"open", "closing", "forgotten"} \/ r \in cancelled
        /\ r \in pending => ~OnItsWay(r) /\ caller[r] # "done"

\* Nobody waits for ever: a handshake ends in time and leaves no goroutine, a
\* connection that is lost ends its session, the reading loop gets rid of each
\* response, and the callers return, without a dispatcher when the peer is closed.
NobodyWaitsForEver ==
    /\ phase = "handshake" ~> phase # "handshake"
    /\ phase = "ended" ~> ~reading /\ ~writing
    /\ ~connected ~> phase = "ended"
    /\ deliverer # Free ~> deliverer = Free
    /\ \A r \in Requests :
        caller[r] \in Waiting /\ (term \/ dispatcher.at # "none") ~> caller[r] \notin Waiting
=============================================================================
