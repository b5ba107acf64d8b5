---------------------------- MODULE EthPeerProofs ----------------------------
(***************************************************************************)
(* Proofs about EthPeer, for any set of requests: no session is run on     *)
(* half a handshake, and no request is lost between its caller, the        *)
(* dispatcher and the reading loop.                                        *)
(*                                                                         *)
(* The handshake's argument is a count: Handshake has received one answer  *)
(* of each goroutine that is neither running nor waiting on errc.  That of *)
(* the requests says where each may be while the dispatcher or the reading *)
(* loop has it in hand.                                                    *)
(***************************************************************************)
EXTENDS EthPeer, TLAPS

----------------------------------------------------------------------------
(* The handshake                                                           *)

Answers(side) == {<<side, TRUE>>, <<side, FALSE>>}
OnErrc(side) == <<side, TRUE>> \in errc \/ <<side, FALSE>> \in errc

\* Whether Handshake has the answer of a side.
Has(running, side) == IF running \/ OnErrc(side) THEN 0 ELSE 1

HTypeOK ==
    /\ phase \in {"handshake", "running", "leaving", "ended"}
    /\ connected \in BOOLEAN /\ writing \in BOOLEAN /\ reading \in BOOLEAN
    /\ errc \subseteq Answers("writer") \cup Answers("reader")

\* A side that runs has sent nothing, and each sends one answer.
OneAnswer(running, side) ==
    /\ running => ~OnErrc(side)
    /\ ~(<<side, TRUE>> \in errc /\ <<side, FALSE>> \in errc)

HandshakeInv ==
    /\ HTypeOK
    /\ OneAnswer(writing, "writer") /\ OneAnswer(reading, "reader")
    /\ phase = "handshake" => received = Has(writing, "writer") + Has(reading, "reader")
    /\ <<"reader", TRUE>> \in errc => status = "read"
    /\ phase = "handshake" /\ Has(reading, "reader") = 1 => status = "read"
    /\ HandshakeComplete

LEMMA HandshakeInit == Init => HandshakeInv
  BY DEF Init, HandshakeInv, HTypeOK, OneAnswer, Has, OnErrc, Answers, HandshakeComplete

\* What leaves the handshake's own variables alone keeps the invariant.
LEMMA HandshakeUntouched ==
    ASSUME HandshakeInv, UNCHANGED handshakeVars, connected' \in BOOLEAN,
           \/ phase' = phase
           \/ phase' \in {"leaving", "ended"}
    PROVE  HandshakeInv'
<1>1. UNCHANGED <<writing, reading, errc, received, status>>
  BY DEF handshakeVars
<1> QED BY <1>1 DEF HandshakeInv, HTypeOK, OneAnswer, Has, OnErrc, Answers, HandshakeComplete

LEMMA StatusSentKeeps ==
    ASSUME HandshakeInv, StatusSent
    PROVE  HandshakeInv'
<1>1. PICK ok \in {connected, FALSE} : errc' = errc \cup {<<"writer", ok>>}
  BY DEF StatusSent
<1>2. writing /\ writing' = FALSE /\ UNCHANGED <<phase, connected, reading, received, status>>
  BY DEF StatusSent
<1> QED BY <1>1, <1>2 DEF HandshakeInv, HTypeOK, OneAnswer, Has, OnErrc, Answers, HandshakeComplete

LEMMA StatusReadKeeps ==
    ASSUME HandshakeInv, StatusRead
    PROVE  HandshakeInv'
<1>1. PICK ok \in {connected, FALSE} :
        errc' = errc \cup {<<"reader", ok>>} /\ status' = IF ok THEN "read" ELSE status
  BY DEF StatusRead
<1>2. reading /\ reading' = FALSE /\ UNCHANGED <<phase, connected, writing, received>>
  BY DEF StatusRead
<1> QED BY <1>1, <1>2 DEF HandshakeInv, HTypeOK, OneAnswer, Has, OnErrc, Answers, HandshakeComplete

LEMMA HandshakeReceivesKeeps ==
    ASSUME HandshakeInv, HandshakeReceives
    PROVE  HandshakeInv'
<1>1. PICK e \in errc :
        /\ errc' = errc \ {e} /\ received' = received + 1
        /\ \/ ~e[2] /\ phase' = "leaving"
           \/ e[2] /\ ~Answered(received + 1) /\ UNCHANGED phase
           \/ e[2] /\ Answered(received + 1) /\ phase' \in {"running", "leaving"}
  BY DEF HandshakeReceives
<1>2. phase = "handshake" /\ UNCHANGED <<connected, writing, reading, status>>
  BY DEF HandshakeReceives
<1>3. PICK side \in {"writer", "reader"}, ok \in BOOLEAN : e = <<side, ok>>
  BY DEF HandshakeInv, HTypeOK, Answers
<1>4. e[2] = ok
  BY <1>3
<1>5. errc' \subseteq errc /\ HTypeOK'
  BY <1>1, <1>2 DEF HandshakeInv, HTypeOK
<1>6. \A s, b : <<s, b>> \in errc' <=> <<s, b>> \in errc /\ <<s, b>> # <<side, ok>>
  BY <1>1, <1>3
<1>7. CASE side = "writer"
  <2>1. ~writing /\ OnErrc("writer") /\ ~OnErrc("writer")'
    BY <1>1, <1>3, <1>6, <1>7 DEF HandshakeInv, OneAnswer, OnErrc
  <2>2. OnErrc("reader")' = OnErrc("reader") /\ \A b : <<"reader", b>> \in errc' <=> <<"reader", b>> \in errc
    BY <1>3, <1>6, <1>7 DEF OnErrc
  <2>3. /\ Has(writing, "writer") = 0 /\ Has(writing, "writer")' = 1
        /\ Has(reading, "reader")' = Has(reading, "reader") /\ Has(reading, "reader") \in {0, 1}
    BY <1>2, <2>1, <2>2 DEF Has
  <2>4. received' = Has(writing, "writer")' + Has(reading, "reader")'
    BY <1>1, <1>2, <2>3 DEF HandshakeInv
  <2>5. OneAnswer(writing, "writer")' /\ OneAnswer(reading, "reader")'
    BY <1>2, <1>7, <2>1, <2>2 DEF HandshakeInv, OneAnswer, OnErrc
  <2>6. phase' # "leaving" /\ Has(reading, "reader")' = 1 => status' = "read"
    BY <1>1, <1>2, <1>3, <1>4, <1>7, <2>3, <2>1 DEF HandshakeInv, Has, OnErrc
  <2>7. phase' = "running" => received' = 2
    BY <1>1, <1>2 DEF Answered
  <2>8. phase' = "running" => Has(reading, "reader")' = 1 /\ Has(writing, "writer")' = 1
    BY <2>7, <2>4, <2>3
  <2>9. phase' = "running" => ~writing' /\ ~reading' /\ ~OnErrc("writer")' /\ ~OnErrc("reader")'
    BY <2>8 DEF Has
  <2>10. phase' = "running" => errc' = {}
    BY <1>5, <2>9 DEF HTypeOK, Answers, OnErrc
  <2>11. HandshakeComplete'
    BY <2>6, <2>8, <2>9, <2>10 DEF HandshakeComplete
  <2>12. <<"reader", TRUE>> \in errc' => status' = "read"
    BY <1>1, <1>2 DEF HandshakeInv
  <2> QED BY <1>5, <2>4, <2>5, <2>6, <2>11, <2>12 DEF HandshakeInv
<1>8. CASE side = "reader"
  <2>1. ~reading /\ OnErrc("reader") /\ ~OnErrc("reader")'
    BY <1>1, <1>3, <1>6, <1>8 DEF HandshakeInv, OneAnswer, OnErrc
  <2>2. OnErrc("writer")' = OnErrc("writer") /\ \A b : <<"writer", b>> \in errc' <=> <<"writer", b>> \in errc
    BY <1>3, <1>6, <1>8 DEF OnErrc
  <2>3. /\ Has(reading, "reader") = 0 /\ Has(reading, "reader")' = 1
        /\ Has(writing, "writer")' = Has(writing, "writer") /\ Has(writing, "writer") \in {0, 1}
    BY <1>2, <2>1, <2>2 DEF Has
  <2>4. received' = Has(writing, "writer")' + Has(reading, "reader")'
    BY <1>1, <1>2, <2>3 DEF HandshakeInv
  <2>5. OneAnswer(writing, "writer")' /\ OneAnswer(reading, "reader")'
    BY <1>2, <1>8, <2>1, <2>2 DEF HandshakeInv, OneAnswer, OnErrc
  <2>6. phase' # "leaving" /\ Has(reading, "reader")' = 1 => status' = "read"
    BY <1>1, <1>2, <1>3, <1>4, <1>8, <2>3, <2>1 DEF HandshakeInv, Has, OnErrc
  <2>7. phase' = "running" => received' = 2
    BY <1>1, <1>2 DEF Answered
  <2>8. phase' = "running" => Has(writing, "writer")' = 1 /\ Has(reading, "reader")' = 1
    BY <2>7, <2>4, <2>3
  <2>9. phase' = "running" => ~writing' /\ ~reading' /\ ~OnErrc("writer")' /\ ~OnErrc("reader")'
    BY <2>8 DEF Has
  <2>10. phase' = "running" => errc' = {}
    BY <1>5, <2>9 DEF HTypeOK, Answers, OnErrc
  <2>11. HandshakeComplete'
    BY <2>6, <2>8, <2>9, <2>10 DEF HandshakeComplete
  <2>12. <<"reader", TRUE>> \in errc' => status' = "read"
    BY <1>1, <1>2 DEF HandshakeInv
  <2> QED BY <1>5, <2>4, <2>5, <2>6, <2>11, <2>12 DEF HandshakeInv
<1> QED BY <1>7, <1>8

\* No step of requests, of responses or of the connection is one of the handshake.
LEMMA HandshakeNext == HandshakeInv /\ [Next]_vars => HandshakeInv'
<1> SUFFICES ASSUME HandshakeInv, [Next]_vars PROVE HandshakeInv'
  OBVIOUS
<1>1. CASE Handshake
  <2>1. CASE HandshakeTimeout
    BY <2>1, HandshakeUntouched DEF HandshakeTimeout, HandshakeInv, HTypeOK
  <2> QED BY <1>1, <2>1, StatusSentKeeps, StatusReadKeeps, HandshakeReceivesKeeps DEF Handshake
<1>2. CASE HandleEnds \/ Close \/ HangUp \/ DispatcherExits \/ UNCHANGED vars
  BY <1>2, HandshakeUntouched
  DEF HandleEnds, Close, HangUp, DispatcherExits, vars, HandshakeInv, HTypeOK
<1>3. CASE \E r \in Requests : Request(r) \/ Response(r)
  <2>1. UNCHANGED <<phase, connected, handshakeVars>>
    BY <1>3 DEF Request, Response, RequestStarts, RequestAccepted, RequestSent, RequestTracked,
       CloseStarts, CloseAccepted, CloseEnds, Disconnected, Handled,
       ResponseArrives, ResponseAccepted, CancelChecked, Delivered
  <2> QED BY <2>1, HandshakeUntouched DEF HandshakeInv, HTypeOK
<1> QED BY <1>1, <1>2, <1>3 DEF Next

\* A session is run only when both goroutines of its handshake are over, its
\* status read and nothing of theirs left: Handshake in peer.go.
THEOREM HandshakeIsComplete == Spec => []HandshakeComplete
<1>1. HandshakeInv => HandshakeComplete
  BY DEF HandshakeInv
<1> QED BY <1>1, HandshakeInit, HandshakeNext, PTL DEF Spec

----------------------------------------------------------------------------
(* Requests                                                                *)

\* A request the dispatcher sent, and whose caller has not been answered.
Held == {"open", "closing", "disconnected"}

\* The one request the dispatcher has in hand.
InHand(r) == dispatcher \in {Loop("sending", r), Loop("tracking", r)}

DispatchTypeOK ==
    /\ pending \subseteq Requests /\ cancelled \subseteq Requests
    /\ DOMAIN caller = Requests
    /\ DOMAIN deliverer = {"at", "of", "matches"}

\* The reading loop has a response only while the session runs, and the peer is
\* closed only when it has ended.
Phases ==
    /\ deliverer # Free => phase = "running"
    /\ term => phase = "ended"

Placed(r) ==
    /\ dispatcher = Loop("sending", r) => caller[r] = "sent"
    /\ caller[r] = "sent" => dispatcher = Loop("sending", r)
    /\ dispatcher = Loop("tracking", r) => caller[r] \in Held
    /\ r \in pending => caller[r] \in Held
    /\ r \in cancelled => caller[r] = "closed"
    /\ caller[r] = "disconnected" => term
    /\ InHand(r) \/ r \in pending => ~OnItsWay(r)
    /\ InHand(r) => r \notin pending
    /\ OnItsWay(r) => caller[r] \in {"open", "closing", "forgotten"} \/ r \in cancelled
    /\ caller[r] = "open" => \/ r \in pending \/ OnItsWay(r)
                             \/ dispatcher \in {Loop("tracking", r), Loop("ended", Nobody)}

DispatchInv ==
    /\ DispatchTypeOK
    /\ Phases
    /\ \A r \in Requests : Placed(r)

LEMMA DispatchInit == Init => DispatchInv
  BY DEF Init, DispatchInv, DispatchTypeOK, Phases, Placed, InHand, OnItsWay, Loop, Idle, Free

\* What leaves the requests alone, and ends no session the reading loop is in,
\* keeps the invariant.
LEMMA DispatchUntouched ==
    ASSUME DispatchInv, UNCHANGED dispatchVars, Phases', term => term'
    PROVE  DispatchInv'
<1>1. UNCHANGED <<dispatcher, pending, caller, cancelled, deliverer>>
  BY DEF dispatchVars
<1> QED BY <1>1 DEF DispatchInv, DispatchTypeOK, Placed, InHand, OnItsWay

\* A step of request r leaves every other one where it is.
LEMMA OthersStay ==
    ASSUME DispatchInv, NEW r \in Requests, Request(r) \/ Response(r),
           NEW q \in Requests, q # r
    PROVE  Placed(q)'
<1>1. Placed(q)
  BY DEF DispatchInv
<1>2. UNCHANGED term
  BY DEF Request, Response, RequestStarts, RequestAccepted, RequestSent, RequestTracked,
     CloseStarts, CloseAccepted, CloseEnds, Disconnected, Handled,
     ResponseArrives, ResponseAccepted, CancelChecked, Delivered
<1>3. \A at \in {"sending", "tracking"} : dispatcher' = Loop(at, q) <=> dispatcher = Loop(at, q)
  BY DEF Request, Response, RequestStarts, RequestAccepted, RequestSent, RequestTracked,
     CloseStarts, CloseAccepted, CloseEnds, Disconnected, Handled,
     ResponseArrives, ResponseAccepted, CancelChecked, Delivered, Loop, Idle
<1>4. dispatcher = Loop("ended", Nobody) => dispatcher' = Loop("ended", Nobody)
  BY DEF Request, Response, RequestStarts, RequestAccepted, RequestSent, RequestTracked,
     CloseStarts, CloseAccepted, CloseEnds, Disconnected, Handled,
     ResponseArrives, ResponseAccepted, CancelChecked, Delivered, Loop, Idle
<1>5. caller'[q] = caller[q] /\ (q \in pending' <=> q \in pending) /\ (q \in cancelled' <=> q \in cancelled)
  BY DEF DispatchInv, DispatchTypeOK, Request, Response, RequestStarts, RequestAccepted, RequestSent,
     RequestTracked, CloseStarts, CloseAccepted, CloseEnds, Disconnected, Handled,
     ResponseArrives, ResponseAccepted, CancelChecked, Delivered, To, Remaining
<1>6. OnItsWay(q)' <=> OnItsWay(q)
  BY DEF Request, Response, RequestStarts, RequestAccepted, RequestSent,
     RequestTracked, CloseStarts, CloseAccepted, CloseEnds, Disconnected, Handled,
     ResponseArrives, ResponseAccepted, CancelChecked, Delivered, OnItsWay, Deliverer, Free,
     DispatchInv, DispatchTypeOK
<1> QED BY <1>1, <1>3, <1>5, <1>6, <1>4, <1>2 DEF Placed, InHand

\* The requests' own facts after each step of r.
LEMMA RequestKeeps ==
    ASSUME DispatchInv, NEW r \in Requests, Request(r)
    PROVE  DispatchTypeOK' /\ Phases' /\ Placed(r)'
<1> USE DEF DispatchInv, DispatchTypeOK, Placed, InHand, OnItsWay, Loop, Idle, Held, To
<1>1. DispatchTypeOK' /\ Phases'
  BY DEF Phases, Request, RequestStarts, RequestAccepted, RequestSent, RequestTracked,
     CloseStarts, CloseAccepted, CloseEnds, Disconnected, Handled, Free
<1>2. Placed(r) /\ r \in DOMAIN caller
  OBVIOUS
<1>3. CASE RequestStarts(r)
  BY <1>1, <1>2, <1>3 DEF RequestStarts
<1>4. CASE RequestAccepted(r)
  BY <1>1, <1>2, <1>4 DEF RequestAccepted
<1>5. CASE RequestSent(r)
  BY <1>1, <1>2, <1>5 DEF RequestSent
<1>6. CASE RequestTracked(r)
  BY <1>1, <1>2, <1>6 DEF RequestTracked
<1>7. CASE CloseStarts(r)
  BY <1>1, <1>2, <1>7 DEF CloseStarts
<1>8. CASE CloseAccepted(r)
  BY <1>1, <1>2, <1>8 DEF CloseAccepted
<1>9. CASE CloseEnds(r)
  BY <1>1, <1>2, <1>9 DEF CloseEnds
<1>10. CASE Disconnected(r)
  <2>1. deliverer = Free
    BY <1>10 DEF Disconnected, Phases
  <2>2. ~OnItsWay(r)
    BY <2>1 DEF Free
  <2> QED BY <1>1, <1>2, <1>10, <2>2 DEF Disconnected
<1>11. CASE Handled(r)
  BY <1>1, <1>2, <1>11 DEF Handled, Free
<1> QED BY <1>1, <1>3, <1>4, <1>5, <1>6, <1>7, <1>8, <1>9, <1>10, <1>11 DEF Request

LEMMA ResponseKeeps ==
    ASSUME DispatchInv, NEW r \in Requests, Response(r)
    PROVE  DispatchTypeOK' /\ Phases' /\ Placed(r)'
<1> USE DEF DispatchInv, DispatchTypeOK, Placed, InHand, OnItsWay, Loop, Idle, Held, To, Deliverer, Free
<1>1. DispatchTypeOK' /\ Phases'
  BY DEF Phases, Response, ResponseArrives, ResponseAccepted, CancelChecked, Delivered, Remaining
<1>2. Placed(r) /\ r \in DOMAIN caller
  OBVIOUS
<1>3. CASE ResponseArrives(r)
  BY <1>1, <1>2, <1>3 DEF ResponseArrives
<1>4. CASE ResponseAccepted(r)
  <2>1. ~term
    BY <1>4 DEF ResponseAccepted, Phases
  <2>2. CASE r \in pending /\ deliverer.matches
    BY <1>1, <1>2, <1>4, <2>1, <2>2 DEF ResponseAccepted, Remaining
  <2>3. CASE ~(r \in pending /\ deliverer.matches)
    BY <1>1, <1>2, <1>4, <2>3 DEF ResponseAccepted, Remaining
  <2> QED BY <2>2, <2>3
<1>5. CASE CancelChecked(r)
  BY <1>1, <1>2, <1>5 DEF CancelChecked
<1>6. CASE Delivered(r)
  BY <1>1, <1>2, <1>6 DEF Delivered
<1> QED BY <1>1, <1>3, <1>4, <1>5, <1>6 DEF Response

LEMMA DispatchNext == DispatchInv /\ [Next]_vars => DispatchInv'
<1> SUFFICES ASSUME DispatchInv, [Next]_vars PROVE DispatchInv'
  OBVIOUS
<1>1. CASE Handshake \/ HandleEnds \/ Close \/ HangUp \/ UNCHANGED vars
  <2>1. UNCHANGED dispatchVars /\ UNCHANGED deliverer
    BY <1>1 DEF Handshake, StatusSent, StatusRead, HandshakeReceives, HandshakeTimeout,
       HandleEnds, Close, HangUp, vars, dispatchVars
  <2>2. term => phase = "ended"
    BY DEF DispatchInv, Phases
  <2>3. UNCHANGED term \/ Close
    BY <1>1 DEF Handshake, StatusSent, StatusRead, HandshakeReceives, HandshakeTimeout,
       HandleEnds, HangUp, vars
  <2>4. UNCHANGED phase \/ (phase # "ended" /\ (phase = "running" => deliverer = Free))
    BY <1>1 DEF Handshake, StatusSent, StatusRead, HandshakeReceives, HandshakeTimeout,
       HandleEnds, Close, HangUp, vars
  <2>5. Phases'
    BY <2>1, <2>2, <2>3, <2>4 DEF DispatchInv, Phases, Close, Free
  <2>6. term => term'
    BY <2>3 DEF Close
  <2> QED BY <2>1, <2>5, <2>6, DispatchUntouched
<1>2. CASE DispatcherExits
  <2>1. /\ dispatcher = Idle /\ dispatcher' = Loop("ended", Nobody)
        /\ UNCHANGED <<phase, term, pending, caller, cancelled, deliverer>>
    BY <1>2 DEF DispatcherExits
  <2>2. DispatchTypeOK' /\ Phases'
    BY <2>1 DEF DispatchInv, DispatchTypeOK, Phases
  <2>3. ASSUME NEW r \in Requests PROVE Placed(r)'
    BY <2>1 DEF DispatchInv, Placed, InHand, OnItsWay, Loop, Idle
  <2> QED BY <2>2, <2>3 DEF DispatchInv
<1>3. CASE \E r \in Requests : Request(r) \/ Response(r)
  <2>1. PICK r \in Requests : Request(r) \/ Response(r)
    BY <1>3
  <2>2. DispatchTypeOK' /\ Phases' /\ Placed(r)'
    BY <2>1, RequestKeeps, ResponseKeeps
  <2>3. ASSUME NEW q \in Requests, q # r PROVE Placed(q)'
    BY <2>1, <2>3, OthersStay
  <2> QED BY <2>2, <2>3 DEF DispatchInv
<1> QED BY <1>1, <1>2, <1>3 DEF Next

\* No request is lost between its caller, the dispatcher and the reading loop,
\* and no response is on its way to nobody: dispatchRequest, Close, dispatchResponse
\* and dispatcher in dispatcher.go.
THEOREM RequestsAreAccounted == Spec => []RequestsAccounted
<1>1. DispatchInv => RequestsAccounted
  BY DEF DispatchInv, Placed, Held, RequestsAccounted
<1> QED BY <1>1, DispatchInit, DispatchNext, PTL DEF Spec

=============================================================================
