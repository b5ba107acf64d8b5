------------------------ MODULE ReorgSchedulerProofs ------------------------
(***************************************************************************)
(* Proofs about ReorgScheduler: a call that waited for its run finds all   *)
(* it caused done, and no queued account is left without a scheduled run,  *)
(* for any number of goroutines and accounts.                              *)
(*                                                                         *)
(* The invariant follows a call's done channel: what it owes is carried by *)
(* the scheduler while its channel is that of the next run, and by the run *)
(* while it is that of the current one (Promises).                         *)
(***************************************************************************)
EXTENDS ReorgScheduler, TLAPS

\* Work w of the scheduler, or of a run, includes what caller c asked for.
Carries(w, k, c) ==
    IF c = Resetter THEN w.reset ELSE w.reset \/ k.dirty \subseteq w.dirty

\* What is known of the call k of c, when the scheduler has kept w and r runs.
Promise(c, k, w, r) ==
    /\ k.done = "none" <=> k.at # "waiting"
    /\ k.at \in {"idle", "locking"} => ~k.owed /\ ~k.event
    /\ k.done = "next" /\ k.owed => Carries(w, k, c)
    /\ k.done = "current" => r.at \notin {"none", "closed"}
    /\ k.done = "current" /\ k.owed =>
            r.at \in {"starting", "reinjecting", "locked"} /\ Carries(r, k, c)
    /\ ~closing /\ k.event /\ (k.at = "requesting" \/ k.done = "next") =>
            c \in w.events \cup r.events
    /\ ~closing /\ k.event /\ k.done = "current" => c \in r.events
    /\ k.done = "closed" => /\ scheduler # "exited" => ~k.owed
                            /\ ~closing => ~k.event

\* Who looks at account a next.
Coming(a, calls, w, r) ==
    \/ r.at \in {"starting", "reinjecting", "locked"} /\ (r.reset \/ a \in r.dirty)
    \/ w.wanted /\ (w.reset \/ a \in w.dirty)
    \/ \E c \in Adders : calls[c].at \in {"eventing", "requesting"} /\ a \in calls[c].dirty

\* The part of the invariant the handlers disturb, of any calls, work and run.
Kept(calls, w, r) ==
    /\ calls \in [Callers -> Call] /\ w \in Work /\ r \in Runs
    /\ r.at \in {"none", "closed"} => r.events = {}
    /\ \A c \in Callers : Promise(c, calls[c], w, r)
    /\ ~closing => \A a \in unexamined : Coming(a, calls, w, r)

\* The inductive invariant.
IInv ==
    /\ Typed
    /\ scheduler # "select" => closing
    /\ work.wanted => Active
    /\ Kept(call, work, run)

-----------------------------------------------------------------------------
\* The end of a select case, whether or not it launches a run, keeps what held of
\* the calls and the work it was given.
LEMMA LaunchKeeps ==
    ASSUME NEW w, NEW calls, NEW active \in BOOLEAN,
           Kept(calls, w, run),
           IF active THEN Active ELSE run.at \in {"none", "closed"},
           LaunchIfDue(w, calls, active),
           UNCHANGED <<scheduler, closing, unexamined>>
    PROVE  Kept(call, work, run)' /\ (work.wanted => Active)'
<1>1. CASE w.wanted /\ ~active
  <2>1. /\ run' = [at |-> "starting", reset |-> w.reset, dirty |-> w.dirty, events |-> w.events]
        /\ work' = NoWork
        /\ call' = Promised(calls)
    BY <1>1 DEF LaunchIfDue
  <2>2. calls \in [Callers -> Call] /\ w \in Work /\ run \in Runs /\ run.events = {}
    BY <1>1 DEF Kept
  <2>3. call' \in [Callers -> Call]
    BY <2>1, <2>2 DEF Promised, Call
  <2>4. work' \in Work /\ run' \in Runs
    BY <2>1, <2>2 DEF Work, NoWork, Runs
  <2>5. ASSUME NEW c \in Callers PROVE Promise(c, call[c], work, run)'
    <3>1. Promise(c, calls[c], w, run)
      BY DEF Kept
    <3>2. calls[c] \in Call
      BY <2>2
    <3>3. CASE calls[c].done = "next"
      <4>1. call'[c] = [calls[c] EXCEPT !.done = "current"]
        BY <2>1, <3>3 DEF Promised
      <4>2. /\ call'[c].done = "current" /\ call'[c].at = calls[c].at
            /\ call'[c].owed = calls[c].owed /\ call'[c].event = calls[c].event
            /\ call'[c].dirty = calls[c].dirty
        BY <4>1, <3>2 DEF Call
      <4>3. calls[c].at = "waiting"
        BY <3>1, <3>2, <3>3 DEF Promise, Call
      <4> QED BY <2>1, <2>2, <3>1, <3>3, <4>2, <4>3 DEF Promise, Carries
    <3>4. CASE calls[c].done # "next"
      <4>1. call'[c] = calls[c]
        BY <2>1, <3>4 DEF Promised
      <4>2. calls[c].done # "current"
        BY <1>1, <3>1 DEF Promise
      <4> QED BY <2>1, <2>2, <3>1, <3>4, <4>1, <4>2 DEF Promise, NoWork
    <3> QED BY <3>3, <3>4
  <2>6. ASSUME ~closing', NEW a \in unexamined' PROVE Coming(a, call, work, run)'
    <3>1. Coming(a, calls, w, run)
      BY <2>6 DEF Kept
    <3>2. run.at \in {"none", "closed"}
      BY <1>1
    <3>3. CASE w.reset \/ a \in w.dirty
      BY <2>1, <3>3 DEF Coming
    <3>4. CASE \E c \in Adders : calls[c].at \in {"eventing", "requesting"} /\ a \in calls[c].dirty
      <4>1. PICK c \in Adders : calls[c].at \in {"eventing", "requesting"} /\ a \in calls[c].dirty
        BY <3>4
      <4>2. c \in Callers /\ Promise(c, calls[c], w, run)
        BY DEF Kept, Callers
      <4>3. calls[c].done # "next"
        BY <4>1, <4>2 DEF Promise
      <4>4. call'[c] = calls[c]
        BY <2>1, <4>2, <4>3 DEF Promised
      <4> QED BY <4>1, <4>4 DEF Coming
    <3> QED BY <3>1, <3>2, <3>3, <3>4 DEF Coming
  <2> QED BY <2>1, <2>3, <2>4, <2>5, <2>6 DEF Kept, Active
<1>2. CASE ~(w.wanted /\ ~active)
  <2>1. run' = (IF active THEN run ELSE NoRun) /\ work' = w /\ call' = calls
    BY <1>2 DEF LaunchIfDue
  <2>2. CASE active
    <3>1. run' = run
      BY <2>1, <2>2
    <3> QED BY <2>1, <2>2, <3>1 DEF Kept, Promise, Coming, Carries, Active
  <2>3. CASE ~active
    <3>1. run' = NoRun /\ ~w.wanted
      BY <1>2, <2>1, <2>3
    <3>2. run.at \in {"none", "closed"} /\ run.events = {}
      BY <2>3 DEF Kept
    <3>3. NoRun \in Runs /\ NoRun.at = "none" /\ NoRun.events = {}
      BY DEF NoRun, Runs
    <3>4. ASSUME NEW c \in Callers PROVE Promise(c, call[c], work, run)'
      <4>1. Promise(c, calls[c], w, run)
        BY DEF Kept
      <4> QED BY <2>1, <3>1, <3>2, <3>3, <4>1 DEF Promise, Carries
    <3>5. ASSUME ~closing', NEW a \in unexamined' PROVE Coming(a, call, work, run)'
      <4>1. Coming(a, calls, w, run)
        BY <3>5 DEF Kept
      <4> QED BY <2>1, <3>1, <3>2, <4>1 DEF Coming
    <3>6. call' \in [Callers -> Call] /\ work' \in Work /\ run' \in Runs
      BY <2>1, <3>1, <3>3 DEF Kept
    <3> QED BY <2>1, <3>1, <3>3, <3>4, <3>5, <3>6 DEF Kept
  <2> QED BY <2>2, <2>3
<1> QED BY <1>1, <1>2

\* Init establishes the invariant.
LEMMA InitInv == Init => IInv
<1> SUFFICES ASSUME Init PROVE IInv
  OBVIOUS
<1>1. NoCall \in Call /\ NoWork \in Work /\ NoRun \in Runs
  BY DEF NoCall, Call, NoWork, Work, NoRun, Runs
<1>2. Typed
  BY <1>1 DEF Init, Typed
<1>3. \A c \in Callers : Promise(c, call[c], work, run)
  BY DEF Init, Promise, NoCall, NoRun
<1>4. Kept(call, work, run)
  BY <1>1, <1>2, <1>3 DEF Init, Kept, Typed, NoRun
<1> QED BY <1>2, <1>4 DEF Init, IInv, NoWork

\* Types once the calls, the work and the run have theirs.
LEMMA Retyped ==
    ASSUME Typed, Kept(call, work, run)', mu' \in Adders \cup {Run, Nobody},
           UNCHANGED <<scheduler, closing>>, unexamined' \subseteq Accounts
    PROVE  Typed'
BY DEF Typed, Kept

\* A call that enters the lock, queues its event or goes idle keeps the invariant.
LEMMA AddKeeps ==
    ASSUME IInv, NEW c \in Adders, AddStarts(c) \/ AddEnters(c) \/ AddQueuesEvent(c)
    PROVE  IInv'
<1>1. /\ call \in [Callers -> Call] /\ work \in Work /\ run \in Runs
      /\ c \in Callers /\ c # Resetter /\ c # Run
  BY SchedulerAssumption DEF IInv, Kept, Callers
<1>2. Promise(c, call[c], work, run) /\ call[c] \in Call
  BY <1>1 DEF IInv, Kept
<1>3. CASE AddStarts(c)
  <2>1. call' = [call EXCEPT ![c].at = "locking"] /\ UNCHANGED <<mu, work, run, scheduler, closing, unexamined>>
    BY <1>3 DEF AddStarts
  <2>2. call[c].at = "idle" /\ call[c].done = "none" /\ ~call[c].owed /\ ~call[c].event
    BY <1>1, <1>2, <1>3 DEF AddStarts, Promise
  <2>3. call' \in [Callers -> Call] /\ \A d \in Callers \ {c} : call'[d] = call[d]
    BY <1>1, <2>1 DEF Call
  <2>4. call'[c].at = "locking" /\ call'[c].done = "none" /\ ~call'[c].owed /\ ~call'[c].event
    BY <1>1, <1>2, <2>1, <2>2 DEF Call
  <2>5. \A d \in Callers : Promise(d, call[d], work, run)'
    BY <1>1, <2>1, <2>3, <2>4 DEF IInv, Kept, Promise, Carries
  <2>6. ASSUME ~closing', NEW a \in unexamined' PROVE Coming(a, call, work, run)'
    <3>1. Coming(a, call, work, run)
      BY <2>1, <2>6 DEF IInv, Kept
    <3> QED BY <2>1, <2>2, <2>3, <3>1 DEF Coming, Callers
  <2>7. Kept(call, work, run)'
    BY <1>1, <2>1, <2>3, <2>5, <2>6 DEF IInv, Kept
  <2>8. Typed'
    BY <2>1, <2>7, Retyped DEF IInv, Typed
  <2> QED BY <2>1, <2>7, <2>8 DEF IInv, Active
<1>4. CASE AddEnters(c)
  <2>1. PICK dirty \in {{}} \cup {{a} : a \in Accounts}, replaces, sync \in BOOLEAN :
            AddLocked(c, dirty, replaces, sync)
    BY <1>4 DEF AddEnters
  <2>2. /\ UNCHANGED <<work, run, scheduler, closing>>
        /\ unexamined' = unexamined \cup dirty
        /\ mu' \in Adders \cup {Run, Nobody}
        /\ dirty \subseteq Accounts
    BY <2>1 DEF AddLocked
  <2>3. call[c].at = "locking" /\ call[c].done = "none" /\ ~call[c].owed /\ ~call[c].event
    BY <1>1, <1>2, <2>1 DEF AddLocked, Promise
  <2>4. call' \in [Callers -> Call] /\ \A d \in Callers \ {c} : call'[d] = call[d]
    <3> DEFINE k == [at |-> IF replaces THEN "eventing" ELSE "requesting",
                     dirty |-> dirty, sync |-> sync, done |-> "none",
                     owed |-> sync /\ dirty # {}, event |-> sync /\ replaces]
    <3>1. k \in Call
      BY <2>2 DEF Call
    <3>2. call' = [call EXCEPT ![c] = k]
      BY <2>1 DEF AddLocked
    <3> HIDE DEF k
    <3> QED BY <1>1, <3>1, <3>2
  <2>5. /\ call'[c].at = (IF replaces THEN "eventing" ELSE "requesting")
        /\ call'[c].done = "none" /\ call'[c].dirty = dirty
        /\ call'[c].event => replaces
    BY <1>1, <2>1 DEF AddLocked
  <2>6. \A d \in Callers : Promise(d, call[d], work, run)'
    <3>1. Promise(c, call[c], work, run)'
      BY <2>5, <2>1, <2>2 DEF Promise
    <3> QED BY <1>1, <2>2, <2>4, <3>1 DEF IInv, Kept, Promise, Carries
  <2>7. ASSUME ~closing', NEW a \in unexamined' PROVE Coming(a, call, work, run)'
    <3>1. CASE a \in dirty
      BY <2>5, <3>1, <2>1 DEF Coming
    <3>2. CASE a \in unexamined
      <4>1. Coming(a, call, work, run)
        BY <2>2, <2>7, <3>2 DEF IInv, Kept
      <4> QED BY <2>2, <2>3, <2>4, <4>1 DEF Coming, Callers
    <3> QED BY <2>2, <3>1, <3>2
  <2>8. Kept(call, work, run)'
    BY <1>1, <2>2, <2>4, <2>6, <2>7 DEF IInv, Kept
  <2>9. Typed'
    BY <2>2, <2>8, Retyped DEF IInv, Typed
  <2> QED BY <2>2, <2>8, <2>9 DEF IInv, Active
<1>5. CASE AddQueuesEvent(c)
  <2>1. /\ call' = [call EXCEPT ![c].at = "requesting"]
        /\ mu' = Nobody /\ call[c].at = "eventing"
        /\ UNCHANGED <<run, scheduler, closing, unexamined>>
        /\ \/ work' = [work EXCEPT !.events = @ \cup {c}]
           \/ closing /\ work' = work
    BY <1>5 DEF AddQueuesEvent, EventTaken
  <2>2. call' \in [Callers -> Call] /\ \A d \in Callers \ {c} : call'[d] = call[d]
    BY <1>1, <2>1 DEF Call
  <2>3. /\ call'[c].at = "requesting" /\ call'[c].dirty = call[c].dirty
        /\ call'[c].done = call[c].done /\ call[c].done = "none"
    BY <1>1, <1>2, <2>1 DEF Call, Promise
  <2>4. /\ work' \in Work
        /\ work'.wanted = work.wanted /\ work'.reset = work.reset /\ work'.dirty = work.dirty
        /\ work.events \subseteq work'.events /\ (~closing => c \in work'.events)
    BY <1>1, <2>1 DEF Work
  <2>5. \A d \in Callers : Promise(d, call[d], work, run)'
    <3>1. Promise(c, call[c], work, run)'
      BY <2>1, <2>3, <2>4 DEF Promise
    <3> QED BY <1>1, <2>1, <2>2, <2>4, <3>1 DEF IInv, Kept, Promise, Carries
  <2>6. ASSUME ~closing', NEW a \in unexamined' PROVE Coming(a, call, work, run)'
    <3>1. Coming(a, call, work, run)
      BY <2>1, <2>6 DEF IInv, Kept
    <3> QED BY <2>1, <2>2, <2>3, <2>4, <3>1 DEF Coming, Callers
  <2>7. Kept(call, work, run)'
    BY <1>1, <2>1, <2>2, <2>4, <2>5, <2>6 DEF IInv, Kept
  <2>8. Typed'
    BY <2>1, <2>7, Retyped DEF IInv, Typed
  <2> QED BY <2>1, <2>4, <2>7, <2>8 DEF IInv, Active
<1> QED BY <1>3, <1>4, <1>5

\* A promotion request keeps the invariant: the account of the call moves from
\* its hands to the scheduler's.
LEMMA RequestKeeps ==
    ASSUME IInv, NEW c \in Adders, AddRequests(c)
    PROVE  IInv'
<1> DEFINE w == Merge(work, call[c].dirty)
           k == IF call[c].sync THEN [call[c] EXCEPT !.at = "waiting", !.done = "next"] ELSE NoCall
           calls == [call EXCEPT ![c] = k]
<1>1. /\ call \in [Callers -> Call] /\ work \in Work /\ run \in Runs
      /\ c \in Callers /\ c # Resetter /\ call[c] \in Call
  BY DEF IInv, Kept, Callers, AddRequests
<1>2. call[c].at = "requesting" /\ call[c].done = "none" /\ Promise(c, call[c], work, run)
  BY <1>1 DEF IInv, Kept, Promise, AddRequests
<1>3. /\ LaunchIfDue(w, calls, Active)
      /\ UNCHANGED <<mu, scheduler, closing, unexamined>>
  BY DEF AddRequests
<1>4. /\ w \in Work /\ w.wanted /\ w.reset = work.reset /\ w.events = work.events
      /\ w.dirty = work.dirty \cup call[c].dirty
  BY <1>1 DEF Merge, Work, Call
<1>5. k \in Call
  BY <1>1 DEF Call, NoCall
<1>6. /\ call[c].sync => /\ k.at = "waiting" /\ k.done = "next" /\ k.dirty = call[c].dirty
                         /\ k.event = call[c].event
      /\ ~call[c].sync => k.at = "idle" /\ k.done = "none" /\ ~k.owed /\ ~k.event
  BY <1>1 DEF Call, NoCall
<1>7. calls \in [Callers -> Call] /\ calls[c] = k /\ \A d \in Callers \ {c} : calls[d] = call[d]
  BY <1>1, <1>5
<1> HIDE DEF w, k, calls
<1>8. \A d \in Callers : Promise(d, calls[d], w, run)
  <2>1. Promise(c, k, w, run)
    BY <1>1, <1>2, <1>4, <1>6 DEF Promise, Carries
  <2> QED BY <1>4, <1>7, <2>1 DEF IInv, Kept, Promise, Carries
<1>9. ASSUME ~closing, NEW a \in unexamined PROVE Coming(a, calls, w, run)
  <2>1. Coming(a, call, work, run)
    BY <1>9 DEF IInv, Kept
  <2> QED BY <1>4, <1>7, <2>1 DEF Coming, Callers
<1>10. Kept(calls, w, run)
  BY <1>1, <1>4, <1>7, <1>8, <1>9 DEF IInv, Kept
<1>11. Active \/ run.at \in {"none", "closed"}
  BY DEF Active
<1>12. Kept(call, work, run)' /\ (work.wanted => Active)'
  BY <1>3, <1>10, <1>11, LaunchKeeps DEF Active
<1>13. Typed'
  BY <1>3, <1>12, Retyped DEF IInv, Typed
<1> QED BY <1>3, <1>12, <1>13 DEF IInv

\* The start of a Reset, and its request, keep the invariant.
LEMMA ResetKeeps == ASSUME IInv, Reset PROVE IInv'
<1>1. /\ call \in [Callers -> Call] /\ work \in Work /\ run \in Runs
      /\ Resetter \in Callers /\ call[Resetter] \in Call /\ Resetter \notin Adders
  BY SchedulerAssumption DEF IInv, Kept, Callers
<1>2. Promise(Resetter, call[Resetter], work, run)
  BY <1>1 DEF IInv, Kept
<1>3. CASE ResetStarts
  <2> DEFINE k == [NoCall EXCEPT !.at = "requesting", !.sync = TRUE, !.owed = TRUE]
  <2>1. call' = [call EXCEPT ![Resetter] = k] /\ UNCHANGED <<mu, work, run, scheduler, closing, unexamined>>
    BY <1>3 DEF ResetStarts
  <2>2. k \in Call /\ k.at = "requesting" /\ k.done = "none" /\ ~k.event
    BY DEF NoCall, Call
  <2> HIDE DEF k
  <2>3. /\ call' \in [Callers -> Call] /\ call'[Resetter] = k
        /\ \A d \in Callers \ {Resetter} : call'[d] = call[d]
    BY <1>1, <2>1, <2>2
  <2>4. \A d \in Callers : Promise(d, call[d], work, run)'
    <3>1. Promise(Resetter, call[Resetter], work, run)'
      BY <2>2, <2>3 DEF Promise
    <3> QED BY <2>1, <2>3, <3>1 DEF IInv, Kept, Promise, Carries
  <2>5. Kept(call, work, run)'
    BY <1>1, <2>1, <2>3, <2>4 DEF IInv, Kept, Coming, Callers
  <2>6. Typed'
    BY <2>1, <2>5, Retyped DEF IInv, Typed
  <2> QED BY <2>1, <2>5, <2>6 DEF IInv, Active
<1>4. CASE ResetRequests
  <2> DEFINE w == [work EXCEPT !.wanted = TRUE, !.reset = TRUE]
             k == [call[Resetter] EXCEPT !.at = "waiting", !.done = "next"]
             calls == [call EXCEPT ![Resetter] = k]
  <2>1. call[Resetter].at = "requesting"
    BY <1>4 DEF ResetRequests
  <2>2. LaunchIfDue(w, calls, Active) /\ UNCHANGED <<mu, scheduler, closing, unexamined>>
    <3>1. [call EXCEPT ![Resetter].at = "waiting", ![Resetter].done = "next"] = calls
      BY <1>1
    <3> QED BY <1>4, <3>1 DEF ResetRequests
  <2>3. /\ w \in Work /\ w.wanted /\ w.reset /\ w.events = work.events /\ w.dirty = work.dirty
    BY <1>1 DEF Work
  <2>4. k \in Call /\ k.at = "waiting" /\ k.done = "next" /\ k.event = call[Resetter].event
    BY <1>1 DEF Call
  <2>5. /\ calls \in [Callers -> Call] /\ calls[Resetter] = k
        /\ \A d \in Callers \ {Resetter} : calls[d] = call[d]
    BY <1>1, <2>4
  <2> HIDE DEF w, k, calls
  <2>6. \A d \in Callers : Promise(d, calls[d], w, run)
    <3>1. Promise(Resetter, k, w, run)
      BY <1>2, <2>1, <2>3, <2>4 DEF Promise, Carries
    <3> QED BY <2>3, <2>5, <3>1 DEF IInv, Kept, Promise, Carries
  <2>7. ASSUME ~closing, NEW a \in unexamined PROVE Coming(a, calls, w, run)
    BY <2>3 DEF Coming
  <2>8. Kept(calls, w, run)
    BY <1>1, <2>3, <2>5, <2>6, <2>7 DEF IInv, Kept
  <2>9. Active \/ run.at \in {"none", "closed"}
    BY DEF Active
  <2>10. Kept(call, work, run)' /\ (work.wanted => Active)'
    BY <2>2, <2>8, <2>9, LaunchKeeps DEF Active
  <2>11. Typed'
    BY <2>2, <2>10, Retyped DEF IInv, Typed
  <2> QED BY <2>2, <2>10, <2>11 DEF IInv
<1> QED BY <1>3, <1>4 DEF Reset

\* A call that goes idle, refused by a closed pool or released by its channel,
\* keeps the invariant.
LEMMA ReturnKeeps ==
    ASSUME IInv, NEW c \in Callers, RequestRefused(c) \/ CallReturns(c)
    PROVE  IInv'
<1>1. /\ call \in [Callers -> Call] /\ call[c].at \in {"requesting", "waiting"}
      /\ call' = [call EXCEPT ![c] = NoCall]
      /\ call[c].at = "requesting" => closing
      /\ UNCHANGED <<mu, work, run, scheduler, closing, unexamined>>
  BY DEF IInv, Kept, RequestRefused, CallReturns
<1>2. NoCall \in Call /\ Promise(c, NoCall, work, run)
  BY DEF NoCall, Call, Promise
<1>3. /\ call' \in [Callers -> Call] /\ call'[c] = NoCall
      /\ \A d \in Callers \ {c} : call'[d] = call[d]
  BY <1>1, <1>2
<1>4. \A d \in Callers : Promise(d, call[d], work, run)'
  BY <1>1, <1>2, <1>3 DEF IInv, Kept, Promise, Carries
<1>5. ASSUME ~closing', NEW a \in unexamined' PROVE Coming(a, call, work, run)'
  <2>1. Coming(a, call, work, run)
    BY <1>1, <1>5 DEF IInv, Kept
  <2> QED BY <1>1, <1>3, <1>5, <2>1 DEF Coming, Callers
<1>6. Kept(call, work, run)'
  BY <1>1, <1>3, <1>4, <1>5 DEF IInv, Kept
<1>7. Typed'
  BY <1>1, <1>6, Retyped DEF IInv, Typed
<1> QED BY <1>1, <1>6, <1>7 DEF IInv, Active

\* A run that takes the lock, and one that queues the event of a reinjected
\* transaction, keep the invariant.
LEMMA RunAdvances ==
    ASSUME IInv, RunLocks \/ RunQueuesEvent
    PROVE  IInv'
<1>1. /\ call \in [Callers -> Call] /\ work \in Work /\ run \in Runs
  BY DEF IInv, Kept
<1>2. /\ run.at \in {"starting", "reinjecting"}
      /\ \E at \in {"locked", "reinjecting"} : run' = [run EXCEPT !.at = at]
      /\ mu' \in Adders \cup {Run, Nobody}
      /\ work' = work \/ work' = [work EXCEPT !.events = @ \cup {Run}]
      /\ UNCHANGED <<call, scheduler, closing, unexamined>>
  BY DEF RunLocks, RunQueuesEvent, EventTaken, IInv, Typed
<1>3. /\ run' \in Runs /\ run'.at \in {"locked", "reinjecting"}
      /\ run'.reset = run.reset /\ run'.dirty = run.dirty /\ run'.events = run.events
  BY <1>1, <1>2 DEF Runs
<1>4. /\ work' \in Work /\ work.events \subseteq work'.events
      /\ work'.wanted = work.wanted /\ work'.reset = work.reset /\ work'.dirty = work.dirty
  BY <1>1, <1>2 DEF Work
<1>5. \A d \in Callers : Promise(d, call[d], work, run)'
  BY <1>2, <1>3, <1>4 DEF IInv, Kept, Promise, Carries
<1>6. ASSUME ~closing', NEW a \in unexamined' PROVE Coming(a, call, work, run)'
  <2>1. Coming(a, call, work, run)
    BY <1>2, <1>6 DEF IInv, Kept
  <2> QED BY <1>2, <1>3, <1>4, <2>1 DEF Coming
<1>7. Kept(call, work, run)'
  BY <1>1, <1>2, <1>3, <1>4, <1>5, <1>6 DEF Kept
<1>8. Typed'
  BY <1>2, <1>7, Retyped DEF IInv, Typed
<1> QED BY <1>2, <1>3, <1>4, <1>7, <1>8 DEF IInv, Active

\* A run that has promoted keeps the invariant: the calls it carried are served.
LEMMA PromotesKeeps == ASSUME IInv, RunPromotes PROVE IInv'
<1>1. /\ call \in [Callers -> Call] /\ work \in Work /\ run \in Runs /\ unexamined \subseteq Accounts
  BY DEF IInv, Kept, Typed
<1>2. PICK stale \in SUBSET run.events :
        /\ run' = [NoRun EXCEPT !.at = "sending", !.events = run.events \ stale]
        /\ call' = [c \in Callers |->
                [call[c] EXCEPT !.owed = @ /\ ~Served(c), !.event = @ /\ c \notin stale]]
  BY DEF RunPromotes
<1>3. /\ run.at = "locked" /\ mu' = Nobody /\ unexamined' = unexamined \ Examined
      /\ UNCHANGED <<work, scheduler, closing>>
  BY DEF RunPromotes
<1>4. /\ run' \in Runs /\ run'.at = "sending" /\ run'.events = run.events \ stale
  BY <1>1, <1>2 DEF Runs, NoRun
<1>5. \A c \in Callers :
        /\ call'[c].at = call[c].at /\ call'[c].done = call[c].done
        /\ call'[c].dirty = call[c].dirty /\ call'[c].sync = call[c].sync
        /\ call'[c].owed = (call[c].owed /\ ~Served(c))
        /\ call'[c].event = (call[c].event /\ c \notin stale)
  <2> SUFFICES ASSUME NEW c \in Callers
               PROVE  /\ call'[c].at = call[c].at /\ call'[c].done = call[c].done
                      /\ call'[c].dirty = call[c].dirty /\ call'[c].sync = call[c].sync
                      /\ call'[c].owed = (call[c].owed /\ ~Served(c))
                      /\ call'[c].event = (call[c].event /\ c \notin stale)
    OBVIOUS
  <2>1. call[c] \in Call
    BY <1>1
  <2>2. call'[c] = [call[c] EXCEPT !.owed = @ /\ ~Served(c), !.event = @ /\ c \notin stale]
    BY <1>2
  <2> QED BY <2>1, <2>2 DEF Call
<1>6. call' \in [Callers -> Call]
  <2> SUFFICES ASSUME NEW c \in Callers
               PROVE  [call[c] EXCEPT !.owed = @ /\ ~Served(c), !.event = @ /\ c \notin stale] \in Call
    BY <1>2
  <2>1. call[c] \in Call
    BY <1>1
  <2> QED BY <2>1 DEF Call
<1>7. ASSUME NEW c \in Callers PROVE Promise(c, call[c], work, run)'
  <2>1. Promise(c, call[c], work, run) /\ call[c] \in Call
    BY <1>1 DEF IInv, Kept
  <2>2. Carries(run, call[c], c) => Served(c)
    BY <1>1, <2>1 DEF Carries, Served, Examined, Call
  <2> QED BY <1>3, <1>4, <1>5, <2>1, <2>2 DEF Promise, Carries
<1>8. ASSUME ~closing', NEW a \in unexamined' PROVE Coming(a, call, work, run)'
  <2>1. Coming(a, call, work, run) /\ a \in Accounts /\ a \notin Examined
    BY <1>1, <1>3, <1>8 DEF IInv, Kept
  <2>2. ~(run.reset \/ a \in run.dirty)
    BY <2>1 DEF Examined
  <2> QED BY <1>3, <1>5, <2>1, <2>2 DEF Coming, Callers
<1>9. Kept(call, work, run)'
  BY <1>1, <1>3, <1>4, <1>6, <1>7, <1>8 DEF Kept
<1>10. Typed'
  BY <1>1, <1>3, <1>9, Retyped DEF IInv, Typed
<1> QED BY <1>3, <1>4, <1>9, <1>10 DEF IInv, Active

\* The end of a run keeps the invariant: the channels it closes are of calls
\* whose work and events are over.
LEMMA EndsKeeps == ASSUME IInv, RunEnds PROVE IInv'
<1> DEFINE sent == [c \in Callers |-> [call[c] EXCEPT !.event = @ /\ c \notin run.events]]
<1>1. /\ call \in [Callers -> Call] /\ work \in Work /\ run \in Runs
  BY DEF IInv, Kept
<1>2. /\ run.at = "sending" /\ run' = [NoRun EXCEPT !.at = "closed"]
      /\ call' = ReleaseCurrent(sent)
      /\ UNCHANGED <<mu, work, scheduler, closing, unexamined>>
  BY DEF RunEnds
<1>3. run' \in Runs /\ run'.at = "closed" /\ run'.events = {}
  BY <1>2 DEF NoRun, Runs
<1>4. \A c \in Callers :
        /\ sent[c] \in Call
        /\ sent[c].at = call[c].at /\ sent[c].done = call[c].done
        /\ sent[c].dirty = call[c].dirty /\ sent[c].owed = call[c].owed
        /\ sent[c].event = (call[c].event /\ c \notin run.events)
  BY <1>1 DEF Call
<1> HIDE DEF sent
<1>5. \A c \in Callers :
        /\ call'[c] \in Call
        /\ call'[c].at = sent[c].at /\ call'[c].dirty = sent[c].dirty
        /\ call'[c].owed = sent[c].owed /\ call'[c].event = sent[c].event
        /\ call'[c].done = (IF sent[c].done = "current" THEN "closed" ELSE sent[c].done)
  BY <1>2, <1>4 DEF ReleaseCurrent, Call
<1>6. call' \in [Callers -> Call]
  BY <1>2, <1>5 DEF ReleaseCurrent
<1>7. ASSUME NEW c \in Callers PROVE Promise(c, call[c], work, run)'
  <2>1. Promise(c, call[c], work, run)
    BY DEF IInv, Kept
  <2>2. /\ call'[c].at = call[c].at /\ call'[c].dirty = call[c].dirty
        /\ call'[c].owed <=> call[c].owed
        /\ call'[c].event <=> (call[c].event /\ c \notin run.events)
    BY <1>4, <1>5
  <2>3. CASE call[c].done = "current"
    <3>1. call'[c].done = "closed" /\ ~call[c].owed /\ (~closing => ~call'[c].event)
      BY <1>2, <1>4, <1>5, <2>1, <2>2, <2>3 DEF Promise
    <3> QED BY <1>2, <2>1, <2>2, <2>3, <3>1 DEF Promise
  <2>4. CASE call[c].done # "current"
    <3>1. call'[c].done = call[c].done
      BY <1>4, <1>5, <2>4
    <3> QED BY <1>2, <1>3, <2>1, <2>2, <2>4, <3>1 DEF Promise, Carries
  <2> QED BY <2>3, <2>4
<1>8. ASSUME ~closing', NEW a \in unexamined' PROVE Coming(a, call, work, run)'
  <2>1. Coming(a, call, work, run)
    BY <1>2, <1>8 DEF IInv, Kept
  <2> QED BY <1>2, <1>4, <1>5, <2>1 DEF Coming, Callers
<1>9. Kept(call, work, run)'
  BY <1>1, <1>2, <1>3, <1>6, <1>7, <1>8 DEF Kept
<1>10. Typed'
  BY <1>2, <1>9, Retyped DEF IInv, Typed
<1> QED BY <1>2, <1>3, <1>9, <1>10 DEF IInv, Active

\* The scheduler that learns of the end of a run keeps the invariant.
LEMMA NoticedKeeps == ASSUME IInv, RunNoticed PROVE IInv'
<1>1. /\ run.at = "closed" /\ LaunchIfDue(work, call, FALSE)
      /\ UNCHANGED <<mu, scheduler, closing, unexamined>>
  BY DEF RunNoticed
<1>2. Kept(call, work, run)' /\ (work.wanted => Active)'
  BY <1>1, LaunchKeeps DEF IInv
<1>3. Typed'
  BY <1>1, <1>2, Retyped DEF IInv, Typed
<1> QED BY <1>1, <1>2, <1>3 DEF IInv

\* An eviction keeps the invariant.
LEMMA EvictKeeps == ASSUME IInv, NEW idle \in SUBSET Accounts, Evict(idle) PROVE IInv'
<1>1. /\ call \in [Callers -> Call] /\ work \in Work /\ run \in Runs /\ unexamined \subseteq Accounts
  BY DEF IInv, Kept, Typed
<1>2. /\ unexamined' = unexamined \ idle
      /\ call' = [c \in Callers |-> IF c # Resetter /\ call[c].dirty \subseteq idle
                                    THEN [call[c] EXCEPT !.owed = FALSE] ELSE call[c]]
      /\ UNCHANGED <<mu, work, run, scheduler, closing>>
  BY DEF Evict
<1>3. \A c \in Callers :
        /\ call'[c] \in Call
        /\ call'[c].at = call[c].at /\ call'[c].dirty = call[c].dirty
        /\ call'[c].done = call[c].done /\ call'[c].event = call[c].event
        /\ call'[c].owed => call[c].owed
  BY <1>1, <1>2 DEF Call
<1>4. call' \in [Callers -> Call]
  BY <1>2, <1>3
<1>5. ASSUME NEW c \in Callers PROVE Promise(c, call[c], work, run)'
  <2>1. Promise(c, call[c], work, run)
    BY DEF IInv, Kept
  <2> QED BY <1>2, <1>3, <2>1 DEF Promise, Carries
<1>6. ASSUME ~closing', NEW a \in unexamined' PROVE Coming(a, call, work, run)'
  <2>1. Coming(a, call, work, run)
    BY <1>2, <1>6 DEF IInv, Kept
  <2> QED BY <1>2, <1>3, <2>1 DEF Coming, Callers
<1>7. Kept(call, work, run)'
  BY <1>1, <1>2, <1>4, <1>5, <1>6 DEF IInv, Kept
<1>8. Typed'
  BY <1>1, <1>2, <1>7, Retyped DEF IInv, Typed
<1> QED BY <1>2, <1>7, <1>8 DEF IInv, Active

\* Closing the pool keeps the invariant: the scheduler exits with no run going,
\* and the calls it releases then were promised nothing.
LEMMA CloseKeeps == ASSUME IInv, Close \/ Shutdown \/ SchedulerExits PROVE IInv'
<1>1. /\ call \in [Callers -> Call] /\ work \in Work /\ run \in Runs
  BY DEF IInv, Kept
<1>2. CASE Close
  <2>1. closing' /\ UNCHANGED <<mu, call, work, run, scheduler, unexamined>>
    BY <1>2 DEF Close
  <2>2. Kept(call, work, run)'
    BY <2>1 DEF IInv, Kept, Promise, Carries
  <2> QED BY <2>1, <2>2 DEF IInv, Typed, Active
<1>3. CASE Shutdown
  <2>1. /\ closing /\ scheduler = "select" /\ scheduler' = "draining"
        /\ UNCHANGED <<mu, call, work, run, closing, unexamined>>
    BY <1>3 DEF Shutdown
  <2>2. Kept(call, work, run)'
    BY <2>1 DEF IInv, Kept, Promise, Carries
  <2> QED BY <2>1, <2>2 DEF IInv, Typed, Active
<1>4. CASE SchedulerExits
  <2>1. /\ run.at \in {"none", "closed"} /\ scheduler = "draining" /\ scheduler' = "exited"
        /\ call' = ReleaseNext(call) /\ closing
        /\ UNCHANGED <<mu, work, run, closing, unexamined>>
    BY <1>4 DEF SchedulerExits, IInv
  <2>2. \A c \in Callers :
          /\ call'[c] \in Call
          /\ call'[c].at = call[c].at /\ call'[c].dirty = call[c].dirty
          /\ call'[c].owed = call[c].owed /\ call'[c].event = call[c].event
          /\ call'[c].done = (IF call[c].done = "next" THEN "closed" ELSE call[c].done)
    BY <1>1, <2>1 DEF ReleaseNext, Call
  <2>3. call' \in [Callers -> Call]
    BY <2>1, <2>2 DEF ReleaseNext
  <2>4. ASSUME NEW c \in Callers PROVE Promise(c, call[c], work, run)'
    <3>1. Promise(c, call[c], work, run)
      BY DEF IInv, Kept
    <3> QED BY <2>1, <2>2, <3>1 DEF Promise, Carries
  <2>5. Kept(call, work, run)'
    BY <1>1, <2>1, <2>3, <2>4 DEF IInv, Kept
  <2> QED BY <2>1, <2>3, <2>5 DEF IInv, Typed, Active
<1> QED BY <1>2, <1>3, <1>4

\* Every step keeps the invariant.
LEMMA NextInv == IInv /\ [Next]_vars => IInv'
<1> SUFFICES ASSUME IInv, [Next]_vars PROVE IInv'
  OBVIOUS
<1>1. ASSUME NEW c \in Adders, Add(c) PROVE IInv'
  BY <1>1, AddKeeps, RequestKeeps DEF Add
<1>2. ASSUME NEW c \in Callers, RequestRefused(c) \/ CallReturns(c) PROVE IInv'
  BY <1>2, ReturnKeeps
<1>3. CASE Reset
  BY <1>3, ResetKeeps
<1>4. CASE RunReorg
  BY <1>4, RunAdvances, PromotesKeeps, EndsKeeps DEF RunReorg
<1>5. CASE ScheduleReorgLoop
  BY <1>5, NoticedKeeps, CloseKeeps DEF ScheduleReorgLoop
<1>6. ASSUME NEW idle \in SUBSET Accounts, Evict(idle) PROVE IInv'
  BY <1>6, EvictKeeps
<1>7. CASE Close
  BY <1>7, CloseKeeps
<1>8. CASE UNCHANGED vars
  BY <1>8 DEF IInv, Typed, Kept, Promise, Carries, Coming, Active, vars
<1> QED BY <1>1, <1>2, <1>3, <1>4, <1>5, <1>6, <1>7, <1>8 DEF Next

\* The invariant holds in every behaviour of the scheduler.
THEOREM Invariant == Spec => []IInv
BY InitInv, NextInv, PTL DEF Spec

\* Whoever works on the pool holds its lock after every step, if so before.
LEMMA NextLocks == IInv /\ LockHeld /\ [Next]_vars => LockHeld'
<1> SUFFICES ASSUME IInv, LockHeld, [Next]_vars PROVE LockHeld'
  OBVIOUS
<1>0. /\ call \in [Callers -> Call] /\ run \in Runs
      /\ Resetter \notin Adders /\ Run \notin Adders /\ Nobody \notin Adders /\ Run # Nobody
      /\ Adders \subseteq Callers
  BY SchedulerAssumption DEF IInv, Typed, Callers
<1>1. ASSUME \A c \in Adders : call'[c].at = "eventing" <=> call[c].at = "eventing",
             run'.at \in {"reinjecting", "locked"} <=> run.at \in {"reinjecting", "locked"},
             UNCHANGED mu
      PROVE  LockHeld'
  BY <1>1 DEF LockHeld
<1>2. ASSUME NEW w, NEW calls, NEW active \in BOOLEAN,
             IF active THEN Active ELSE run.at \in {"none", "closed"},
             calls \in [Callers -> Call], LaunchIfDue(w, calls, active), UNCHANGED mu,
             \A c \in Adders : calls[c].at = "eventing" <=> call[c].at = "eventing"
      PROVE  LockHeld'
  <2>1. \A c \in Adders : call'[c].at = calls[c].at
    BY <1>0, <1>2 DEF LaunchIfDue, Promised, Call
  <2>2. run'.at \in {"reinjecting", "locked"} <=> run.at \in {"reinjecting", "locked"}
    BY <1>0, <1>2 DEF LaunchIfDue, Active, NoRun
  <2> QED BY <1>1, <1>2, <2>1, <2>2
<1>3. ASSUME NEW c \in Adders, Add(c) PROVE LockHeld'
  <2>1. CASE AddStarts(c)
    BY <1>0, <1>1, <2>1 DEF AddStarts, Call
  <2>2. CASE AddEnters(c)
    BY <1>0, <2>2 DEF AddEnters, AddLocked, LockHeld, Call
  <2>3. CASE AddQueuesEvent(c)
    BY <1>0, <2>3 DEF AddQueuesEvent, LockHeld, Call
  <2>4. CASE AddRequests(c)
    <3> DEFINE calls == [call EXCEPT ![c] =
                            IF call[c].sync THEN [@ EXCEPT !.at = "waiting", !.done = "next"]
                                            ELSE NoCall]
    <3>1. /\ calls \in [Callers -> Call]
          /\ \A d \in Adders : calls[d].at = "eventing" <=> call[d].at = "eventing"
      BY <1>0, <2>4 DEF AddRequests, Call, NoCall
    <3>2. LaunchIfDue(Merge(work, call[c].dirty), calls, Active) /\ UNCHANGED mu
      BY <2>4 DEF AddRequests
    <3>3. IF Active THEN Active ELSE run.at \in {"none", "closed"}
      BY DEF Active
    <3> HIDE DEF calls
    <3> QED BY <1>2, <3>1, <3>2, <3>3 DEF Active
  <2> QED BY <1>3, <2>1, <2>2, <2>3, <2>4 DEF Add
<1>4. CASE Reset
  <2>1. CASE ResetStarts
    BY <1>0, <1>1, <2>1 DEF ResetStarts
  <2>2. CASE ResetRequests
    <3> DEFINE calls == [call EXCEPT ![Resetter].at = "waiting", ![Resetter].done = "next"]
    <3>1. /\ calls \in [Callers -> Call]
          /\ \A d \in Adders : calls[d].at = "eventing" <=> call[d].at = "eventing"
      <4>1. /\ Resetter \in Callers
            /\ calls = [c \in Callers |-> IF c = Resetter
                                          THEN [call[c] EXCEPT !.at = "waiting", !.done = "next"]
                                          ELSE call[c]]
        BY <1>0 DEF Callers
      <4> HIDE DEF calls
      <4> QED BY <1>0, <4>1 DEF Call
    <3>2. LaunchIfDue([work EXCEPT !.wanted = TRUE, !.reset = TRUE], calls, Active) /\ UNCHANGED mu
      BY <2>2 DEF ResetRequests
    <3>3. IF Active THEN Active ELSE run.at \in {"none", "closed"}
      BY DEF Active
    <3> HIDE DEF calls
    <3> QED BY <1>2, <3>1, <3>2, <3>3 DEF Active
  <2> QED BY <1>4, <2>1, <2>2 DEF Reset
<1>5. CASE RunReorg
  <2>1. CASE RunLocks
    BY <1>0, <2>1 DEF RunLocks, LockHeld, Runs
  <2>2. CASE RunQueuesEvent
    BY <1>0, <1>1, <2>2 DEF RunQueuesEvent, Runs
  <2>3. CASE RunPromotes
    <3>1. mu' = Nobody /\ run'.at = "sending"
      BY <2>3 DEF RunPromotes, NoRun
    <3>3. \A c \in Adders : call'[c].at = call[c].at
      <4>1. PICK stale \in SUBSET run.events :
              call' = [c \in Callers |->
                        [call[c] EXCEPT !.owed = @ /\ ~Served(c), !.event = @ /\ c \notin stale]]
        BY <2>3 DEF RunPromotes
      <4> QED BY <1>0, <4>1 DEF Call
    <3>2. mu = Run
      BY <2>3 DEF RunPromotes, LockHeld
    <3> QED BY <1>0, <3>1, <3>2, <3>3 DEF LockHeld
  <2>4. CASE RunEnds
    <3>1. run'.at = "closed" /\ UNCHANGED mu /\ \A c \in Adders : call'[c].at = call[c].at
      BY <1>0, <2>4 DEF RunEnds, ReleaseCurrent, Call, NoRun
    <3> QED BY <1>1, <2>4, <3>1 DEF RunEnds
  <2> QED BY <1>5, <2>1, <2>2, <2>3, <2>4 DEF RunReorg
<1>6. CASE ScheduleReorgLoop
  <2>1. CASE RunNoticed
    BY <1>0, <1>2, <2>1 DEF RunNoticed
  <2>2. CASE Shutdown
    BY <1>1, <2>2 DEF Shutdown
  <2>3. CASE SchedulerExits
    <3>1. \A c \in Adders : call'[c].at = call[c].at
      BY <1>0, <2>3 DEF SchedulerExits, ReleaseNext, Call
    <3> QED BY <1>1, <2>3, <3>1 DEF SchedulerExits
  <2> QED BY <1>6, <2>1, <2>2, <2>3 DEF ScheduleReorgLoop
<1>7. ASSUME NEW c \in Callers, RequestRefused(c) \/ CallReturns(c) PROVE LockHeld'
  BY <1>0, <1>1, <1>7 DEF RequestRefused, CallReturns, NoCall
<1>8. ASSUME NEW idle \in SUBSET Accounts, Evict(idle) PROVE LockHeld'
  <2>1. \A c \in Adders : call'[c].at = call[c].at
    BY <1>0, <1>8 DEF Evict, Call
  <2> QED BY <1>1, <1>8, <2>1 DEF Evict
<1>9. CASE Close \/ UNCHANGED vars
  BY <1>1, <1>9 DEF Close, vars
<1> QED BY <1>3, <1>4, <1>5, <1>6, <1>7, <1>8, <1>9 DEF Next

\* The scheduler's variables keep their types, and pool.mu is always with whoever
\* works on the pool, for any goroutines and accounts.
THEOREM TypeCorrect == Spec => []TypeOK
<1>1. Init => LockHeld
  BY SchedulerAssumption DEF Init, LockHeld, NoCall, NoRun, Callers
<1>2. IInv /\ LockHeld => TypeOK
  BY DEF IInv, TypeOK
<1> QED BY <1>1, <1>2, InitInv, NextInv, NextLocks, PTL DEF Spec

\* A call of Add or Reset that waited for its done channel returns only when all
\* it caused is over.
THEOREM DoneCallsAreDone == Spec => []DoneMeansDone
<1>1. IInv => DoneMeansDone
  BY DEF IInv, Kept, Promise, DoneMeansDone
<1> QED BY <1>1, Invariant, PTL

\* Until the pool is closed, the queue of every account that a transaction
\* entered is examined by the current run, the next one, or one about to be
\* requested.
THEOREM QueuedAccountsAreScheduled == Spec => []QueuedIsScheduled
<1>1. IInv => QueuedIsScheduled
  <2> SUFFICES ASSUME IInv, ~closing, NEW a \in unexamined
               PROVE  \/ run.at \in {"starting", "reinjecting", "locked"} /\ a \in Examined
                      \/ work.wanted /\ Active /\ (work.reset \/ a \in work.dirty)
                      \/ \E c \in Adders : call[c].at \in {"eventing", "requesting"}
                                           /\ a \in call[c].dirty
    BY DEF QueuedIsScheduled
  <2>1. Coming(a, call, work, run) /\ a \in Accounts
    BY DEF IInv, Kept, Typed
  <2> QED BY <2>1 DEF IInv, Coming, Examined
<1> QED BY <1>1, Invariant, PTL
=============================================================================
