--------------------------- MODULE ReorgScheduler ---------------------------
(***************************************************************************)
(* How the legacy pool schedules its background work: scheduleReorgLoop,   *)
(* runReorg, and the goroutines that call Add, Reset and Close             *)
(* (pkg/precog/core/network/txpool/legacypool/legacypool.go).              *)
(*                                                                         *)
(* A call puts transactions in the queue under pool.mu, hands its dirty    *)
(* account to the scheduler, and is given the done channel of the next     *)
(* run.  One run at a time promotes what all the calls before it left.     *)
(*                                                                         *)
(* The content of the pool is abstracted to the accounts whose queue no    *)
(* run has looked at since a transaction entered it.  A done channel is    *)
(* named by its relation to the scheduler: that of the next run, that of   *)
(* the current one, or closed.                                             *)
(***************************************************************************)
EXTENDS FiniteSets

CONSTANTS
    Adders,     \* goroutines that call Add
    Resetter,   \* the goroutine of TxPool.loop that calls Reset
    Accounts,   \* senders of transactions
    Run,        \* the goroutine of runReorg
    Nobody      \* holder of a free lock

ASSUME SchedulerAssumption ==
    /\ Resetter \notin Adders /\ Run \notin Adders /\ Nobody \notin Adders
    /\ Resetter # Run /\ Resetter # Nobody /\ Run # Nobody

VARIABLES
    mu,          \* holder of pool.mu
    call,        \* caller -> the call it is in
    work,        \* what the scheduler keeps for the next run
    run,         \* the current run
    scheduler,   \* where scheduleReorgLoop is
    closing,     \* Close was called, reorgShutdownCh is closed
    unexamined   \* accounts queued since a run last examined their queue

vars == <<mu, call, work, run, scheduler, closing, unexamined>>

Callers == Adders \cup {Resetter}

\* A call: its place in the code, the account it added to, whether it waits for
\* the run (sync), its done channel, and what it then waits to see done: its
\* account examined or the head reset (owed), and its event sent (event).
Call == [at    : {"idle", "locking", "eventing", "requesting", "waiting"},
         dirty : SUBSET Accounts,
         sync  : BOOLEAN,
         done  : {"none", "next", "current", "closed"},
         owed  : BOOLEAN,
         event : BOOLEAN]

NoCall == [at |-> "idle", dirty |-> {}, sync |-> FALSE, done |-> "none",
           owed |-> FALSE, event |-> FALSE]

\* launchNextRun, reset, dirtyAccounts and queuedEvents of the scheduler.
Work   == [wanted : BOOLEAN, reset : BOOLEAN, dirty : SUBSET Accounts,
           events : SUBSET (Adders \cup {Run})]
NoWork == [wanted |-> FALSE, reset |-> FALSE, dirty |-> {}, events |-> {}]

\* The run, from the go statement to the scheduler's receipt of curDone.
Runs == [at : {"none", "starting", "reinjecting", "locked", "sending", "closed"},
         reset : BOOLEAN, dirty : SUBSET Accounts, events : SUBSET (Adders \cup {Run})]
NoRun == [at |-> "none", reset |-> FALSE, dirty |-> {}, events |-> {}]

\* Slips a change to the code could make, each in the place of the definition it
\* is named after, to see that the properties notice.
RunLocks_AfterReset ==
    /\ run.at = "starting" /\ mu = Nobody
    /\ \/ run' = [run EXCEPT !.at = "locked"] /\ mu' = Run
       \/ run.reset /\ run' = [run EXCEPT !.at = "reinjecting"] /\ UNCHANGED mu
    /\ UNCHANGED <<call, work, scheduler, closing, unexamined>>
ReleaseCurrent_All(calls) ==
    [c \in Callers |-> IF calls[c].done # "none" THEN [calls[c] EXCEPT !.done = "closed"]
                                                 ELSE calls[c]]
ReleaseNext_Forgotten(calls) == calls
EventTaken_NoShutdown(owner) ==
    scheduler = "select" /\ work' = [work EXCEPT !.events = @ \cup {owner}]
RunNoticed_NoLaunch ==
    /\ run.at = "closed" /\ scheduler = "select"
    /\ run' = NoRun
    /\ UNCHANGED <<mu, call, work, scheduler, closing, unexamined>>

\* A promotion request joins what is scheduled (dirtyAccounts.merge).
Merge(w, dirty) == [w EXCEPT !.wanted = TRUE, !.dirty = @ \cup dirty]

\* The done channel of the calls: when a run is launched that of the next run
\* becomes that of the current one; close(done) ends the current ones, and
\* close(nextDone), when the scheduler exits, those of the run that never comes.
Promised(calls) ==
    [c \in Callers |-> IF calls[c].done = "next" THEN [calls[c] EXCEPT !.done = "current"]
                                                 ELSE calls[c]]
ReleaseCurrent(calls) ==
    [c \in Callers |-> IF calls[c].done = "current" THEN [calls[c] EXCEPT !.done = "closed"]
                                                    ELSE calls[c]]
ReleaseNext(calls) ==
    [c \in Callers |-> IF calls[c].done = "next" THEN [calls[c] EXCEPT !.done = "closed"]
                                                 ELSE calls[c]]

\* The head of the scheduler's loop, reached after every case of its select: the
\* next run is launched when it is wanted and none is active (curDone == nil).
LaunchIfDue(w, calls, active) ==
    IF w.wanted /\ ~active
    THEN /\ run' = [at |-> "starting", reset |-> w.reset, dirty |-> w.dirty, events |-> w.events]
         /\ work' = NoWork
         /\ call' = Promised(calls)
    ELSE /\ run' = IF active THEN run ELSE NoRun
         /\ work' = w
         /\ call' = calls

Active == run.at # "none"

Init ==
    /\ mu = Nobody
    /\ call = [c \in Callers |-> NoCall]
    /\ work = NoWork
    /\ run = NoRun
    /\ scheduler = "select"
    /\ closing = FALSE
    /\ unexamined = {}

-----------------------------------------------------------------------------
(* Add, and Reset.  Bound: the transactions of one Add are of one account. *)

AddStarts(c) ==
    /\ call[c].at = "idle"
    /\ call' = [call EXCEPT ![c].at = "locking"]
    /\ UNCHANGED <<mu, work, run, scheduler, closing, unexamined>>

(* Add under pool.mu: transactions of account a are queued, or all of them are
   rejected or replace others (dirty stays empty).  One that replaces a pending
   transaction has its event queued before the lock is given back. *)
AddLocked(c, dirty, replaces, sync) ==
    /\ call[c].at = "locking" /\ mu = Nobody
    /\ call' = [call EXCEPT ![c] =
            [at |-> IF replaces THEN "eventing" ELSE "requesting",
             dirty |-> dirty, sync |-> sync, done |-> "none",
             owed |-> sync /\ dirty # {}, event |-> sync /\ replaces]]
    /\ mu' = IF replaces THEN c ELSE Nobody
    /\ unexamined' = unexamined \cup dirty
    /\ UNCHANGED <<work, run, scheduler, closing>>

(* queueTxEvent: the scheduler takes the event, or the pool is shut down. *)
EventTaken(owner) ==
    \/ scheduler = "select" /\ work' = [work EXCEPT !.events = @ \cup {owner}]
    \/ closing /\ UNCHANGED work

AddQueuesEvent(c) ==
    /\ call[c].at = "eventing"
    /\ EventTaken(c)
    /\ mu' = Nobody
    /\ call' = [call EXCEPT ![c].at = "requesting"]
    /\ UNCHANGED <<run, scheduler, closing, unexamined>>

(* requestPromoteExecutables: the scheduler takes the request and answers with
   nextDone, in one rendezvous since nobody else receives from reorgDoneCh. *)
AddRequests(c) ==
    /\ c # Resetter /\ call[c].at = "requesting" /\ scheduler = "select"
    /\ LaunchIfDue(Merge(work, call[c].dirty),
                   [call EXCEPT ![c] = IF call[c].sync THEN [@ EXCEPT !.at = "waiting", !.done = "next"]
                                                       ELSE NoCall],
                   Active)
    /\ UNCHANGED <<mu, scheduler, closing, unexamined>>

(* TxPool.loop runs one Reset at a time, so no reset request is ever pending when
   another comes, and the merge of two heads does not happen. *)
ResetStarts ==
    /\ call[Resetter].at = "idle"
    /\ call' = [call EXCEPT ![Resetter] =
                    [NoCall EXCEPT !.at = "requesting", !.sync = TRUE, !.owed = TRUE]]
    /\ UNCHANGED <<mu, work, run, scheduler, closing, unexamined>>

ResetRequests ==
    /\ call[Resetter].at = "requesting" /\ scheduler = "select"
    /\ LaunchIfDue([work EXCEPT !.wanted = TRUE, !.reset = TRUE],
                   [call EXCEPT ![Resetter].at = "waiting", ![Resetter].done = "next"],
                   Active)
    /\ UNCHANGED <<mu, scheduler, closing, unexamined>>

(* Both requests return reorgShutdownCh, which is closed, once the pool is. *)
RequestRefused(c) ==
    /\ call[c].at = "requesting" /\ closing
    /\ call' = [call EXCEPT ![c] = NoCall]
    /\ UNCHANGED <<mu, work, run, scheduler, closing, unexamined>>

CallReturns(c) ==
    /\ call[c].at = "waiting" /\ call[c].done = "closed"
    /\ call' = [call EXCEPT ![c] = NoCall]
    /\ UNCHANGED <<mu, work, run, scheduler, closing, unexamined>>

-----------------------------------------------------------------------------
(* runReorg.  Reinjecting the transactions of abandoned blocks may replace a
   pending one, whose event goes to the scheduler while the run holds the lock. *)
RunLocks ==
    /\ run.at = "starting" /\ mu = Nobody
    /\ mu' = Run
    /\ \/ run' = [run EXCEPT !.at = "locked"]
       \/ run.reset /\ run' = [run EXCEPT !.at = "reinjecting"]
    /\ UNCHANGED <<call, work, scheduler, closing, unexamined>>

RunQueuesEvent ==
    /\ run.at = "reinjecting"
    /\ EventTaken(Run)
    /\ run' = [run EXCEPT !.at = "locked"]
    /\ UNCHANGED <<mu, call, scheduler, closing, unexamined>>

\* A reset looks at every queue, another run at the dirty ones.
Examined == IF run.reset THEN Accounts ELSE run.dirty

\* The calls that were waiting for what the run does under the lock: an Add whose
\* account is examined, and the Reset it carries out.
Served(c) ==
    IF c = Resetter THEN run.reset ELSE call[c].dirty \subseteq Examined

(* promoteExecutables, demoteUnexecutables and the truncations.  A reset also
   discards the events that it made stale. *)
RunPromotes ==
    /\ run.at = "locked"
    /\ \E stale \in SUBSET run.events :
        /\ run.reset \/ stale = {}
        /\ run' = [NoRun EXCEPT !.at = "sending", !.events = run.events \ stale]
        /\ call' = [c \in Callers |->
                [call[c] EXCEPT !.owed = @ /\ ~Served(c), !.event = @ /\ c \notin stale]]
    /\ unexamined' = unexamined \ Examined
    /\ mu' = Nobody
    /\ UNCHANGED <<work, scheduler, closing>>

(* txFeed.Send, then the deferred close(done). *)
RunEnds ==
    /\ run.at = "sending"
    /\ run' = [NoRun EXCEPT !.at = "closed"]
    /\ call' = ReleaseCurrent([c \in Callers |->
                    [call[c] EXCEPT !.event = @ /\ c \notin run.events]])
    /\ UNCHANGED <<mu, work, scheduler, closing, unexamined>>

(* case <-curDone *)
RunNoticed ==
    /\ run.at = "closed" /\ scheduler = "select"
    /\ LaunchIfDue(work, call, FALSE)
    /\ UNCHANGED <<mu, scheduler, closing, unexamined>>

-----------------------------------------------------------------------------
(* The eviction tick of pool.loop: idle accounts lose their queue. *)
Evict(idle) ==
    /\ mu = Nobody
    /\ unexamined' = unexamined \ idle
    /\ call' = [c \in Callers |-> IF c # Resetter /\ call[c].dirty \subseteq idle
                                  THEN [call[c] EXCEPT !.owed = FALSE] ELSE call[c]]
    /\ UNCHANGED <<mu, work, run, scheduler, closing>>

Close ==
    /\ ~closing
    /\ closing' = TRUE
    /\ UNCHANGED <<mu, call, work, run, scheduler, unexamined>>

(* case <-pool.reorgShutdownCh: wait for the current run, then leave. *)
Shutdown ==
    /\ scheduler = "select" /\ closing
    /\ scheduler' = "draining"
    /\ UNCHANGED <<mu, call, work, run, closing, unexamined>>

SchedulerExits ==
    /\ scheduler = "draining" /\ run.at \in {"none", "closed"}
    /\ scheduler' = "exited"
    /\ call' = ReleaseNext(call)
    /\ UNCHANGED <<mu, work, run, closing, unexamined>>

-----------------------------------------------------------------------------
AddEnters(c) ==
    \E dirty \in {{}} \cup {{a} : a \in Accounts}, replaces, sync \in BOOLEAN :
        AddLocked(c, dirty, replaces, sync)

Add(c) ==
    \/ AddStarts(c)
    \/ AddEnters(c)
    \/ AddQueuesEvent(c)
    \/ AddRequests(c)

Reset == ResetStarts \/ ResetRequests

RunReorg == RunLocks \/ RunQueuesEvent \/ RunPromotes \/ RunEnds

ScheduleReorgLoop == RunNoticed \/ Shutdown \/ SchedulerExits

Next ==
    \/ \E c \in Adders : Add(c)
    \/ \E c \in Callers : RequestRefused(c) \/ CallReturns(c)
    \/ Reset \/ RunReorg \/ ScheduleReorgLoop
    \/ \E idle \in SUBSET Accounts : Evict(idle)
    \/ Close

Spec == Init /\ [][Next]_vars

\* Goroutines that can go on do.  pool.mu is a sync.RWMutex, which hands itself
\* to the longest waiter, and a select that finds several cases ready picks one
\* at random, so a caller that is ready again and again is served.
Fairness ==
    /\ \A c \in Adders :
        /\ SF_vars(AddEnters(c))
        /\ WF_vars(AddQueuesEvent(c)) /\ WF_vars(AddRequests(c))
    /\ WF_vars(ResetRequests)
    /\ \A c \in Callers : WF_vars(RequestRefused(c)) /\ WF_vars(CallReturns(c))
    /\ SF_vars(RunLocks)
    /\ WF_vars(RunQueuesEvent) /\ WF_vars(RunPromotes) /\ WF_vars(RunEnds)
    /\ WF_vars(RunNoticed) /\ WF_vars(Shutdown) /\ WF_vars(SchedulerExits)

FairSpec == Spec /\ Fairness

-----------------------------------------------------------------------------
\* Every variable has its type.
Typed ==
    /\ mu \in Adders \cup {Run, Nobody}
    /\ call \in [Callers -> Call]
    /\ work \in Work
    /\ run \in Runs
    /\ scheduler \in {"select", "draining", "exited"}
    /\ closing \in BOOLEAN
    /\ unexamined \subseteq Accounts

\* pool.mu is held by whoever works on the pool: an Add that queues the event of a
\* replacement, or the run from its reset to the end of the promotions.  So no two
\* of them are ever at work at once, and every lock taken is given back.
LockHeld ==
    /\ \A c \in Adders : mu = c <=> call[c].at = "eventing"
    /\ mu = Run <=> run.at \in {"reinjecting", "locked"}

\* The variables have their types, and the lock is with whoever works on the pool.
TypeOK == Typed /\ LockHeld

\* A call that waits for its done channel returns only when all it caused is
\* over: the queue of its account was examined after its transactions entered
\* it, its event was sent, or the reset it asked for was carried out.  Only the
\* exit of the scheduler, and for events the shutdown, breaks the promise.
DoneMeansDone ==
    \A c \in Callers :
        call[c].done = "closed" =>
            /\ scheduler # "exited" => ~call[c].owed
            /\ ~closing => ~call[c].event

\* No queued transaction is forgotten: an account whose queue was not examined
\* is in the current run, in the next one, which is then wanted and follows an
\* active one, or in the hands of a call that has yet to request its promotion.
QueuedIsScheduled ==
    ~closing =>
    \A a \in unexamined :
        \/ run.at \in {"starting", "reinjecting", "locked"} /\ a \in Examined
        \/ work.wanted /\ Active /\ (work.reset \/ a \in work.dirty)
        \/ \E c \in Adders : call[c].at \in {"eventing", "requesting"} /\ a \in call[c].dirty

\* Every call of Add and Reset returns, whatever the lock, the scheduler, the
\* run and a shutdown do in between.
CallsReturn == \A c \in Callers : call[c].at # "idle" ~> call[c].at = "idle"

\* Close does not wait for ever for the scheduler.
CloseEnds == closing ~> scheduler = "exited"
=============================================================================
