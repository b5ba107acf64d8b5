# A verification of Prudence

TLA+ models of the concurrent core of Prudence (`pkg/precog`) and of its virtual
machine (`pkg/vms/sve_vm`), the TLC configurations that check them on small
instances, and proofs of their main properties that TLAPS checks for instances of
any size. Paths below are relative
to the repository's root (`src/` in `PROJECT.json`).

Prudence joins the Ethereum p2p network, hears of transactions, fetches them,
keeps them in a pool that follows the chain of a Geth node, and runs contract
calls on a copied EVM against that node's state. Most of its code descends from
go-ethereum; what is its own is how the pieces are wired (`backend.go`,
`network.go`, `peerset.go`), what was left out of the originals, and the EVM's
variants of the run loop.

## 1. Inventory

| Component | State it keeps | Operations | Talks to | What is hard |
|---|---|---|---|---|
| Transaction fetcher (`core/network/fetcher/tx_fetcher.go`) | ten maps over peers and hashes, two timers, one loop goroutine | `Notify`, `Enqueue`, `Drop`, the two triggers, one goroutine per request | peers (`fetchTxs`, `dropPeer`), pool (`hasTx`, `addTxs`) | stages that overlap, stale requests, lost timers, indexes that disagree |
| Peer sessions (`network.go`, `peerset.go`, `protocols/eth/handler.go`) | the peer set | `runPeer`, `Handle`, `registerPeer`, `removePeer`, `fetchTx` | fetcher, p2p server | sessions end and return; nobody cleans up |
| eth peer and dispatcher (`protocols/eth/peer.go`, `dispatcher.go`) | the handshake's two goroutines and timer, pending requests, the reading loop, caches of known hashes | `Handshake`, `Run`, `dispatchRequest`, `dispatchResponse`, `Request.Close`, `Peer.Close` | remote | cancellations racing responses, goroutines left behind, three loops on unbuffered channels |
| Pool coordinator (`txpool/txpool.go`) | old and new head, the busy token, reservations | `loop`, `Close`, the reserver, queries | backend's feed, subpools | heads during a reset, close during a reset |
| Backend (`backend.go`) | last head, the head feed | `updateLatestHeader`, a goroutine per head | Geth node, pool | heads out of order, missing blocks, a stream that ends |
| Legacy pool, scheduling (`legacypool/legacypool.go`) | next and current run, done channels, dirty accounts, queued events | `scheduleReorgLoop`, `runReorg`, `Add`, `Reset`, `Close` | coordinator, fetcher | what a done channel promises, work lost between two runs, deadlock under the lock |
| Legacy pool, content (`legacypool.go`, `list.go`, `lookup.go`, `noncer.go`) | pending and queue, lookup, priced heaps, nonces, beats, reservations | `add`, `removeTx`, `promoteExecutables`, `demoteUnexecutables`, truncations, `reset` | journal, state, coordinator | seven indexes that must agree after every operation; limits; heaps that keep entries of what is gone |
| Journal (`journal.go`) | a file and its writer | `load`, `insert`, `rotate`, `close` | disk | failures in the middle of a rotation |
| EVM (`pkg/vms/sve_vm`) | frames, stack, memory, gas, refund, access list, snapshots, the static flag | `Call`..., `Create`, `Run` and the four loops of the SVE | state | revert of nested frames, a flag shared by all frames, gas in 64 bits, tables written by hand for each fork, the infinite gas switch |
| SVE (`pkg/SVE`) | the metadata of one token | `FetchERC20Meta` and its searches | EVM | depends on what foreign contracts do |
| ABI, Geth client, databases, labs | next to none | codecs, RPC, reads | | pure functions and I/O |

What makes each of them correct, in words:

* *Fetcher*: a hash is in one stage only; the indexes by peer and by hash agree;
  a hash is in flight exactly while somebody's request misses it; no panic; no
  timer is lost; a hash is asked for at one peer at a time, and forgotten only
  when it was delivered or nobody is left to ask.
* *Sessions*: what the fetcher knows of a peer goes when the peer goes; a request
  that could not be sent is taken back.
* *Heads*: one reset at a time, each from the head the subpool is at; no head is
  forgotten; the pool settles on the last one; nobody is left blocked.
* *Scheduling*: a call that waited returns when its work was done; a queued
  account is always in somebody's hands; whoever works on the pool has its lock;
  everything returns.
* *Content*: the lookup holds the listed transactions and no others, the nonces
  pending are gapless and disjoint from those queued, an account is reserved
  exactly while it has transactions, every remote transaction can be found by a
  discard, a newcomer has its slots, the limits hold after each run, and local accounts
  lose nothing to them.
* *eth peer*: no session runs on half a handshake; a request is with its caller,
  the dispatcher or the reading loop, and in one state with all of them; nobody
  waits for ever.
* *EVM*: a failed frame leaves the state as it found it, and a frame that
  succeeded in a failed one is undone with it; a static frame and what it calls
  write nothing; gas never grows over a session; what a frame touches of memory
  was paid for; a jump lands on an instruction that is a JUMPDEST; nothing panics.

## 2. The modules

`TxFetcher` models `loop` of the fetcher. Each case of its select is one action
(`HandleNotify`, `HandleWaitTrigger`, `HandleTimeoutTrigger`, `HandleBroadcast`
and `HandleReply` for the two kinds of delivery, `HandleDrop`) that does all the
case does, `ScheduleFetches` and the timers included. `FetchSent` and
`FetchFails` are the goroutine of a request; `Ripen` and `Overdue` are the clock.
A Go map from hashes to peers is a function whose value `{}` is an absent key.
Map iteration order makes the batch of a peer arbitrary: `ScheduleFetches`
chooses any distribution of the fetchable hashes over the idle peers that leaves
none of them empty-handed without need. Sizes and kinds of transactions are left
out, so a batch may end anywhere.

`FetchAutomaton` is what the fetcher promises, without a map: for each hash its
stage, its sources and its owner. `TxFetcher` implements it under a refinement
mapping (`ImplementsAutomaton`): no step forgets a source of a hash still
tracked, except those of a peer that left or of a fetch that failed, and no hash
has two fetches.

`PeerSession` extends `TxFetcher` with the sessions and the peer set, and replaces
the environment the fetcher had: messages come while a session runs, a request is
sent only through the registered object of a live session (`RequestSent`), and
every request may fail (`RequestFails`).

`ChainHeads` models `updateLatestHeader`, the goroutine it starts per head, the
feed, and `TxPool.loop` with its reset goroutine and `Close`. A head is its
position in the stream: the loop compares pointers, and each head is an object of
its own. A reset ends with the subpool on the new head, or with it left behind, which is what
`reset` does when a block or a state is missing; `strayed` says so of the last
reset. The loop counts the head as reached all the same, so the next reset starts from
a head the subpool never saw; when it succeeds, `strayed` is false again and the
promises are due again.

`EthPeer` models one connection: `Handshake` with its two goroutines, its timer
and the channel on which they answer (`StatusSent`, `StatusRead`,
`HandshakeReceives`, `HandshakeTimeout`), the session (`handleMessage` as the
`deliverer`), the callers of `dispatchRequest` and `Request.Close`, and the
`dispatcher` loop. Each send on an unbuffered channel is one action of its two
goroutines, and each `select` one disjunct per case, `term` included. The program
starts no dispatcher and registers handlers that answer no response; `Init`
leaves that open (`dispatcher` is `none` or `idle`), so the runs and the proofs
speak of the program and of what `dispatcher.go` is written for.

`ReorgScheduler` models `scheduleReorgLoop`, `runReorg` and the calls `Add`,
`Reset`, `Close` and the eviction tick, down to every channel operation and
`pool.mu`. The content of the pool is abstracted to the accounts whose queue no
run has examined. A done channel is named by its relation to the scheduler: that
of the next run, that of the current one, or closed; launching a run renames the
first to the second (`Promised`), as the code does by assigning `curDone`.

`LegacyPool` models what the pool holds. Its indexes are one record, `pool`, and
each method of the code is an operator from such a record to the next:
`Unlist`/`RemoveTxs` is `removeTx`, `Requeue` and `Insert` are the two uses of
`enqueueTx`, then `Promote`, `Demote`, `SetAll`, `TruncatePending` and
`TruncateQueue`. A handler composes them as the code does: the end of a run with
a reset is `Trim(SetAll(Demote(Promote(pool, Addrs))))`. `reset` reinjects one
transaction at a time while it holds the lock (`resetting`), so the pool between
two of them is a state too. The batches of `Add` are single calls; the order in
which blocks give their transactions back is open.

The two heaps of `pricedList` are one bag (`priced`). A transaction that leaves the
pool may stay in it, and is in it twice when it comes back (`Put`); `Removed` may leave
the stale entries or rebuild the heaps (`Reheap`), while the transactions the same call
has yet to remove are still remote. `Discard` pops entries until the live ones count
for the slots it needs: one of them in the heaps twice counts twice, and less room is
made than counted. A full pool that turns a transaction away may have popped stale
entries all the same (`TurnedAway`). Abstracted:

* a transaction is its sender, its nonce, its slots (1 to 4) and one price, which
  stands for the fee cap, the tip and the cost;
* which entries the heaps give up first, and the order of the heartbeats, are open,
  so what is shown holds whatever the prices, the base fee and the clock say;
* the counter of stale entries is not kept: the heaps may be rebuilt at any call of
  `Removed`, and must be when more than `MaxStale` entries are too many;
* the loops of the truncations are written as what they compute: the level to
  which all large accounts are cut, the highest nonces of each queue;
* the tip is not kept: `SetGasTip` drops what a raised tip drops, and any valid
  transaction may be added before or after;
* the addresses reserved by other subpools: the program has one subpool.

The virtual machine is six modules, each on the one before:

* `OpCodes`: the bytes (`opcodes.go`);
* `JumpTable`: the instruction set of every fork and of every optional proposal
  (`jump_table.go`, `eips.go`), as records of the names of the execute, gas and
  memory functions and the bounds of the stack. A fork is the table before it with
  what its constructor changes;
* `Instructions`: what each execute, gas and memory function reads of the stack
  (`instructions.go`, `memory_table.go`, `gas_table.go`), against which the tables'
  bounds are checked;
* `GasRules`: every dynamic gas function (`gas_table.go`, `operations_acl.go`,
  `gas.go`), with words of `Width` bits and the overflow checks of the code;
* `CodeAnalysis`: the bit vector of jump destinations (`analysis.go`), byte by
  byte with its shifts, and what it stands for;
* `EVM`: the frames. `Transact`, `Deploy` and `EnterLite` start a session by a
  call, a create or a lite loop of `sve_interpreter.go` (`LiteRun`, `ScanFor`,
  `ScanForMultiple`, `RunWithOverride`), which are kinds of frames; `Cancel` is
  `evm.Cancel`. A `Step` is one turn of the loop in `interpreter.go`:
  checks, constant gas, memory size, dynamic gas, the instruction, which may go
  on, jump, write, open a frame with its snapshot and transfer, or end its own:
  a return charges for deployed code, reverts or keeps, and gives gas back.

The stack is its height, and what an instruction finds on it is chosen from
`Operands`: whatever the words are, the control around them is the code's. Words
that arithmetic computes, the bytes of memory and the return data are left out.
The code that a create finds in memory is one of `InitPrograms`, and its address
one of `CreateAddresses`, which may be taken. A transaction transfers no value itself
(the calls in it do), an account has one storage slot, and at most one proposal is added
to a fork. A field of the block context that is nil (a base fee before London, a
missing `Random`) is not among the faults.

`NestedTx` is what the machine promises of nested calls, in a page: each is a
transaction in the one that makes it, kept or undone as a whole, and its caller is
told which. `EVM` implements it (`ImplementsNestedTx`).

The `MC` modules instantiate these for TLC; `TxFetcherProofs`,
`PeerSessionProofs`, `ReorgSchedulerProofs`, `ChainHeadsProofs`,
`LegacyPoolProofs`, `EthPeerProofs`, `EVMProofs` and `EVMRunProofs` hold the proofs. In
each model the operators with a suffix (`With_Overwrites`, `Launch_Unguarded`, ...) are slips a change to
the code could make; each property of a passing run fails when the named slip
replaces the definition.

## 3. The runs

| Run | Instance | Shows |
|---|---|---|
| `fetcher_safety` | 2 peers, 2 hashes, limits 2 and 2, symmetry | types, the marks of stolen hashes, one stage, indexes agree, in-flight matches requests, no panic, timers armed, refinement of `FetchAutomaton` |
| `fetcher_dropped_peer` | 2 peers, 1 hash, limits 3 and 1 | violation of `NoOrphanSource` |
| `fetcher_announce_cap` | 1 peer, 4 hashes, limits 3 and 1 | violation of `AnnouncesCapped` |
| `session_live` | 2 peers, 1 hash | every hash leaves the wait list, overdue requests are given up, unsent ones withdrawn, whoever comes and goes |
| `session_leave` | 1 peer, 1 hash | violation of `LeaversForgotten` |
| `scheduler` | 1 adder, 1 account, a resetter, evictions, a shutdown | `DoneMeansDone`, `QueuedIsScheduled`, the lock is with whoever works on the pool; every call returns, Close ends |
| `heads` | 4 heads | resets follow the pool, none forgotten, the pool catches up unless the last reset failed, senders and Close end |
| `heads_order` | 2 heads | violation of `HeadsMoveForward` |
| `pool` | 2 accounts, 5 transactions of 1 and 2 slots, 4 slots, 4 head states, heaps with 1 entry too many | the indexes and the heaps agree, reservations, newcomers have their slots, contiguous pending nonces, limits after a run, local accounts keep what they have |
| `pool_stuck` | the same | violation of `NoneLeftExecutable` |
| `peer` | 2 requests, with and without a dispatcher | `HandshakeComplete`, `RequestsAccounted`, `NobodyWaitsForEver` |
| `evm` | 12 programs, sessions over 12 forks, metered, infinite and lite | the tables fit the functions, jumps are exact, memory is paid for, no fault in metered runs, gas falls, static calls write nothing, refinement of `NestedTx` |

### Bounds

* *Two peers, two hashes.* One peer is needed to fetch and another to fall back
  to, or to steal the delivery; two hashes let a request be partly answered and a
  batch be partly kept. The proofs need no bound.
* *Limits of 2.* `maxTxAnnounces` is reached in the middle of a batch, and a
  request can be full.
* *One goroutine of a peer waits in `Drop` at a time, and a reply is handled when
  the peer's request goroutines have run.* Without these the number of old
  request goroutines grows for ever; a late failure that hits a newer request of
  the same peer is still there, by way of the pending `Drop`.
* *The timers may fire early.* The code arms them for the oldest entry, which may
  be gone when they fire; a trigger with nothing due is then handled. Armed timer
  and token in the channel are one flag.
* *One account per `Add`, one adder.* A batch of several is a larger dirty set,
  and is treated the same by `Merge`. Two adders and two accounts were checked as
  well (11 million states); safety is proved for any number, and the run is small
  so that liveness is quick to check.
* *`MaxHeads`.* Four heads let three be read at once while a reset runs. The
  stream is finite, so the system may stop: that run does not look for deadlock.
  A reset goroutine that ends after the loop has quit stays blocked on
  `resetDone`, as in the code.
* *A pool of four slots.* One account has three nonces, one of them at two prices,
  and the other one nonce; one transaction of each takes two slots: each limit is reached and passed, replacements happen in both
  lists, the truncation cuts one account and two together, and an account can be
  discarded for another's transaction or for one of its own. The heads differ in
  the nonces of both accounts and once in what they can pay, and may follow each
  other in any order, back as well; a reset brings back up to two transactions
  (`MaxLost`), enough to leave one between them out. `MaxStale` is 1: the code bears a
  quarter of the entries, which is one of the four to seven that fit here, and one is
  enough for a transaction to be in the heaps twice. The proofs need none of these bounds.
* *Two requests, each used once.* One can be closed while the other's response is
  offered. When both are used up the system is at rest, so that run does not look
  for deadlock; `NobodyWaitsForEver` does, of each goroutine.
* *The machine's numbers.* The gas prices are those of `params`; words have 24 bits
  instead of 256, and the size at which the memory price is refused (`MaxMemory`)
  is the largest whose square fits, as `0x1FFFFFFFE0` is for 64 bits. The stack
  holds 10 and calls nest 2 deep, so that both limits are met; init code and
  deployed code have at most 64 and 32 bytes. `MaxCalls` ends sessions that gas
  does not end. The twelve programs are chosen so that every execute function
  with control of its own runs, the sessions so that every gas function does, and
  the amounts of gas so that it runs out before, in and after a nested call.
  A session ends, so this run does not look for deadlock either.

### Fairness

Liveness is checked with weak fairness for whatever goroutine can go on by
itself: timers fire, a select that finds several cases ready chooses at random
(Go's specification), goroutines run, block requests and resets end. Peers owe
nothing: they need not answer, stay or leave. The lock `pool.mu` is a
`sync.RWMutex`, which gives itself to the longest waiter, so taking it has strong
fairness (`SF` on `AddEnters` and `RunLocks`).

In `EthPeer` each goroutine goes on when it can, the handshake's timer fires, the
server closes the connection once the protocol's `Run` has returned, and a caller
closes the request it holds or handles its response. The remote owes nothing.
`EVM` states no fairness; that a metered session ends follows from `GasFalls`,
since each step lowers what is left in a well-founded order.

### Findings

1. *A dropped peer stays a source* (`fetcher_dropped_peer`). `HandleDrop` visits
   `announced` for the peer's hashes but not the `alternates` of those that
   another peer is fetching. When that fetch fails the hash is queued with the
   dropped peer as its only source: it is asked of nobody and never new again.
2. *The announcement cap keeps the wrong part* (`fetcher_announce_cap`).
   `hashes[:want-maxTxAnnounces]` keeps as many as there are too many. The limit
   is overrun, or room is wasted.
3. *A peer that left is not forgotten* (`session_leave`). Nothing calls `Drop`
   when a session ends. A request it left unanswered keeps its slot, and the peer
   is not asked again when it returns.
4. *Heads overtake each other* (`heads_order`). Each head is delivered by its own
   goroutine after a remote read, so the pool may be reset back to the older one
   and stay there until the next head.
5. *A reset leaves an executable transaction queued* (`pool_stuck`). `reset` sets
   the virtual nonces back to the state's, and the promotion of the same run asks
   `Ready` for what follows them, although pending already holds it. The next
   transaction of the account, added before the reset, stays in the queue until
   the account sends another one or the state reaches it.

`PendingContiguous` is claimed only while the chain has not gone back. After a
reorg of which only some of an account's transactions come back, pending can hold
nonces 0 and 2 without 1: `demoteUnexecutables` looks for a gap at the front only.
The comment there says that such a gap "should never happen", of the front.

No property covers a block that cannot be read, a subscription that ends for good, or
that gap after a reorg: what is lost there is lost by the code as it is written.
`ResetsFollowThePool` and `PoolCatchesUp` speak of the heads the pool received, and
after a failed reset they are due again with the first that succeeds.

### Observations

What the models show of the code, and no text of the repository denies. None is a
run: there is no stated promise that it would break.

* *Infinite gas and memory.* With infinite gas the error of a dynamic gas function
  is ignored (`interpreter.go:227`): a memory size that was refused as too large is
  allocated. The lite loops do not meter memory either. In the model both are
  the fault `alloc`, and `NoFault` is claimed for metered sessions only.
* *The canary of the access list* (`operations_acl.go:50`, "impossible case") is
  reached by the lite loops: an address need not be on the list, since nothing
  calls `Prepare` before them. In the model it is a fault as well. A transaction would
  reach it too if EIP-2929 or EIP-3529 were an extra proposal on a fork before Berlin:
  their gas functions suppose the list that `Prepare` makes from Berlin on.
* `RunWithOverride` compares `pc` with the overrides after the instruction was
  executed, and pops from the stack without a look at its height.
* A checkpoint is taken before the bounds of the stack are checked. When the
  instruction that ends the run is the one `ScanFor` looks for, it returns the
  internal `errStopToken`, which every other way out clears.
* Before Homestead, a create that cannot pay for its code is kept, with no code, as
  in Ethereum; `NestedTx` counts it as kept.
* `SetBlockContext` renews the rules but not the table of the interpreter. Nothing
  sets `stack_interrupt`.
* *The dispatcher.* Nothing starts it, so a request of headers, bodies or
  receipts waits until its peer is closed. If the registered handlers passed
  responses on, with no dispatcher they would wait as long. `dispatcher.go:210`
  says that "even cancelled requests are tracked until fulfilment", but a
  cancellation deletes the request, and a late response to it is refused as
  dangling. It does no harm, since `dispatchResponse` returns no error then. Two `Close` calls of one request would both close its
  channel: the model's caller closes once.
* *The fetcher* compares the pool's errors with those of go-ethereum's package,
  while the pool returns its own: known and underpriced transactions are counted
  as other rejects and not remembered as underpriced.
* *Slots counted twice.* A remote transaction that was removed while its entry stayed
  in the heaps, and was submitted again, is in them twice. `Discard` (`list.go:608-615`)
  returns both entries and subtracts the slots of both; `add` removes the transaction
  once and inserts the newcomer, so the pool may then stand above `GlobalSlots +
  GlobalQueue`. `SlotsKept` excepts exactly this.
* *The journal*: a rotation that fails after the old file was closed leaves no
  writer, and later local transactions are refused by it with a logged error.

## 4. The proofs

All theorems hold for any values of the constants under the named assumptions of
the modules (finite sets of peers and hashes, positive limits, distinct
goroutine names; of the machine, that sessions are over its accounts, that only an
account has storage, and that the operands are words with addresses where calls
read them).

*Fetcher* (`TxFetcherProofs`). The documented properties are not inductive one by
one: that no "already contains" panic is reachable needs disjoint stages, whose
preservation by a timeout needs that a pending hash of a request is owned by that
request, whose preservation by a delivery needs that stolen hashes were marked.
`IInv` joins them: types, the agreement of the wait list's three maps
(`WaitAgrees`), that of the others (`MapsAgree`), and no panic. Since every
handler ends in `ScheduleFetches`, the argument is split there: lemma
`ScheduleKeeps` shows that it takes consistent *arguments* to consistent primed
maps, so each handler only has to show that the maps it leaves are consistent,
and `Reassemble` puts the invariant together. `TypeOK` adds that only hashes a request
asked for are marked stolen in it (`StolenAsked`): a delivery marks what is being
fetched from that peer (`MarkedAsked`), and new requests have no marks
(`ScheduleAsks`). Theorems: `TypeCorrect`,
`StagesDisjoint`, `IndexesConsistent`, `FetchesConsistent`, `NeverPanics`.
`TimersKept` goes along the same split: `ScheduleArms` for the
requests' timer, and one lemma per handler for the wait list's, which uses that an
entry has an age exactly while somebody waits (`WaitAgrees`).
`FetcherImplementsAutomaton`: the loop implements `FetchAutomaton`. The invariant gives the mapping its meaning: with
disjoint stages the stage of a hash is read off its maps (`StageIs`), and a pending
hash has one owner. `HandsOut` shows once that what `scheduleFetches` gives away is
what the automaton allows after an event, `FinishOf` that leaving a request's
hashes queued or forgotten is its "fetch finished", and one lemma per handler puts
the two together.

*Sessions* (`PeerSessionProofs`). `SessionsRunTheFetcher` shows that the composition
implements `TxFetcher`: every step of the sessions is one of the fetcher or leaves
its maps alone, so the invariant above holds of it too. With it, `SessionsTyped`
proves that nothing is tracked for a peer the set has never known: the one
handler that adds to a peer's sets is that of its own announcement, and
`ScheduleFetches` only takes from them.

*Scheduler* (`ReorgSchedulerProofs`). `DoneMeansDone` speaks of closed channels
only. The invariant says what each *open* channel will bring (`Promise`): a call
holding the next channel has its account, event or reset in `work`; one holding
the current channel has it in `run`, or the run is past it. `LaunchKeeps` shows
that launching, which renames the channels and moves the work to the run in one
step, preserves this. `Coming` keeps an unexamined account in a call's hands, in
`work`, or in the run; that wanted work follows an active run, whose end launches it,
is part of `IInv`. That the lock is with whoever works on the pool (`LockHeld`, in
`TypeOK`) is kept step by step (`NextLocks`). Theorems: `TypeCorrect`, `DoneCallsAreDone`,
`QueuedAccountsAreScheduled`.

*Heads* (`ChainHeadsProofs`). The busy token is in its channel exactly while the
set of resets has its one element, whose old head is the loop's and, until it
ends, the subpool's. Theorems: `TypeCorrect`, `ResetsFollow`, `NothingWaits`.

*Pool* (`LegacyPoolProofs`). The invariant is of a pool record rather than of the
state, so that it can be followed through the methods a handler composes.
`Sound(p)` joins types, the lookup, `remote` as a part of it, distinct nonces over
both lists, and the heartbeats; `Held(p, A)` says that of the reservations only
those of `A` may stand for an account without transactions, which is what holds
between a reservation and the insertion it was made for, or between a removal and
the deferred release. One lemma per method takes `Good` records to `Good` records;
`RemovesThose` is where distinct nonces are needed (both lists remove by nonce), and
`PromotesAll` shows that a promotion never meets a transaction of its nonce. That
`truncatePending` need not give reservations back follows from the least nonce of
an account surviving every cut (`CappedKeepsOne`), which takes the least element of
a set of naturals: `LeastNat` derives it from the well-foundedness of inclusion.
The heaps have an invariant of their own (`HeapInv`): every remote transaction has an
entry, whatever is rebuilt, popped or put back; it is the second half of
`LookupAgrees`. `SlotsKept` speaks of the step that lets a remote transaction in, and
follows the slots one by one: a set of transactions takes as many as its pairs of a
transaction and one of its slots (`SlotsWith`, `SlotsWithout`), and when no victim is in
the heaps twice the live entries `Discard` counts are as many as the slots of the
victims (`CountedOnce`). What is removed is then at least what was missing
(`AddingMakesRoom`). All the other steps let no remote transaction in.
`PendingContiguous` needs two forms (`PendingInv`). Between runs the pending nonces
of an account are `Exact`: from its own to the one named as next. `reset` sets next
back while pending keeps what follows it, so that until its run ends they are only
`Reaches`: below the state's nonce there may be some, and next is reached from the
state's nonce without a gap. Every removal cuts from one nonce on and sets next to it
(`CutExact`), a promotion appends what starts at next (`AppendedReaches`), and
demotion with `setAll` makes the nonces exact again (`DemoteSetsExact`).
`LocalsKept` is a property of steps. What the limits, the tip and the eviction may
take is either remote or of another account; that the two agree is the invariant
`Foreign`, no remote transaction is of a local account, which is why `add` moves what
an account has when it becomes local. `Spares` carries it through the methods of a run.
`RunKeepsLimits` is about sums: the transactions of a list over all accounts. They
are sizes of unions (`TotalOf`), so that no induction over the accounts is needed.
`TruncatePendingLimits` takes the level to which the large accounts are cut, and
shows that either it brings the sum within the limit or every account of no local is
within its share; `TruncateQueueLimits` counts what is over the limit (`Excess`) and
what each account gives of it. `TypeOK` needs the lemmas on what each method leaves
(`...Ranged`): the new fields of a record are sets and functions of the right kind,
and the count of changes grows by a natural.
Theorems: `TypeOKAlways`, `LookupAgreesAlways`, `NoncesDisjointAlways`,
`ReservedWhileListedAlways`, `QueuedHasBeatAlways`, `SlotsKeptAlways`,
`PendingContiguousAlways`, `LocalsKeptAlways`, `RunKeepsLimitsAlways`.

*eth peer* (`EthPeerProofs`). `Handshake` takes two answers from `errc`; that these
are one of each goroutine is a count: it has received as many as there are
goroutines neither running nor on the channel. For the requests the invariant
(`Placed`) says, for each place where the dispatcher or the reading loop may have
one in hand, what its caller is doing and whether it is tracked. Theorems:
`HandshakeIsComplete`, `RequestsAreAccounted`.

*Virtual machine* (`EVMProofs`). `StaticWritesNothing` is a property of steps: while
a static call is open the content of the state stays, whatever returns or reverts.
The interpreter has one flag for all frames. The invariant (`StaticInv`) says that
exactly one open frame set it, that no frame above it creates, and that every
snapshot above it is of the present content. A call of an account that does
not exist makes it, in a static frame as well: that this is no change of content
needs that what does not exist has no nonce, no code and no storage (`Sane`). One
lemma per kind of step follows, with the gas functions, which warm addresses
only. `CallsAreNested` is the refinement of `NestedTx`: the changes that a frame's
snapshot holds are the save of the transaction it stands for. A second pass over
the same steps shows that each is a begin, a change, a commit or an abort of it, or a
stutter (`Nests`): `Within` says what has become of the current frame and of the
state before it ends, `SavesAppend` that a frame of a call is one more save. A loop of
the SVE takes no snapshot and is none; that it can only be the first frame
(`OneLoop`) is part of the invariant. Theorems: `StaticCallsWriteNothing`,
`CallsAreNested`.

*Gas and memory* (`EVMProofs`). `MemoryPaid` and `GasFalls` hold of metered
transactions, for any programs, operands and forks. They have one invariant
(`MeterInv`): each frame's gas and program counter are natural, its memory is a
whole number of words, at most `MaxMemory`, and its fee is the price of exactly that
memory (`PaidFor`); and the gas of all frames together fits the machine's integers.
The argument has three layers.

* What the tables of all forks share. `Priced` says of an entry that the gas function
  an instruction grows its memory with is one that charges for memory (`Charging`),
  and that its constant and dynamic gas are not both free unless it ends the frame
  (`Costing`, `Ending`). Each constructor keeps it (`PricedSet`), so it holds of all
  (`Timely` adds what needs the fork: EIP-150's rule for calls).
* What each gas function quotes (`GasQuoted`, `CallsQuoted`). A quote that is not
  refused has the fee of `memoryGasCost`, which is the price of the larger of the old
  and the new memory, and no sum in it wraps: either the code checks it, or the
  operands bound it. A call is quoted at least what it gives away.
* What a turn does with a quote. What a frame pays, less the gas it hands to the
  frame it opens and the stipend, is positive (`Spent`, `StepFalls`): the stipend is
  at most the price of a transfer of value, and a call from EIP-150 on leaves its caller a
  64th. A frame that ends gives back at most what it had, and then the stack is lower.

What the constants must satisfy is assumed by name and evaluated in every run:
`WidthAssumption` (the largest memory is far from the largest integer, and its square
in words fits), `PriceAssumption` (prices are positive; the stipend is at most the price of a
transfer; the price of a read of storage is at most those of a set and of a reset, cold
and warm together from EIP-2929 on, since the code subtracts it from them; a call's own price is at most a 64th of the largest integer, since one
addition to it is not checked), `ProgramsAssumption` and `OperandsAssumption` (programs
are of bytes, words fit 256 bits) and `SessionsAssumption` (an account's code is one of
the programs, and EIP-2929 is enabled only on a fork that has EIP-150, as its gas
functions suppose; `Config.ExtraEips`, which could do otherwise, is set by no code
outside the tests). The protocol's constants satisfy them all. Theorems:
`MemoryIsPaid`, `GasIsFalling`.

*Jumps* (`EVMRunProofs`). `JumpsExact` holds of every session, the loops of the SVE and
infinite gas included, and takes four steps.

* The tables (`TablesSkip`). Whatever the fork and the extra proposal, the opcodes 96 to 127
  and no others are executed by a function that skips data, as many bytes as the opcode
  says, and 0 stops. The numbers come from the blocks of `opcodes.go` (`BlockOf`).
* One instruction of the scan (`ScannedExact`). `set16` and `set8` assign the byte after
  the one they add to, so they are right only where nothing later is marked yet
  (`ClearFrom`), and the vector must be four bytes longer than the code needs (`Vector`).
  Each marks exactly its bytes (`Extends`), and so do the runs of sixteen, eight and the
  rest.
* The whole scan (`BitmapExact`). `codeBitmap` and the reference `InstructionStarts` are
  recursive functions; that they exist and obey their equations is derived from sets of
  naturals (`Iterated`, `UpTo`), since the library's induction cannot be used here. After as
  many turns both are at the same place, or past the end, and what is marked so far is what
  is no start (`Agree`).
* The machine. In `JumpInv` the current frame is at a start, and each waiting one at a
  start whose next byte is one too (`Waits`), because a call has no data. An instruction that
  goes on leaves the counter before a start (`NextPlace`), and so does a jump that
  `validJumpdest` allows.

Theorem: `JumpsAreExact`.

*Tables* (`EVMRunProofs`). `TableFits` computes over the tables of all forks, which no
prover unfolds at once. `Rightful` is what one entry owes: the numbers it declares are those of
its functions (`Fit`), and the gas functions of storage are at SSTORE only. What the functions take
and push is stated by class (`Simply`, `Touchingly`, `Rightly`), each constructor of an entry is shown
to keep `Rightful` where the name, the function and the numbers suit each other (`MadeFitted`), and
each family of instructions, fork and proposal is then a list of entries that do (`FrontierFitted`,
`SetsFitted`, `ForksFitted`). The premise of the theorem (`Founded`) is the one TLC finds when it
tries every proposal on every fork: EIP-2929 and EIP-3860 reprice instructions
that come with Constantinople, and before it their gas functions would read operands of an
instruction that is not there. Theorem: `TablesFit`.

*No fault* (`EVMRunProofs`). `NoFault` says that a metered transaction never panics. Its
invariant (`SafeInv`) adds two things to `MeterInv`.

* The refund counter. `SubRefund` panics below zero, and under net metering a write takes
  back what an earlier one was given, possibly in another frame, and a failing call puts
  the counter back. So every state, the current one and the one each frame would go back
  to, must hold the refunds of all slots cleared since the transaction began
  (`Counted`: the refund of a clear times the number of slots that are zero and were not).
  The gas function counts a write before `execute` makes it (`Booked`), for each
  way to meter (`StorageBooked`); the other gas functions only add (`GasTame`).
* The access list. From Berlin on, each account that runs is warm, now and in the states
  that the frames above it would go back to (`Guard`): `Prepare` warms the first, and
  the gas function of a call warms its target before the call is made (`EnabledCalls`).

What is left needs no history. An operation that was paid for has its operands, since what
its entry declares is what its functions use (`TablesFit`), and its memory, since the size it
paid for holds every region (`SizeHolds`); a size beyond `MaxMemory` is refused with an
error. The theorem has a premise on the extra proposals (`Lawful`): 2929 and 3529 need
Berlin, where the access list is made, and 3860 the instruction it reprices; no code
outside the tests sets any. Theorem: `NeverFaults`.

Only model-checked: the nine liveness properties (`UnsentIsWithdrawn`, `TimeoutHandled`,
`WaitEnds`, `PoolCatchesUp`, `SendsEnd`, `CloseEnds`, `CloseAnswered`, `CallsReturn`,
`NobodyWaitsForEver`), which are out of the prover's reach. Every safety invariant and
action property of the passing runs is proved as well.

## 5. What is not modelled, and the plan

Left out for good: codecs (ABI, RLP), logging and metrics, the Geth client and
databases beyond "a block may be missing", discovery, precompiled contracts (pure
cryptography of one input), the labs, and `Stop` of the fetcher, which nothing
calls. The SVE is a script of calls whose outcome foreign contracts decide. Left
out of the modelled parts: the metadata mismatch that disconnects a peer, the wait
of `updateLatestHeader` for `pool.mu`, read-only queries of the pool, the sets of
known hashes of a peer, the senders of `peer.go` that nothing calls, and what
`LegacyPool` and `EVM` abstract (section 2).

What would come next:

1. The counter of stale entries and the two heaps of `pricedList` with their own
   orders, in the place of the bag; then the journal's rotation with failures.
2. `HeadPool`: `ChainHeads` composed with `ReorgScheduler`, with the reset of one
   as the call of the other, a Close during both.
3. The searches of the SVE for a maximal amount, as algorithms over any
   monotone answer of a contract.
