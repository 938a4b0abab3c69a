# A TLA+ development of Pinaivu

Pinaivu (crates under `src/crates/`, contracts under `src/contracts/` and
`src/programs/`) is a peer-to-peer network of nodes that sell inference. A node
answers HTTP requests with its own engine or routes them to a peer, keeps a
record of every job, settles what was earned on one of several chains, and
publishes a reputation. This directory holds TLA+ models of the parts whose
correctness depends on the order of events, the TLC configurations that check
them on small instances, and theorems about them checked by TLAPS.

`PROJECT.json` maps every definition to the lines it stands for, lists the runs,
the theorems, the disagreements found between code and documentation, and, for
every property, a mutated form of the code that breaks it.

1. [Inventory](#1-inventory)
2. [Modules](#2-modules)
3. [Runs](#3-runs), with bounds and fairness
4. [Proofs](#4-proofs)
5. [What the models found](#5-what-the-models-found)
6. [Not modelled](#6-not-modelled)
7. [Plan](#7-plan)

## 1. Inventory

Paths are relative to `src/crates/` unless they start with `src/`.

### How the parts interact

A client calls the HTTP API (`node/src/api/mod.rs`). The handler takes a permit of
a semaphore, pushes a job to the job store, runs the engine, completes the job,
settles it through an adapter (`settle_and_build_receipt`: lock, then release), and answers with
the signed receipt. The reputation store, the payment ledger and the scheduler are there for
such a handler, but none calls them yet. A
watcher of its own task fails jobs that pass their deadline. If a peer is asked
for, the request goes to the swarm task by a bounded channel of commands, over
gossip to the peer's swarm task, through a bounded channel of events to the
peer's event loop, and is executed in a task of its own; the chunks come back the
same way to a collector registered by the handler. Handlers are futures: hyper
drops one at whatever await it is at when its client hangs up.

### Components

**Job queue** (`node/src/api/mod.rs`, `node/src/jobs.rs`, `persistence/src/job.rs`).
State: the store (status and deadline of each job; in memory per replica or in a
Postgres table shared by replicas), the semaphore, the gauge and the outcome
counters, the journal. Operations: `push`, `mark`, `complete`, `due`; the two
handlers; `sweep`. Hard: hang-ups at every await, two marks per compensation
around which anything may happen, several watchers on one table, crashes, failing
calls. Correct when: permits are neither lost nor doubled, every dispatched job is
resolved, only overdue jobs are compensated, and once.

**Payment channel adapter** (`settlement/src/channel.rs`). State: a map of channels
and a total behind one async mutex; the wallet's nonce is the chain's. Operations:
`lock_funds`, `release_funds`, `refund_funds`, each with RPCs while it holds the
mutex. Hard: dropped calls with a transaction on the wire, failing RPCs, calls in
any order. Correct when: the ledger pays each channel out once and in full, and
ledger and chain part only where a failure explains it.

**EVM adapter and contract** (`settlement/src/evm.rs`,
`src/contracts/evm/DeAIEscrow.sol`). State: none in the adapter; escrows, reverse
lookup and balance in the contract; the wallet's pool. Operations: `lock_funds`,
`release_funds`, `refund_funds`, the ERC-8004 registration of a starting node; `lockEscrow`, `releaseEscrow`, `refundEscrow`.
Hard: nonces are read and used with no lock in between, success is declared when
the pool has a transaction, transfers can revert, other users call the contract.
Correct when: the contract conserves funds, each escrow has one outcome, a
settlement locks at most once, and a release reaches the node.

**Solana adapter and program** (`settlement/src/solana.rs`,
`src/programs/pinaivu/src/`). State: escrow, score, registration and statistics
accounts, lamports. Operations: `lock_escrow`, `release_escrow` and `submit_proof` in one
transaction, `refund_escrow`, `anchor_hash`, `register_node`; the adapter's calls, a blockhash
and a `sendTransaction` each. Hard: the border between release and refund,
transactions that are simulated, taken, and then lost or late, lost answers. Correct when:
an escrow pays one side, once, in full, and scores count what was paid.

**Sui adapter** (`settlement/src/sui.rs`). State: none; the wallet's coins are the chain's.
Operations: lock, release, refund, anchor: pick the coins, build, execute. Hard: the
coins are picked from a listing and used two RPCs later. Correct when: an escrow holds its
price, and no coin goes into two.

**Receipts** (`settle_and_build_receipt` in `node/src/api/mod.rs`, `infer_encrypted_handler`,
`settlement/src/adapter.rs`, `free.rs`, `receipt.rs`, `arc_gateway.rs`). State: the log of
signed receipts, the intents at Circle. Operations: choose an adapter by what the
client accepts, lock, release, build. Hard: lost answers, answers that promise too much, hang-ups after
money moved. Correct when: a receipt says what was asked for and taken, and money that is stuck has an
explanation.

**P2P inference** (`node/src/api/mod.rs` `infer_via_p2p`, `node/src/daemon.rs`
`event_loop` and `execute_p2p_inference`, `p2p/src/service.rs`). State: the map of
collectors and their bounded channels, the channel of events, gossip's cache of
seen messages. Operations: broadcast, deliver, route, execute, publish chunks,
collect until the final chunk or 120 s. Hard: two tasks that call each other,
at-most-once gossip with content hashes as ids, full channels, hang-ups. Correct
when: a complete answer is what was generated, no chunk comes twice, collectors
are there when needed and go when not, and everything ends.

**Swarm service** (`p2p/src/service.rs`, `persistence/src/peer.rs`). State: announcement
sequence number, delayed announcement, connections, the registries of those who listen.
Operations: periodic, delayed and prompted announcements, connection events, upsert and
expiry. Hard: sequence numbers that make payloads unique until a restart, gossip's
memory of them, subscriptions learnt late. Correct when: who is connected is known by what
it offers now, and who is silent is forgotten.

**Marketplace** (`marketplace_request_handler` in `node/src/api/mod.rs`, `inference/src/bid.rs`,
`daemon.rs` `handle_inference_request`). State: bid collectors of 64 places.
Operations: broadcast on two topics, decide, bid, collect for a window, sort. Hard: the load
is read twice, a request goes out on two topics, bids come late. Correct when: a client gets the
bids that came in time, one per node, the best first.

**Node scheduler** (`inference/src/scheduler.rs`). State: queue, active jobs, semaphore. The
queue's bound is checked under one lock and used under another; a slot is given back when the job's stream
is handed over. Correct when: no slot is lost or idle, the counts are what the tasks say, and every job is answered.

**Reputation** (`reputation/src/`). State: proofs, leaves and index of every node, a file, the
channel of roots. Operations: record with its flush, offer a root, restart, prove and verify.
Hard: odd levels of the tree, a flush that fails, a restart on an older file, on a damaged one or without it. Correct when:
a path verifies its proof and nothing else, what was recorded survives, and the score is of it.

**Payment ledger** (`common/src/payment.rs`). A counter behind a lock and its file.

**Sessions** (`context/src/session.rs`, `crypto.rs`, `summariser.rs`). State: session blobs, an index blob and
a pointer to it (in memory or on a chain), a cache. Operations: create, load, append a turn,
save, list; the window of messages that fits a model, and the summary of the others. Hard: read-modify-write of session and index without a lock, storage failing between
blob and index, restarts, keys. Correct when: an answered turn is in the blob answered
last, what the index lists can be fetched and decrypted, and the model is told of every message.

**Context stores and history** (`context/src/store.rs`, the two handlers). State: messages per
session in memory, files or Redis, with expiry, eviction and trimming. Operations: load before
inference, append after. Hard: file and Redis appends are read, change, write; eviction checks
and removes in two steps; two session names can share a file. Correct when: a prompt goes
out with its own session's history, and with all of it.

**Blob storage** (`storage/src/`). State: blobs by name. Operations: `put`, `get`, `delete` of
four clients. Hard: a local put checks, creates and fills a file; equal contents share
a name. Correct when: a name that was answered reads back whole.

**Engine** (`inference/src/ollama.rs`, `lib.rs`, and the collectors in `daemon.rs` and
`api/mod.rs`). State: the stream of a request, a channel of chunks. Operations: build the
prompt, read lines, send chunks, collect. Hard: two tasks and a bounded channel,
dropped on either side. Correct when: the model is asked what the client said, and the client
is given what the model said, once and in order.

**HTTP views, x402 and replay protection, payment ledger, identity, configuration, CLI,
health, metrics, shutdown**, **TypeScript SDK** (`src/sdk/`), **web UI, landing page,
deployment**: see section 6.

## 2. Modules

| module | models | state | actions |
|---|---|---|---|
| `Semaphore` | what an admission gate promises | who is inside each gate | `Enter`, `Leave` |
| `JobQueue` | handlers, store, watcher | `status`, `deadline` (store); `pc`, `sem`, `gauge` (handlers); `batch`, `cur` (watcher); `jobsTotal`, `journal` | one per run of code between two awaits |
| `Escrow` | what an escrow promises | `held`, `toNode`, `toClient`, `phase` | `Open`, `Settle` |
| `PaymentChannel` | the channel adapter | `channels`, `total` (ledger); `owner`, `queue` (mutex); `wire`, `chain`, `nonce` (outside) | one per await of each operation |
| `DeAIEscrow` | the contract | `escrows`, `escrowByRequest`, `balance`, `received`, `events` | `lockEscrow`, `releaseEscrow`, `refundEscrow`, `AdvanceTime` |
| `EvmSettlement` | the adapter, the pool and the chain; EXTENDS `DeAIEscrow` | `pc`, `value`, `nonce` (tasks); `pool`, `mined` | RPCs of a task, `Mine`, `ClientTransaction` |
| `P2PInference` | handler, swarm tasks, event loops, executions | `collectors`, `rx`, `answer` (handlers); `inFlight`, `seen` (gossip); `events`, `sending`, `asking` (nodes); `run` | one per await |
| `SolanaProgram` | the Anchor program | `escrow`, `score`, `registration`, `state`, `lamports`, `clock` | one per instruction |
| `SolanaSettlement` | the adapter and the endpoint; EXTENDS `SolanaProgram` | `pc`, `value` (tasks); `tx` (their transactions) | RPCs of a task, `Land`, `Expire`, `ClientTransaction` |
| `SuiSettlement` | the adapter on one wallet | `call`, `at`, `payment`, `gas`, `built` (tasks); `coins`, `sealed` (chain) | one per RPC |
| `Receipts` | `settle_and_build_receipt` and the encrypted handler around it | `config`, `wants`; `stage`, `proofOf` (handlers); `receipts`, `intent`; `lockTx`, `releaseTx` (chain) | one per await, `LockSettles`, `ReleaseSettles` |
| `Conversation` | the context stores and the handlers that use them | `backend`, `store`, `evicting`; `pc`, `read`, `context` (requests) | one per access of the store |
| `Sessions` | the session manager | `blobs`, `pointer`, `cached`, `answer`; `writer` (callers) | one per storage call |
| `ContextWindow` | a session's window and summary | `spoken`, `window`, `told` | `Speak`, `BuildContextWindow`, `Summarise` and its failures |
| `BlobStore` | the four storage clients | `medium`, `blob`, `unpinned`; `putting` (calls) | one per file-system or service step |
| `Swarm` | one node's announcements and its listeners' registries | `caps`, `seq`, `delayed`; `links`, `mesh`, `sent`, `seen`, `wire`; `registry` | announcements, connections, `Hear`, `Interval` |
| `Marketplace` | a request for bids, and the bid engines | `handler`, `bidCollectors`, `bids`, `collected`, `offers`; `bidding`, `air` | one per await |
| `NodeScheduler` | the scheduler | `caller`, `task`, `queue`, `active`, `waiting`, `free`, `streams` | one per lock, `StreamDropped` |
| `Reputation` | proof store, Merkle tree, roots for gossip | `proofs`, `score`, `tree`, `index`, `file`, `onFile`, `call`, `roots` | `Record`, `ReadRoot`, `OfferRoot`, `Forward`, `Restart` |
| `InferenceStream` | prompt building, Ollama's stream, the collectors | `asked`, `prompted`; `body`, `lines`, `reader`, `chan`; `collector`, `answer`; `stuck` | one per await |

`MC*` modules hold bounds and what joins two modules, `*Proofs` modules the theorems: one per component, but for
`AdapterProofs` (`SolanaProgram`, `SolanaSettlement`, `Receipts`, `SuiSettlement`), `StorageProofs` (`Conversation`, `BlobStore`,
`Sessions`, `ContextWindow`) and `NetworkProofs` (`NodeScheduler`, `Marketplace`, `Swarm`, `Reputation`, `InferenceStream`).
`Sums` defines a sum of amounts as a number of units, and `SumTheorems` has the lemmas about it, and about induction. `MCAdapters`, `MCConversation` and `MCNetwork` each check several
modules that share no state: a variable `part`, chosen at the start, says which of them a
behaviour is of. Interleaving independent components would multiply their states and
show nothing new.

**Grain.** A Rust task runs without interruption by its own task between two
awaits, and the locks taken there are held to the end of the call they guard; so
one action is one such run, ended by the next await. Where a lock is held over an
await (`PaymentChannel`), the lock is a variable. Where a transaction is sent and
its answer awaited, the acceptance at the far end and the answer are two actions,
and the caller can vanish between them.

**Mutated forms.** A definition `X_Y` next to `X` is `X` with a plausible mistake, and
is used by nothing. Each property has one that breaks it; this is how we know
that the property depends on the code.

### JobQueue

`Admit`/`Refuse` is `try_acquire` on `inference_sem`; `Push` the store's `push`;
`InferOk`/`InferErr` the engine's answer, with the gauge lowered after it;
`Complete` and `FailHandler` the ignored-result writes that follow; `Respond`
settlement, journal and answer; `Disconnect` a hang-up at any of these, which
returns the permit (RAII) but not the gauge. `Sweep` is the snapshot of `due`, and
`TimeOut` and `Fail` the two marks per job of it; in Postgres every call can fail,
and `?` then abandons the rest of the batch (`AbortSweep`). `Crash` empties a
replica and, with the in-memory store, the store. `Durable` chooses the store.
The clock (`now`) moves by ticks and stops at `MaxTime`.

The admission gate is shown to implement `Semaphore`, with `inside` the handlers
that hold a permit: the counter in the code and the set in the specification are
different things, and a permit dropped twice or never separates them.

### PaymentChannel

`Start` queues a call for the mutex; `First` says whose turn it is. A call then
returns at once (`LockDuplicate`, `AlreadySettled`, `CostTooHigh`), changes the
ledger (`LockInMemory`, `Release`, `Refund`), or goes to the chain: `ReadNonce`,
`Accept`/`RefuseStale` at the endpoint, `Opened`/`OpenFailed`/`Closed` for the
answer, `ReadNonceFails`/`SendFails` for lost ones. `Release` changes the ledger
before its transaction, `Opened` records the channel after its own, as the code
does. `Drop` gives up mutex and queue, but not what is on the wire. The contract
behind `IDeAIChannel` is not in the repository: the chain is the sequence of what it
accepted, nonces in order.

The ledger, read through `Held`, `ToNode`, `ToClient`, `Phase`,
implements `Escrow`.

### DeAIEscrow and EvmSettlement

`DeAIEscrow` is the contract for any senders: an escrow per lock, numbered from 1,
the reverse lookup that keeps the first lock, release by node or payer at any time,
refund by the payer after the timeout, transfers that revert at accounts in
`Rejecting`. The early returns are `LockReverts`, `ReleaseReverts` and `RefundReverts`; a
transaction that reverts changes nothing.

`EvmSettlement` adds the node. A task is one `settle_and_build_receipt`: nonce and
send for the lock, then, if that returned `Ok`, nonce and send for the release;
either may fail, be refused, or replace what another task has in the pool with the
same nonce (`SendReplaces`). Tasks in `Registrars` instead send the one transaction of
`register_erc8004_agent`, which a node on Arc spawns when it starts: from the same wallet, to another
contract, with no lock on the nonce either. `Mine` executes the wallet's next nonce. The escrow id of
a release is `tx_hash_to_escrow_id`, the first eight bytes of the lock's
transaction hash, which is no id the contract ever gave.

### P2PInference

A handler registers its collector, subscribes, publishes on two topics and collects
(`Register`, `Subscribe`, `Broadcast`, `Receive`, `Timeout`, `Cleanup`).
`Free(n)` says that the swarm task of `n` is in its `select!`, the only place where it
serves a command or takes a message; between taking a message (`Deliver`,
`OtherEvent`) and finding room for its event (`Send`) it serves nobody. The event
loop (`HandleRequest`, `OwnPeerId`, `HandleChunk`, `HandleOther`) asks the swarm task
for its own id for every targeted request. Gossip delivers to every subscriber but
the publisher, refuses what a node has seen (equality of topic and content, as the
hash of both), and may lose, delay or double (`Disturb`). Token texts are compared
for equality only. The subscription to the response topic has no effect on the
model: workers publish chunks on `inference/any`, and the code relies on it.

### SolanaProgram and SolanaSettlement

`SolanaProgram` has an action per instruction, its guards the account constraints and
`require!`s; `release_escrow` is open up to `expires_at` and `refund_escrow` after it. Release
and `submit_proof` are one atomic transaction of the adapter's: without a score account the
node is not paid. `SolanaSettlement` sends each call's transaction in two RPCs. The endpoint simulates it
before it takes it (so a release sent before its lock has landed is refused); what it took lands in any order (`Land`) or is lost
with its blockhash (`Expire`). The escrow is `Escrow`'s third implementation. The model calls the adapter as `adapter.rs` describes it; that the
node's own key does not parse is in section 5.

### SuiSettlement and Receipts

A Sui call picks its coins from the fullnode's listing (`PickPayment`, `PickGas`), has
the transaction built on the coins as they are by then (`Build`), and executes it on those
versions or is refused (`Execute`, `ExecuteRefused`). The Move package is not in the repository: `lock_escrow`
takes its coin whole, as the adapter's arguments say.

`Receipts` takes an adapter with a chain by its answers: `Ok` once the endpoint has taken a transaction (`LockTaken`,
`ReleaseTaken`), which the chain executes at some later time or never (`LockSettles`, `ReleaseSettles`: replaced, expired,
reverted), and an error or a lost answer whether or not it has taken one. The free, receipt and Arc adapters are there in full; an
answer of Circle's without an id is given one that Circle does not know (`MadeUp`). `Selects` is the choice: the first of the
node's adapters that the client accepts (`Matching`), or the free one that `ensure_free_fallback` put last. It is composed with the adapters' modules by
these answers only, which are theirs: `EvmSettlement` loses locks that were answered, and reverts every release.

### Conversation, Sessions, ContextWindow, BlobStore

`Conversation` has an action per access of a store: the memory store appends under its lock
(`AppendMemory`), the file store reads, truncates and writes, Redis gets and sets, and a failure,
a hang-up or a restart comes between any two. Entries expire by `TTL`; eviction from files checks an age
and removes the file in two steps. `raced` remembers which keys saw overlapping accesses
without a lock; the properties promise nothing of those, and everything of the others. `Prompted` is what
`trim_context_window` leaves of the history: the walk back from the newest message stops at the first whose tokens do not fit the
budget (`LongestEnd` of `Sums`, as in `InferenceStream`). A `TTL` of zero
means no expiry to memory and files, but Redis refuses every write then (`NoEntry`).

`Sessions` is the manager above blob storage: `PutSession`, `ReadIndex`, `SetIndex` are the
steps of `save_session`, and whether a blob decrypts is whether it is the same key. `ContextWindow` is how a session's messages go to a
model: `Recent` is the loop that `build_context_window` and `split_messages` share, a message is its length in
bytes, a summary the set of messages it tells of. Nothing in the repository calls the two together yet;
the caller modelled does what the head of `summariser.rs` asks: it summarises what a window
came without, with the summary so far. `BlobStore` is the storage
below: `PutLocal`, `Create` and `Fill` are what `tokio::fs::write` does to a file that another
task may be reading, writing or deleting.

### Swarm and Marketplace

`Swarm` follows one node, since registries are keyed by node. `AnnounceTick`,
`DelayedAnnounce` and `Subscribed` publish with the next number; gossip forgets a number after
`CacheTTL` intervals; `Interval` moves time when each of the interval's duties is done. `Stop` and
`Start` restart the node, with its numbers from 0, `ListenerRestarts` a listener.

`Marketplace` has the handler (`Solicit` to `AnswerOffers`), the event loop's routing of requests
(`HearAsk`) and bids (`HearBid`, which drops what finds no room), and the bid engine: `Decide` reads the
load once, `SendBid` again. Offers are sorted by estimated latency; every bid carries the same reputation.
The topic of a model is subscribed to, but `KnownTopic::from_hash` does not know it (`KnownTopic`), so what
comes on it is ignored.

### NodeScheduler, Reputation, InferenceStream

`NodeScheduler`: `ReadDepth` and `Push` are the two critical sections of `submit`; `queue` is the set of the queued
jobs, since a task takes its own job out whatever its place is; `Task(j)` is the spawned
task at each of its locks and awaits, `Panic` a panic in its work. The work is to open a stream; `streams` are those
that callers hold, until `StreamDropped`, with no slot any more. Only the crate's tests submit; the bid engine reads the counts.

`Reputation`: `Record` is one step because its lock spans the flush; `file` is what the last
successful flush wrote, or what is damaged of it. `Restart` loads it: one that does not parse counts as empty
(`FromFile`), one that cannot be read leaves the store in memory (`onFile`). `Self` is the id the store was made with, and only its
tree is asked for a root or a path. The node makes its store with `node.node_id`, which nothing sets, and signs its proofs
with its public key, so of the node as it is wired the properties speak of a tree that stays empty (section 5). Leaves are ids and inner nodes pairs, so verification is exact. `Root`,
`MerkleProof` and `VerifyProof` are recursive functions and folds.

`InferenceStream`: `Accepted` sends what `messages_to_context`, the window and `build_messages` make of the
request: a message has a role, a text that is its place, and a length in bytes, from which its tokens come
(`EstimateTokens`). `Read`, `Send`, `ReadEnd` are the reader's task, `TakeChunk`, `TakeError`, `Answered` the collector. A peer's
collector publishes each chunk through the swarm task (`SwarmAnswers`), which may be stuck for ever
(`SwarmSticks`, the deadlock of `P2PInference`). Ollama
writes (`Emit`), stops in the middle (`StopShort`), or falls silent until the request's timeout (`Break`).

## 3. Runs

All runs use TLC's breadth-first search over the whole state space of the instance.

| run | module / configuration | states | shows |
|---|---|---|---|
| `jobs_memory` | `MCJobQueue` / `MCJobQueueMemory.cfg` | 190 801 | one replica, in-memory store: the gauge never undercounts, jobs are resolved, `GateSpec` |
| `jobs_postgres` | `MCJobQueue` / `MCJobQueuePostgres.cfg` | 516 799 | two replicas over one table: only overdue jobs compensated, orphans only by interruptions, dispatched jobs picked up |
| `jobs_completed_then_failed` | `MCJobQueue` / `MCJobQueueCompleted.cfg` | violation | a completed job is failed |
| `payment_channel` | `MCPaymentChannel` / `.cfg` | 136 162 | the ledger is an escrow; ledger and chain part only by failures; every call returns |
| `evm_settlement` | `MCEvmSettlement` / `.cfg` | 210 183 | conservation, `EscrowSpec`, no double lock, lost locks are races, settlements end |
| `evm_release_unpaid` | `EvmSettlement` / `MCEvmRelease.cfg` | violation | a release that returned `Ok` pays nobody |
| `p2p_inference` | `MCP2PInference` / `.cfg` | 87 314 | answers, collectors, no request executed twice, and that handlers and executions end unless a node is stuck |
| `p2p_heartbeat_stops` | `MCP2PInference` / `MCP2PHeartbeat.cfg` | violation | event loop and swarm task block each other |
| `adapters` | `MCAdapters` / `.cfg` | 354 427 | Solana: solvency, `EscrowSpec`, scores are earned, which transactions fail; Sui: escrows hold their price; receipts are backed |
| `conversation` | `MCConversation` / `.cfg` | 1 498 822 | histories grow by whole turns and prompts get all of their own; sessions and blobs are found again; a model is told of every message |
| `network` | `MCNetwork` / `.cfg` | 412 514 | who is connected is known; the market's offers; the scheduler's counts; prompts and answers; recorded proofs, their paths and their score, through restarts; work ends |
| `merkle_paths` | `MCReputation` / `MCMerkle.cfg` | violation | the path of a single proof does not verify |

### The properties

*JobQueue.* `GaugeNeverUndercounts`: the gauge may leak upwards at a hang-up, never
downwards. `CompensatedOnlyOverdue`, `CompensatedAtMostOnce`, `TimedOutIsPending`: what the
watcher may do. `OrphansNeedInterruptions`: a record left `TimedOut` by nobody costs one
crash or failed call each. `CompletedBeforeSweepIsSafe`: what remains true of "a
completed job is never compensated". `JobResolved` (in memory) and
`DispatchedIsPickedUp` (Postgres): liveness. Permits are conserved by theorem.

*PaymentChannel.* `NonceRaceNeedsDrop`: holding the mutex over the RPCs serialises nonces,
except after a dropped call; `LedgerIsOnChain`: the two orders (chain first for a lock, ledger
first for a settlement) and what they guarantee; `DivergenceNeedsFailures`: what they do not,
one failure for each channel on which ledger and chain part; `EveryCallReturns`.

*EvmSettlement.* `Conservation`: balance and payments equal what open and settled
escrows hold; `LockedAtMostOnce`: no settlement locks twice whatever is lost;
`LostLockWasRaced`: a reported lock or registration that never reaches the chain was displaced by another task's
transaction;
`SettlementEnds`.

*P2PInference.* `CompleteIsGenerated`: an answer that ends with the final chunk is what
the engine generated, less the chunks it repeated (equal chunks are duplicates to
gossip, so "b b" comes as one "b"), with the exceptions: a disturbed network, a full
collector. The run reaches states that need each, and the collapse. `ExecutedOnce`: a request
goes out on two topics and nothing remembers what was executed; yet none is executed twice, because
one of the topics is ignored and gossip drops copies. `CollectorsCoverHandlers`;
`HandlersEnd` and `ExecutionsEnd`, up to `Stuck`, the deadlock of section 5.

*SolanaSettlement.* `Solvent`: each account holds its escrow while locked and nothing after;
`LeaderboardIsEarned`: score and statistics count exactly the jobs that were paid, which rests on
the atomicity of release and proof; `ReleaseFailsOnlyLate`: what the simulation let through
fails for one reason, an expiry in between.

*SuiSettlement, Receipts.* `SuiEscrowsAreRight`: an escrow holds its price unless another
transaction used the coin for gas between picking and building; no coin goes into two escrows;
handles are escrows when nothing fails. `ReceiptsAreTrue`: a receipt names an adapter the client
accepts and what the log has, Circle was asked for or an endpoint has taken, or an id that was made up; money reserved and not passed
on has a failed call, a made-up id, a release that was taken and did not land, or a hang-up to explain it; the log has each job
once. That a receipt names what is there, and that the lock comes before the job, is said by the text and is not so (section 5).

*Conversation, Sessions, ContextWindow, BlobStore.* `PromptsAreRight`: a prompt carries turns of its own
session only, or of one that shares its file (`OwnHistory`; the text knows no such exception, section 5); every turn
answered before it came is in what its handler loads, unless `max_messages` newer ones are, accesses overlapped, or a stated loss
occurred (`ReadYourTurns`); and of that it gets the longest end that fits the token budget (`NoMoreIsCut`). `HistoryOnlyGrows`: every
step leaves a history alone, appends one turn, or drops it for one of the listed reasons.
`SessionsAreUsable`: answered turns are in the blob and in the cache, what the index lists can be
fetched and decrypted, and an answered session is listed under its own key (`SessionsAreKept`); a window is
the longest end of a conversation that fits, `needs_summarisation` and `split_messages` agree with it,
and what it comes without is in the summary unless a summary failed or broke off (`WindowsAreRight`). `BlobsReadBack`: a name that was answered reads back whole, until its
blob is deleted, expires or is torn.

*Swarm, Marketplace, NodeScheduler, Reputation, InferenceStream.* `RegistryIsFresh`: two
calm intervals after a connection, the listener knows what the node offers now, except for as long
as gossip remembers numbers of the node's earlier life; a silent node is forgotten. `MarketAnswers`: one offer
per node, of nodes that can serve, best first; every bid that comes before the deadline is offered, unless the collector
was full or the deadline came before it was read; collectors outlive only a hang-up. `SchedulerCounts`: every slot is free or held by one
task, and none is free while a task waits (`SlotsAreUsed`); the active jobs are those opening a stream, and those that panicked
(`ActiveIsOpening`); the queue is the jobs not yet taken out (`QueueIsAccurate`) and overshoots
by one per other caller at most (`QueueOvershoot`); streams that are being read are of jobs past all of this
(`StreamsOutliveSlots`). The comments of `scheduler.rs` promise more than that (section 5). `ProofsAreKept`: every path handed out verifies its proof
and no other, the first full subtree always has paths; what was recorded survives
restarts unless no flush wrote it or its file was damaged, and stays on a file that could not be read; a score, also one read from
the file, counts the proofs kept and names
the root of the tree. `AnswersAreRight`: the last message is asked last, as the user's, and each earlier one that fits the
budget once, in its place and role; only a last message that is the system's, or a peer's, is asked twice, which the text of the
repository denies (section 5). The client gets its tokens once and in order, all of them when nothing
went wrong. `WorkEnds`: queued jobs are answered or their receipts closed, stream tasks
do not outlive their requests, collectors end, but for a peer's on a node whose swarm task is stuck.

Auxiliary variables (`raced`, `lost`, `known`, `calm`, `life`, `heard`, `turnedAway`, `acked`, `unwritten`, `excused`, `usedBetween`, `marred`,
`stale`, `overlapped`, ...) are declared as such; no guard reads one.

### Bounds, and why they are enough

- *JobQueue:* three requests for two permits fill the gate and refuse one; two
  replicas with a request each, one crash and one failing call give every pairing of
  watchers, handlers and failures on one record; records do not interact except
  through the gate. One tick separates "before" from "at the deadline".
- *PaymentChannel:* two channels; four calls allow lock, release, refund and a
  repetition on one channel, or two on each; one failed RPC and two dropped calls
  allow a dropped call, its late transaction, and a second loss in what follows.
  Costs 1 and 3 against an amount of 2 cover a partial charge and one that is too
  high. Both modes (with and without chain) are initial states.
- *EvmSettlement:* two tasks are what a nonce race needs, two settlements or one and the registration, three escrows let a client
  compete for a request id; amounts 0 and 2 cover the zero check; the account in
  `Rejecting` makes transfers fail.
- *P2PInference:* one request between two nodes, of which the target is the one
  subscribed to the model's topic; home and target may
  coincide; an answer of one token, and one of four with a repetition and three
  different chunks, so that answers can be collapsed and have a hole.
  Channels of one item make "full" reachable with one extra event, where the code has
  256. One fault, hang-up or other event per behaviour: `Bounds` keeps their sum at
  one, which `p2p_heartbeat_stops` shows to be enough for the deadlock.
- *Solana:* two settlements from a wallet that can pay for one at a time, and a client with a
  request of its own; timeouts that end before and after the clock's one tick; one fault and one
  hang-up. *Sui:* two locks and an anchoring over two coins, of which one is too small for a
  lock's gas: coins are shared as payment and gas in every way. *Receipts:* two answers over a
  configuration with every adapter, one with a chain adapter that lacks a setting, and an
  empty one; transactions that land and that are lost; clients that accept nothing in particular, two lists, and none of the node's.
- *Conversation:* three turns of two sessions give two overlapping turns and a later one that
  should see them; a limit of three messages cuts a turn in two; a budget that two short messages fit and the long answer of the
  second turn does not; entries expire after one of two
  ticks; one failure or restart. *Sessions:* two callers, two sessions with the same and with
  different keys, three turns, one failure and one restart. *ContextWindow:* four
messages, of which the longest alone exceeds the smaller budget and two sums meet a budget exactly; two
models, one below the least budget of 512 tokens; one bad summary. *BlobStore:* three calls with two
  contents: equal contents overlap, and a third call comes after.
- *Swarm:* six intervals, where gossip remembers for two and an entry lives for three: long
  enough to stop, forget, start again and be heard. Listeners do not interact. *Marketplace:* two
  bidders for a collector of one place and one request, which asks for a TEE; engines that cannot serve, or differ in slots, price and TEE;
  loads that change between the two reads. *NodeScheduler:* two callers, four
  jobs, one slot, a queue of one: it overshoots. *Reputation:* trees of up to five proofs of the
  node, where the first level that is odd above the leaves appears, and one of a peer; one recorder, since recording is one
  step; proofs come in one order, and those a restart lost in the same; two restarts, of which the first may be without the file and the second with it; a flush that fails, or a file that is damaged or
  cannot be read (`OneMishap`). *InferenceStream:* conversations of up to three messages over every sequence of roles, and of
  four by system and user, each message short or long, with a budget for one long or two short ones; answers of three tokens
  through a channel of one.

`CallsInOrder`, `InOrder`, `Bounds` of `MCConversation` and the order in `MCEvmSettlement`'s
`Bounds` are symmetry by hand; the latter also lets the registration run beside one settlement only, and without
the client. `SYMMETRY` clauses are used in `MCAdapters` and `MCConversation`, whose
runs check no liveness. All action constraints restrict
actions without a fairness condition only (starts, faults, client transactions),
so a behaviour they cut off has an allowed one that is fair in the same way, and the
liveness checks stand. `OneAnswer` in `MCNetwork` lets the engine answer conversations
of one message only: what it answers does not depend on what it was asked.

Counters that are unbounded in the code are bounded in guards by constants whose
comment says "bound": `MaxTime`, `MaxFaults`, `MaxCrashes`, `MaxDrops`, `MaxEscrows`,
`MaxOthers`, `MaxTurns`, `MaxMishaps` and their like. Deadlock checking is off only where the
comment in the configuration says why the system rests.

### Fairness

- *JobQueue:* the clock and the watcher's interval. Nothing of handlers: an engine may
  hang for ever, and liveness must come from the watcher.
- *PaymentChannel, EvmSettlement:* each task is scheduled, and the endpoint answers. The
  second is an assumption on the endpoint: the HTTP clients have no timeout
  (`settlement/src/channel.rs:113`), so without it a call hangs with the mutex held. The
  chain mines the wallet's next transaction.
- *P2PInference:* weak fairness for the swarm task and the event loop (tokio schedules
  runnable tasks) and for the timer. Strong fairness for what needs the swarm task in
  its `select!` (`OwnPeerId`, the handler's commands, `PublishChunk`): the task comes and
  goes there, and `tokio::select!` picks at random among the ready branches, so a command
  that waits again and again is served. It also says that the engine produces the tokens
  it started to; an engine that fails is `EngineFails`, one that hangs is a run that is not
  asked about here. Faults, hang-ups and other events have none.
- *NodeScheduler:* every spawned task is scheduled (`tokio::sync::Semaphore` is a fair queue,
  which the model has as `waiting`). Callers and panics have none.
- *InferenceStream:* the reader's task and the collector are scheduled, a swarm task that is not stuck answers, and
  the HTTP client's timeout fires (`Break`). Ollama promises nothing, which is why the timeout is needed.

The safety runs (`adapters`, `conversation`) assume none, nor do the runs that find a violation, whose properties need
no fairness, but for `evm_release_unpaid` and `p2p_heartbeat_stops`.

## 4. Proofs

Each theorem holds for every value of the constants allowed by the module's named assumption. All of these give the constants
their types (`ConstantsAssumption`, `AdapterAssumption`, `InferenceAssumption`, ...); beyond that they say only:

- the client of a chain is not the node's wallet (`AdapterAssumption`); on Solana the wallets and requests that lamports are
  counted over are finite and of different kinds, as accounts on a chain are (`ProgramAssumption`);
- Sui calls are finite in number, a lock has a price, and a gas budget is at least 2, the least the adapter asks for being
  5 000 000 (`SuiAssumption`);
- somebody submits to the scheduler (`SchedulerAssumption`); a collector of bids has room for one (`MarketAssumption`, 64 in the code);
- gossip forgets a message before a peer's entry ends, and an entry outlives an interval (`SwarmAssumption`: a minute, 10 minutes and 5 seconds);
- a proof has one node (`ReputationAssumption`); what a client asks is a sequence of messages of any roles and lengths, told apart
  by their places, one message when it comes encrypted or from a peer (`StreamAssumption`);
- the values that stand for "nothing" (`Nil`, `None`, `Down`, `NoReceipt`, `NoTx`, `NoJob`) are none of what there is.

All leaves are checked by Z3, Zenon or LS4; nothing is assumed besides.

| theorem | states | inductive invariant |
|---|---|---|
| `JobQueueProofs!TypeCorrect`, `PermitsAreConserved` | `TypeOK`, `PermitsConserved` | `PermitInv`: the two together |
| `JobQueueProofs!GateRefinement` | `Spec => GateSpec` | `PermitInv` |
| `JobQueueProofs!GaugeIsSafe` | `GaugeNeverUndercounts` | itself, with the types |
| `JobQueueProofs!OnlyOverdueCompensated`, `CompletedBeforeSweep` | `CompensatedOnlyOverdue`, `CompletedBeforeSweepIsSafe` | `WatchInv`, with what a record says of its handler |
| `JobQueueProofs!InMemoryTimedOutIsPending` | `TimedOutIsPending`, if `~Durable` | `PendingInv`: a watcher only holds jobs of its own replica, and a `TimedOut` one is its `cur` |
| `JobQueueProofs!OrphansAreInterrupted` | `OrphansNeedInterruptions` | itself, with the types |
| `JobQueueProofs!TimedOutOnce` | `CompensatedAtMostOnce`, if `OneWatcher` | `CountedInv`: the count is at most the overdue jobs that no sweep still has to time out |
| `PaymentChannelProofs!ChannelTypes`, `LedgerIsEscrow` | `TypeOK`, `EscrowSpec` | `IInv` |
| `PaymentChannelProofs!NonceRacesNeedDrops`, `LedgerAgreesWithChain` | `NonceRaceNeedsDrop`, `LedgerIsOnChain` | `IInv` and `ChainInv` |
| `PaymentChannelProofs!DivergencesNeedFailures` | `DivergenceNeedsFailures` | these and `DivergenceInv` |
| `EvmSettlementProofs!AdapterTypes`, `ContractIsEscrow`, `SettlementIsEscrow` | `TypeOK`, `EscrowSpec` of the contract alone and under the adapter | `ContractInv`, `AdapterInv` |
| `EvmSettlementProofs!FundsAreConserved` | `Conservation` | itself, with `AdapterInv` |
| `EvmSettlementProofs!LostLocksWereRaced`, `LocksAreUnique` | `LostLockWasRaced`, `LockedAtMostOnce` | `AdapterInv` and `RaceInv` |
| `P2PInferenceProofs!CollectorsAreThere` | `CollectorsCoverHandlers` | `CollectorInv` |
| `P2PInferenceProofs!P2PTypes` | `TypeOK` | `InferenceTypes` |
| `P2PInferenceProofs!ExecutionsHappenOnce` | `ExecutedOnce` | `InferenceTypes` and `OnceInv` |
| `P2PInferenceProofs!CompleteAnswersAreGenerated` | `CompleteIsGenerated` | these, `CollectorInv` and `AnswersInv` |
| `AdapterProofs!EscrowAccountsAreFunded`, `ProgramImplementsEscrow` | `EscrowsAreFunded` (the first half of `Solvent`), `EscrowSpec` | `FundedInv` |
| `AdapterProofs!SettlementTypes`, `ReleasesFailOnlyLate` | `TypeOK`, `ReleaseFailsOnlyLate` | `LateInv` |
| `AdapterProofs!LamportsAreConserved` | `Solvent` | `FundedInv` and the total |
| `AdapterProofs!LeaderboardCounts` | `LeaderboardIsEarned` | itself, with the types and `TasksPriced` |
| `AdapterProofs!SuiEscrowsHold` | `SuiEscrowsAreRight` | `SuiInv` |
| `AdapterProofs!ReceiptsSayWhatWasSettled` | `ReceiptsAreTrue` | `ReceiptInv` |
| `StorageProofs!ConversationTypes` | `Conversation`'s `TypeOK` | `PlacesInv` |
| `StorageProofs!PromptsAreGivenTheirHistory` | `PromptsAreRight` | `PlacesInv`, `AccessInv`, `OwnInv`, `RedisInv`, `KeptInv`, `KnownInv` |
| `StorageProofs!HistoriesOnlyGrow` | `HistoryOnlyGrows` | the first four of these |
| `StorageProofs!AnsweredBlobsReadBack` | `BlobsReadBack` | `BlobInv` |
| `StorageProofs!AnsweredSessionsAreKept` | `SessionsAreKept` | `SessionsInv` |
| `StorageProofs!WindowsStayRight` | `WindowsAreRight` | itself, with the types and what a window costs |
| `StorageProofs!SessionsStayUsable` | `SessionsAreUsable`, of the two together | the two above |
| `NetworkProofs!SchedulerTypes`, `CountsAreRight` | `SchedulerTypeOK`, `SchedulerCounts` | `SchedulerInv` |
| `NetworkProofs!MarketAnswersRight` | `MarketAnswers` | `MarketInv` |
| `NetworkProofs!SwarmTypes`, `RegistryStaysFresh` | `SwarmTypeOK`, `RegistryIsFresh` | `SwarmInv` |
| `NetworkProofs!RecordedProofsAreKept` | `ProofsAreKept` | `ReputationInv` |
| `NetworkProofs!StreamsAnswerRight` | `AnswersAreRight` | `StreamInv` |

*Permits.* `sem` must not go below zero or above `Permits`, which types alone do not give:
`Admit` tests `sem > 0`, and a handler that leaves adds one. `PermitsConserved` ties `sem`
to the number of handlers inside, so the bound follows from a cardinality. Lemmas
`InsideEntered`, `InsideLeft` and `InsideCrashed` say how that set changes; every action is one
of the three or leaves it alone. The refinement then needs only that a request enters
while `Size(inside) < Limit`, which is `sem > 0` read through the invariant.

*Watchers.* That a job completed outside a snapshot stays completed needs to know who
could still write it: only the handler itself, which is past its write
(`CompletedByHandler`), or a watcher that holds it, excluded by hypothesis. A job can be counted
`timed_out` twice when two watchers share a table; `TimedOutOnce` therefore supposes one watcher
per store, which is what the in-memory store and a single replica have. `PastDue` are the jobs that cannot
be offered to it again, and every count adds one to them.

*Channels.* `IInv` adds to types: what a call waits for (`CallInv`), that the call that
talks to the chain holds the mutex and that the channel it opens is not recorded
meanwhile (`MutexInv`), and that an unsettled channel has paid nobody (`LedgerInv`).
Without `MutexInv`, `Opened` could overwrite a channel, and `Escrow` would see a deal
opened twice; without `LedgerInv`, a settlement would not share out exactly what is held.
`LedgerStep` reduces all actions to the two that change the ledger.

*The chain behind the channels.* `NonceRaceNeedsDrop` is not inductive: a transaction that is
still on the wire may yet be refused. `NonceInv` counts those too (`Doomed`: what dropped calls left
there, and what such a transaction has overtaken) and bounds refused and doomed together by the drops. `WireInv` says
that a transaction is sent once and decided once, `TellsInv` that each settled channel has one call that may
tell the chain of it, `OpenedInv` that what is recorded was opened before. `DivergenceInv` pays for every channel
in advance in the same way: a lock that was left on the wire (`LocksInv`), and a settlement the chain can no longer learn of
together with those a doomed transaction may add (`SettlementsInv`).

*Contract.* `ContractInv` adds to types that an event names a settled escrow
(`EventsInv`), so an escrow that is not settled has paid nobody, and the payments read
off the events are the abstract ones. The adapter changes the contract by its transactions only, whose steps are
contract steps; its own types rest on the pool being finite.

*Locks on EVM.* `RaceInv` follows a transaction from its task to the pool and the contract: what is in the pool was sent by a
task that is past that step (`PoolInv`), the lock and the release of one task have different nonces (`NoncesInv`: so a
task never displaces its own lock, and a lost one needs another's transaction), and a task has no lock in the pool
beside an escrow of its own (`WalletInv`: so there is no second escrow).

*Collectors.* The exception for failed and dropped handlers is part of the invariant:
without it, the code's early return at a failed broadcast would break it.

*Executions.* A request may exist in any number of copies. `Pipeline(n)` is what node `n` has let in and not
dealt with, over the swarm task's hands, the event channel and the event loop: `OnceInv` says that a request is in
there once, came on the topic that is listened to, and is in the gossip's memory, so that no other copy gets in; and that
a request that was executed is in the memory and no longer in the pipeline. The lemmas `TailOnce` and `AppendOnce` say
what taking from and adding to a sequence does to this.

*Peers' answers.* The chunks of an execution are numbered, and the places of those that come through are known beforehand
(`Places`: the last, and each unlike those before it). `Brings(r, tokens, items, lo, hi)` says that of this request `items` holds
what is at the places after `lo` up to `hi`, in their order, and nothing else; `Way` strings the four channels between the engine and the
handler together by one watermark each. A step then only moves a watermark (`WaySends`, `WayDelivers`, `WayPops`, `WayReceives`,
`WayGrows`), whatever other requests' messages are in between. That nothing is refused on the way needs `Unheard` (a chunk in flight is not in the
home node's memory) and `PublishedInv` (what gossip knows of a request was published, and all of it by its target); that the
event loop has a collector for it needs `CollectorInv`; that the engine starts once, `OnceInv`. All of this is claimed only of
behaviours without a fault so far and of requests whose collector never overflowed. `AllCollected` turns a
final chunk into the whole answer: the last place is the length of what was generated, so no place before it can be missing.

*Sums.* A fold over a set is an induction the provers cannot be given. `SumOver(f, S)` is therefore the number of pairs
`<<x, i>>` with `i` in `1..f[x]`: that a sum changes with one of its amounts (`SumAdd`, `SumPut`, `SumRemove`) is then a
fact about cardinalities, and the runs compute the same number. With it `Conservation`, the second half of `Solvent`,
`LeaderboardIsEarned` and `CoinsAreSpentOnce` have a step per transaction.

*Induction.* The library's induction theorems take an operator as a parameter, which none of the provers can instantiate. They
can use that `<` is well-founded on the naturals, which is a statement about sets: `SetInduction` derives from it
that a set with 0 and with every successor has every natural number, and the proofs apply it to the set of those of which
the claim holds. So what the recursive functions of the models compute (Merkle levels, collapsed answers, windows, prompts)
is proved for all inputs.

*Solana.* `EscrowsAreFunded` makes `Locked` and the balance of an escrow's account say the same, which is
what the step to `Escrow`'s `Settle` needs. `LateInv` adds what is known of a transaction the endpoint took:
a release once simulated stays one that succeeds, but for its expiry, since only the payer's refund after that expiry can move the
escrow in between (`SentInv`).

*Sui.* `Fits` is what a call relies on where it is. The coins it chose may be used by others before it builds and before it executes:
`GasAsBuilt` and `PaymentAsBuilt` say that a coin whose version is still the one built with is also still as it was then, which is all the
chain's refusal of old versions has to give. A task pays one unit for the call it leaves (`SpentInv`), so no more coins go into escrows than
there are locks.

*Receipts.* `HandlerInv` is one assertion per stage of a handler, from nothing reserved (`BeforeSettling`) to what holds when the
client has been answered (`OnceAnswered`). That without wishes there is always a receipt needs `select_adapter` to
find something: the least of a non-empty set of configured adapters (`SmallestExists`), or the fallback. What the chain does with a
lock or a release it took may come at any stage, so the assertions speak of what was taken, and only of a release that a landed
one follows a landed lock.

*Histories.* `OwnInv` says of what is stored under a key, read from it or sent to the engine that its turns came on that key;
`WritesStep` and `ReadsStep` list all that a step can write or read, so one argument serves all actions. `AccessInv`
is why a turn is kept: while no unlocked accesses of a key have overlapped, one request at most is between two of them, the eviction
is not at the key, and what that request has read, or found too old, is so still. `StepEffect` then
says of every step that it adds nothing, adds one turn (`Grows`) or drops the history for a reason (`Dropped`); `HistoryOnlyGrows`
and the step of `KeptInv` (who was answered is in the history, or newer messages have filled it) both follow. What of it fits the
token budget is a fact about `LongestEnd` (below, *Windows*). `RedisInv` is needed for keys that
expire: without an expiry Redis takes no entry.

*Blobs.* `TornInv` and `AnsweredInv` give each blob that is not whole its reason; `FillInv` says that the file a
`put` is writing exists, without which a `put` could answer for a file that was deleted under it.

*Sessions.* Callers that cross on one session may lose each other's turns, and the property makes no promise for those. For the others `Copies`
says that the copy a caller saved and the cache agree, `AnswerKept` that the answered turns are there, `Listed` and `Indexed` that whatever
an index names is in storage under the index's key, also an index that is read and not yet written back.

*Windows.* What the messages from a place on cost falls as the place moves on, so the walk back from the newest message stops at
the first place from which they fit (`LongestEndFits` in `SumTheorems`; the two trimmings of prompts and `RecentFits` rest on it); `build_context_window` and `split_messages` share it, which is why
what one leaves out the other summarises.

*Scheduler.* `queue_depth` may be out of date by the time of the push. `DepthIsBounded` counts the callers that were
told there is room with the jobs in the queue; the bound on the queue follows. `SlotsAreUsed` is the conservation law of the
semaphore, with the permits handed to waiters (`WaitersWait`). Streams appear in no invariant: what their callers do has no effect on
the counts, which is why the comments that tie the counts to them do not hold.

*Marketplace.* `SingleInv` follows one bid per node: a request reaches the engine of a node on one topic, once, since the topic of a
model is ignored; a bid is in the air only after its engine sent it and before the collector has it. The sorted offers are
the collected ones in the order of their ranks, which is a permutation; that gives both one offer per node and the best first.

*Registry.* `HeardInv` says of the listener's two calm intervals which message is doing the work: either the registry knows
what the node offers, or an announcement is on the wire which the listener has not seen. `SeenInv` gives the numbers of an earlier
life their age, so they are forgotten when this life has lasted longer than gossip remembers; `SilentInv` bounds the entry of a node that is down.

*Merkle paths.* `ClimbRounds` describes the walk of `proof` level by level; `PathLeadsUp` says that verifying a path recomputes the nodes of
the walk, `HashesTell` that a node of the tree has one pair of children, so that a path verifies no other proof,
and `FullTreeHasPath` that walks inside the first full subtree never meet an odd level. The store's part is bookkeeping:
the tree has the leaves in order of recording, and `FileKeeps` says what a restart would bring back: of the proofs whose recording
returned, those not yet `unwritten` or `lost` are on the file (`OnDisk`), also while the store runs without it.

*Streams.* Every line Ollama wrote has a number. The lines in the answer, the channel, the reader's hands and the response rise, and every one of a later part
is greater than all of an earlier one, so the client gets each once and in order. While nothing has gone wrong, `CountInv` counts them: together
they are as many as were written, so at the end none is missing. For the prompt, the places of the messages that are kept
are enumerated (`Enumerates`); what is sent is the end of them that `LongestEndFits` gives, whose costs add up along the
enumeration to those of the messages it stands for (`SumAlong`), between the system's messages and the prompt.

Every invariant and every safety property that a passing run checks is stated by a theorem. Only model-checked are the liveness properties
(`JobResolved`, `DispatchedIsPickedUp`, `EveryCallReturns`, `SettlementEnds`, `HandlersEnd`, `ExecutionsEnd`, `WorkEnds`), since fairness and
ENABLED are out of the prover's reach. `InMemoryTimedOutIsPending` and `TimedOutOnce` have the hypotheses the table names, and the runs
that check their properties satisfy these.

## 5. What the models found

1. **A completed job can be failed** (`jobs_completed_then_failed`). `sweep` marks the jobs of its
   snapshot without looking at their status again (`node/src/jobs.rs:103`). A handler that
   completes one in between is overwritten, and the job counts as completed, timed out
   and failed. `CompletedBeforeSweepIsSafe` is what does hold.
2. **An EVM release pays nobody** (`evm_release_unpaid`). The escrow id is derived from a
   transaction hash (`settlement/src/evm.rs:667`), the contract counts from 1; the release
   reverts after `release_funds` returned `Ok`.
3. **A node can stop** (`p2p_heartbeat_stops`). The event loop awaits `local_peer_id()`
   (`node/src/daemon.rs:725`), which the swarm task answers; the swarm task awaits room in
   the channel the event loop empties. With that channel full, both wait for ever, and
   heartbeat, announcements and all P2P commands stop.
4. **The path of a single proof does not verify** (`merkle_paths`). `proof` pads the first level and
   `root` does not pad a single leaf (`reputation/src/merkle.rs:67`); the levels above are not padded
   at all, so for 5, 6, 9, ... leaves the path of the last ones indexes past the end.
   `PathsVerify` is what does hold.
Where the code does something else than its text says, and a property states what it does, no run of its own shows the difference;
these are read off the model, and the exception each property makes is theirs:

- *The scheduler's queue is not bounded* by `max_queue`. `submit` reads the depth under one lock and pushes under
  another (`inference/src/scheduler.rs:86-101`), where 3-4 say "Extra requests go into a bounded queue". `QueueOvershoot` says by how much;
  at its mutated form, one more, `SchedulerCounts` fails.
- *Slots and active jobs are not what runs.* "The GPU can only do N things at once" (3), "Remove from active when the caller drops the
  stream" (122), "Number of jobs currently running on the GPU" (131): the slot is free and the job active no more when the stream has been
  handed over, so any number of streams generate at a time, and a panic leaves its job active for good. `StreamsOutliveSlots` and
  `ActiveIsOpening` are what does hold.
- *A prompt is not the user's, or is asked twice.* `messages_to_context` takes the last
  message for the prompt whoever said it, where `node/src/api/mod.rs:318` says "The last user message"; a peer's prompt is in the window and
  the prompt (`node/src/daemon.rs:826-838`), where `inference/src/lib.rs:45-46` calls it "the new user turn". A trailing system message is
  asked twice as well. `AskedAsSaid` says of each where it is.
- *A receipt can name what is not there.* `settlement/src/adapter.rs:43` says "On-chain TX ID". An answer of Circle's without an id is given one
  (`settlement/src/arc_gateway.rs:125-129`); and a chain adapter's `Ok` means that the endpoint took the transaction, which may be lost.
  `ReceiptIsBacked` is what does hold.
- *The lock follows the job.* `settlement/src/adapter.rs:91` says "Lock funds in escrow before the job starts"; the
  handlers lock when they have the answer (`node/src/api/mod.rs:1123`).
- *Two sessions can share a history.* The file store leaves out what is no letter, digit or dash
  of a session id (`context/src/store.rs:195`), where 3 and 43 keep messages by `session_id`. `OwnHistory` names the exception.
- *A second session cannot be saved.* "Load existing index (start fresh on any error)" (`context/src/session.rs:413`): an index
  under another session's key is an error, after the session's blob was stored (`ReadIndex` of `Sessions`).
- *An announcement can repeat an older one.* The sequence number that gives each publish "unique
  bytes" (`p2p/src/service.rs:259-261`) starts again at a restart (463). `ConnectedIsKnown` says how long that can last.
- *The node's root is not of its proofs.* The store goes by `node.node_id` (`node/src/daemon.rs:157`), which nothing
  sets though `common/src/config.rs:91` calls it "Auto-populated", and proofs carry the public key (`node/src/api/mod.rs:139`): once proofs are
  recorded, the zero root will not mean "no proofs have been recorded yet" (`reputation/src/store.rs:29`), and no path will be found.
  `Self` and `NodeOf` are constants, so nothing that is proved of the store is proved of a node wired like this.

Behaviours for which no text of the repository was found that says otherwise:

- *Jobs.* A watcher that dies between its two marks leaves a record `TimedOut`, and `due` leaves those
  out (`persistence/src/job.rs:355`). The gauge leaks at hang-ups.
- *P2P.* Collectors leak at failed broadcasts and hang-ups, and bids' collectors at hang-ups
  (`node/src/api/mod.rs:1273`). Equal tokens are lost to gossip's duplicate cache. The subscription to the
  topic of a model has no effect, since `from_hash` does not know it.
- *Engine.* `run_and_collect` only logs an error of the stream, so a truncated
  answer is sent with finish reason `stop` and its job completed.
- *Settlement.* A lock that fails gives no receipt and no
  other adapter is tried; a receipt carries the lock's transaction even if the release failed. Two EVM
  settlements can displace each other's lock, as can the registration of a starting node, and channels can stay open on the chain without a record.
- *Solana.* The node passes its key in hexadecimal (`node/src/api/mod.rs:1119`) where the adapter reads
  base58, so that `lock_funds` fails before any RPC: what `SolanaSettlement` shows is what holds
  once the adapter is called with a key it can read.
- *Sui.* Payment and gas coin are picked by one rule and are often one coin, which the fullnode refuses; the
  whole coin goes into the escrow; release and refund pass a transaction digest where an object id
  is needed, and fail.
- *Conversation.* An append to an expired entry revives it (memory, files). One long message empties the history of the
  prompts after it, since trimming stops at the first message that does not fit. Appends to files and Redis that overlap lose a turn. With a `ttl_seconds` of 0, Redis refuses every append, and the node only logs it.
- *Sessions.* The manager has no caller in the node.
- *Windows.* A newest message over the budget leaves the window empty. The budget is 512 tokens at least, also for
  a model that takes fewer, and counts neither the summary nor the system prompt. A summary whose stream
  ends early replaces the one before it.
- *Blobs.* A file torn by a failed write is kept by every later `put` of the same contents; `get` does not
  compare the hash.
- *Scheduler.* Nothing in the node submits to it, so bids carry a load of 0.
- *Reputation.* Nothing in the node records a proof or asks for a path. A file that does not parse counts as empty and is overwritten by the next
  flush (`reputation/src/local.rs:108`); one that cannot be read leaves the node without a file until it is started again
  (`node/src/daemon.rs:165-166`). Neither is logged.
- *Swarm.* A registry takes whatever comes last, old or new.

## 6. Not modelled

- *HTTP views, authentication, model resolution:* they read what other components own. `resolve_model` picks a
  model by prefix from a list; no state.
- *x402 and replay protection:* `check_payment` is the verdict of one RPC asked before a handler does
  anything, and keeps no record. The nonce store is asked for a request id drawn at
  random in the line before, so its check-and-set never meets one twice.
- *Redis peer registry:* one `SET EX` or `GET` each, with the answers of the in-memory one.
- *Payment ledger:* a counter behind a lock that spans its write; `record_completed_job` has no caller.
- *Identity, configuration, CLI, health, metrics' rendering, shutdown:* they run once,
  or only read. Parsing, encoding and signing
  are taken throughout for what they are named.
- *Web UI, landing page, deployment; the TypeScript SDK* (a client of the HTTP API; its P2P transport is
  a placeholder in the source).
- In modelled parts: on EVM the adapter's `refund_funds` (no caller), `anchor_hash` (an event) and
  `update_erc8004_reputation` (no caller); in the swarm task Kademlia and identify, and how a connection comes about (one action); the
  latencies in the reputation score;
  `pull_model` and `list_models` of the engine, one request each; `clear` of the context stores and
  `record_win` of the bid engine, which nothing calls; fees, and gas but for what Sui's coins pay.

## 7. Plan

Every component whose correctness depends on the order of events has a module, and all safety properties of the runs are
proved. What could come next:

1. **Start-up and shutdown of the node** (`main.rs`, `shutdown.rs`): the signal every task waits on, and the ten seconds the HTTP
   servers have to drain, against the jobs and streams of `JobQueue` and `InferenceStream`.
2. **`ContextWindow` in the daemon**: the window and its summary are called by nothing yet. When they are, the caller modelled here gives way
   to the one in the code.
3. **The contracts behind the channel and Sui**: with their sources in the repository, the sequence of accepted transactions and
   the coin that `lock_escrow` takes whole become modules, like `DeAIEscrow` and `SolanaProgram`.
