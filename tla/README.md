# Kolme in TLA+

Kolme is a framework for application chains with a single active block producer
(the *processor*), a validator set of three groups (processor, listeners,
approvers), and bridge contracts on external chains that listeners read and
submitters write. This directory models the protocol parts of the Rust
workspace, checks them with TLC and proves the central invariants with TLAPS.

- [What the system is made of](#what-the-system-is-made-of)
- [What is modelled where](#what-is-modelled-where)
- [The modules](#the-modules)
- [The runs](#the-runs)
- [Fairness](#fairness)
- [What is proved](#what-is-proved)
- [Where the code falls short](#where-the-code-falls-short)
- [What is not modelled](#what-is-not-modelled)
- [Plan](#plan)

Source paths below are relative to `packages/kolme/src/` unless they say
otherwise.

## What the system is made of

| Component | State it keeps | Operations | Interacts with |
|---|---|---|---|
| Processor (`processor.rs`) | nothing of its own but secrets; works on the process's `Kolme` | genesis event, producer loop, `add_transaction`, approving bridge actions, `emit_latest` | mempool, store and its construct lock, gossip (failures, latest block) |
| `Kolme` handle (`core/kolme.rs`) | the *current* block snapshot (`MaybeBlockInfo`), the latest signed block, channels and triggers | `resync`, `add_executed_block`, `add_block_with_state`, `wait_for_*`, `propose_and_await_transaction` | every component of the process |
| Execution (`core/execute.rs`) | none; works on a copy of the framework state | checks of version, genesis, height and nonce; one function per message | accounts, bridge state, proposals |
| Mempool (`core/kolme/mempool.rs`) | LRU of transactions, LRU of what it knows to have landed or failed, notification | `add`, `peek`, `add_signed_block`, `add_failed`, `remove`, gossip order | processor, gossip, proposers |
| Validator set and proposals (`core/state.rs`, `execute.rs`) | the set, the chain version, pending proposals with votes | `SelfReplace`, propose, approve, the sweep that executes approved ones | bridge contracts, upgrader |
| Upgrader (`upgrader.rs`) | the version it wants | vote for a pending upgrade or propose one, after every block | proposals |
| Bridge state (`core/types.rs`, `execute.rs`) | per chain: next event, pending events with attestations, pending actions with signatures, the book of assets | `listener`, `approve`, `processor_approve`, `withdraw_asset` | contracts, accounts |
| Bridge contracts (`contracts/cosmos`, `contracts/ethereum`, `solana`) | next event and action, validator set, funds | creation, `regular`, `signed` (`execute_signed`) | users, submitters, listeners |
| Listener, approver, submitter | what each was about to do, in memory only | poll, attest; approve; submit | Kolme by transactions, contracts by queries and calls |
| Gossip (`gossip.rs`, `gossip/websockets.rs`) | connections, what was gossiped, bounded channels | broadcast and rebroadcast of transactions, news of landed and failed ones, requests | mempool, proposers, sync manager |
| Sync manager (`gossip/sync_manager.rs`) | needed blocks with their pending, needed and received layers, requests under way | the step of the gossip loop, received blocks and layers, in four modes | store, `Kolme` handle, gossip |
| Stores (`packages/kolme-store`) | blocks by height, heights by transaction, Merkle layers, archive position, the construct lock | `add_block`, `load_block`, `take_construct_lock`, archive, remote data listener | all the above |
| Accounts (`core/types/accounts.rs`) | accounts, keys, wallets, nonces, balances | mint, burn, keys and wallets, nonces | execution |
| Merkle map (`packages/merkle-map`) | hashed, shared trees; a process-wide cache of locked nodes | insert, remove, clone, serialise, load, iterate | stores, sync, every state |
| Six-sigma (`packages/examples/six-sigma`) | the house, its markets and bets | open, add a market, bet, settle, withdraw | accounts, bridge |
| Latest block (`core/kolme.rs`, `processor.rs`) | at each node, the highest and latest block that a processor has signed to be the latest | `emit_latest`, `update_latest_block`, gossip of it | sync manager, API clients |
| Import and export (`core/kolme/import_export.rs`) | a file of layers and blocks, a stack of layers to write | `export_blocks_to`, `import_blocks_from` | stores |
| API server (`api_server.rs`) | a range that is searched, a websocket per client | `fork_info`, notifications of blocks, failures and latest blocks | stores, `Kolme` handle |

What makes the system hard is that several tasks of a process write its
snapshot; that several processes may share one database and one role; that every
component outside the chain works from a snapshot that is stale by the time its
transaction lands; and that contracts have validator sets of their own that
follow Kolme's with a delay. Everything that crosses from one to another is
retried by somebody who may have crashed in between.

What makes each part correct:

- **Block production**: one chain without gaps or forks; every block is what
  executing its transaction on its predecessor gives, by the key and the version
  the chain asks for; a transaction is included once and in nonce order; each
  snapshot is a stored block and never goes back; what is proposed is settled.
- **Gossip and proposing**: what is proposed reaches the processor whatever
  connections lose; what a call is told is so; signing again executes nothing twice.
- **Sync**: the store never holds half a state; no more is trusted than the mode
  says; the chain arrives, over key rotations and upgrades.
- **Governance and contracts**: a quorum can always be reached; a proposal with
  enough votes takes effect; contracts, in each of their languages, go through the
  chain's sets and only with a quorum's signatures; racing upgraders reach the
  version they want.
- **Bridge**: events and actions are taken once and in order; funds are neither
  made nor lost; nothing a contract has emitted is passed over; deposits are
  credited and withdrawals paid whatever crashes; a chain gets one contract, and
  the quorum adopts that one.
- **Waiting**: who waits for a block, a transaction, a version or a failure is
  woken when it comes, in each kind of process for which the code sees to that.
- **Stores and state**: a node comes up again as it stopped; accounts and the
  application's books balance; equal contents have equal hashes; what one node
  exports another can import.
- **API**: an answer about blocks holds of the chain it was read from; a client
  is told of everything, in order, and nothing that it is told goes back.

## What is modelled where

| Part of the system | Module | Run | Proved in |
|---|---|---|---|
| The ledger that applications see | `Ledger` | `chain` (property `ImplementsLedger`) | `BlockProductionProofs` |
| Processors on one database | `BlockProduction` | `chain`, `live` | `BlockProductionProofs` |
| Triggers and those who wait for them | `Wakeups` | `wake` | `TaskProofs` |
| Mempools, gossip of transactions, proposing calls | `TxGossip` | `told` | `TxGossipProofs` |
| Fetching blocks and states | `StateSync` | `sync`, `left_behind` | `StateSyncProofs` |
| Validator set, proposals, upgrader | `Governance` | `contracts` | `ContractsProofs` |
| The contracts' copy of it, in three languages (on top of `Governance`) | `Contracts` | `contracts` | `ContractsProofs` |
| A link that delivers once and in order | `OrderedLink` | `carry` (property `TakenInOrder`) | `BridgeProofs` |
| Bridge, money, carriers (on top of `Governance`) | `Bridge` | `carry`, `progress`, `confirmed` | `BridgeProofs` |
| Ethereum and Solana listeners | `ChainListeners` | `listeners` | `NodeProofs` |
| Creation and adoption of contracts | `Genesis` | `listeners`, `wake` | `TaskProofs` |
| Accounts; the six-sigma application on them | `Accounts`, `SixSigma` | `store` | `NodeStoreProofs` |
| What a processor writes, and loads after a crash (on top of both) | `NodeStore` | `store` | `NodeStoreProofs` |
| The Merkle map | `MerkleMap` | `store` | |
| The cache of its nodes | `MerkleCache` | `store` | `NodeProofs` |
| Fork-info; import and export; the latest block and the API's websocket | `ForkInfo`, `ImportExport`, `Notifications` | `store` | `NodeProofs` |

Each `MCx` module gives `x`'s constants their values and bounds. Where one
configuration cannot serve two questions, a variable `part` (or a variable of the module
itself, such as the kind of contract, the sync mode, the store) is chosen in
the initial state and never changes, so that a run explores each in turn. That is how
`Genesis` is explored with one listener of each of two kinds beside `ChainListeners`
(`listeners`), and with two that must agree beside `Wakeups` (`wake`), and how `Governance`
is with its upgraders beside `Contracts` (`contracts`, property `UpgradersSucceed`, which is
`UpgradeReached` of that instance): these share no state in a run, and the others are at rest
meanwhile.

## The modules

### Ledger and BlockProduction

`Ledger` is the abstract specification: a sequence to which a valid block is
appended. `BlockProduction` is a set of processor instances that share one
PostgreSQL database. The shared state is the table of blocks, the failures that
were signed, and the construct lock; each instance has its snapshot `current`,
its mempool, what that mempool knows to be settled, and the stage its producer
task is at:

    genesis -> approve -> idle -> waiting -> lock -> resync
            -> construct -> insert -> publish -> advance -> (idle or approve)

One action is one stage of `processor.rs` and of what it calls, cut at the
awaits between which another task or process can step in. `RemoteResync` is the
remote data listener; deliveries by gossip are actions of their own; `Crash`
and `Restart` are allowed `MaxCrashes` times. `Faults` switches on losing the
lock's database session (`lockLost`) and losing the reply of an insert that was
committed (`replyLost`).

Abstractions: the state of the chain is its processor key, code version and
nonces, which is what validity depends on; a block's hash is its height,
transaction and builder; a transaction is one record with the checks it can
fail; the mempool is a set, which covers every order of its LRU queue but not
eviction; a database read that fails and returns an error leaves everything as
it was; a genesis transaction has one name per instance although it is signed
again at each attempt. The transaction key of the table never refuses a block
on its own, since a block with the transaction always has its height taken in
the chain of the inserting instance too; both keys are kept because the mutants
show what each one is for.

### Wakeups

One process, seen from the tasks in it that wait. Adding a block is four
steps, as in `add_executed_block` and the store: the block is stored, the
trigger fires, the mempool learns, the snapshot advances. Waiting tasks
subscribe, look at the store, the mempool or the snapshot, and sleep until the
trigger. There are three kinds of process (`Processes`). One executes every
block. One transfers blocks with their states, in any order: `StoresWithState`
is `add_block_with_state`, which leaves the snapshot alone, and `LoadsNewest`
the resync that moves it, over any number of blocks and without a trigger. One
shares its database with others that write to it, in which case the remote data
listener loads what it finds, without a trigger too.

### TxGossip

Nodes with a mempool each, connected to the processor's node. A call
(`sign_propose_await_transaction`) signs, proposes, waits, and signs again with
the next nonce when it is told that the nonce was wrong. A mempool has `PoolCap`
transactions and remembers `BlockedCap` landed or failed ones; both evict.
Messages are in `net`; a broken connection takes what is under way with it, and on
connecting again each side knows nothing of what it has sent. `HandleTx`,
`HandleNews` and `Rebroadcast` are the handlers of the gossip loop.

Abstractions: the table of blocked transactions forgets *any* entry when it is
full, which covers each order its LRU can be in; messages about the latest
block are left out; a client that misses a block is brought up to date in one
step (`Sync`), which `StateSync` looks at in detail; the processor executes one
transaction per step (`BlockProduction` looks at that).

### StateSync

One node that fetches a chain of `MaxHeight + 1` blocks whose states share Merkle
layers, in one of the four `SyncMode`s. `needed` is what `SyncManager` keeps per
height: nothing, a block that is awaited, or the layers still wanted, pending
and their reverse dependencies. A turn of the gossip loop is one of `DropStored`,
`AskBlock`, `Execute`, `AskLayers`, `FinishState`, ..., chosen as `process_sync`
does; received blocks and layers arrive in any order, more than once. A layer
whose children are all there is written, and those waiting for it looked at, one
layer per step (`climb`), so that a crash can come in between. Others may write to the
same store: a process on the same database, or `ingest_blocks_from`.

Abstractions: peers are honest and have the whole chain; a request is repeated
until it is answered; what a layer contains is its children.

### Governance

The chain executes one message per step: `SelfReplace`, a proposal of each of
the three kinds, or an approval. `CheckPendingProposals` is part of the last
two, as in the code, and what a `SelfReplace` or an executed proposal sends to
contracts is appended to `emitted`. Operators may do these things at any time,
and `Careful` says that they hand on keys to fresh keys only (no role, no vote
in a pending proposal). Upgraders look, send, and learn the outcome in separate
steps, so that what they saw may be gone when their vote lands. They look only when
a block has woken them (`woken`), once, and at the state of that block or the one
before it (`earlier`), since the trigger fires before the state moves; `OtherBlock`
is a block with any other transaction. `sets` records the validator sets the chain
has had.

Signatures are ideal: a message is in the name of the key that signed it. A
transaction with several messages is several steps.

### Contracts

The contract that takes what `Governance` emits, in one of three languages, each
with the order of checks its source has: `CosmosTakes`, `SolanaTakes` and
`EthereumTakes` say whether a call is taken, `CosmosSet`, `SolanaSet` and
`EthereumSet` what set the contract is left with. Any call may be made, with up to `MaxSignatures` approver
signatures, in any order, of the next action or of another; `last` records the
call that was taken. `Carried` is what a call may carry when Kolme has emitted an action:
that action, and on Ethereum, where a new set stands in fields of its own beside
the rendered proposal that was voted for, also a proposal with one of `OtherSets`.
What is said of the Ethereum contract's sets assumes that there is none
(`CarriesEmitted`); what is said of signatures, and of the other two, does not. The
run `contracts` has no other sets: that `QuorumSigned` holds with them is proved. A call's
inner messages that fail leave it as it was.

### Bridge and OrderedLink

`Bridge` extends `Governance` with money and contracts. On Kolme each chain has
its next event, pending events with attestations, actions with approvals and the
processor's signature, and the book `assets`; each contract has its events, its
executed actions, its own validator set and its funds. A listener transaction
is sent in one step and lands in another, after any number of other steps; the
same holds for approvals and for calls of the contract. When the one who sent it
is gone, the message stays in flight as an orphan. Listeners poll all chains,
and one failure ends the listener for all of them; it starts again from the
state of the chain (`get_next_bridge_event_id`).

Approvers and submitters look when a block wakes them (`awake`), once, and that is
before the state moves to the block: what they read is each chain's first pending
action in the state of that block or the one before it (`before`); a submitter, which
reads the state anew for every chain, may read one of a chain and the other of the
next (`Readings`). An approver makes an agenda of what it has read and goes through it
in the order of the chains, each transaction being a block that wakes everyone;
`QuietBlock` is a block that leaves the bridge alone. Listeners poll the contracts
and need no waking.

`OrderedLink` says what both directions promise: what was taken is always a
prefix of what was sent, and grows one by one. It is instantiated twice:
events to `processed`, actions to `executed`.

Events are numbered from 1, as event 0 is the creation of the contract, which
has happened (`Genesis`). There is one asset; `Scale` is the number of Kolme's units in one
of the external chain's, so that amounts can fail to divide. Nonce conflicts are
retried by the code until they are resolved, so they do not appear. The crash
of an approver and the failure of its transaction look the same. `Covered` lets
users withdraw only what a chain's book has (see
[below](#where-the-code-falls-short)).

### ChainListeners

One listener for an Ethereum contract, which subscribes to new logs and polls
in addition (`Hybrid`), with a cursor of block and log index; or for a Solana
program, whose transactions are queried a `Page` at a time. The log of the
contract, what Kolme has settled, what the listener has subscribed to, fetched
and attested to are separate; any pushed log may be lost, any connection may break, and
other listeners attest to the same events, so that an attestation can be
refused. Ids, and not amounts, are what matters here. A log that was shown is not
taken back: reorganisations are left out.

### Genesis

Submitters create a contract for each configured chain, tell of it in a
transaction signed by a key of no account, which the processor drops but which
every mempool shows for a while; listeners attest to what they see there; the quorum
adopts (`VoteLands`). A listener does not ask who has signed what it sees, and its
check of the contract is only logged, so `OthersOffer` lets anyone name any address,
also one that is no contract's. The chain's `SetChanges` go on in between. Whoever is
woken by a block reads the state with it or the one before it (`States`, `before`);
submitters look once per block (`looking`), listeners once per block or change of the
mempool (`awake`). A submitter forgets everything when it stops. An Ethereum or Cosmos
contract can be created any number of times; a Solana program is initialised once.

### Accounts, SixSigma and NodeStore

`Accounts` are operators on the accounts map and its two lookups, with what each
operation requires. `SixSigma` adds the messages of the example application:
market, bet and settlement, with the liability per outcome. `NodeStore` executes a
transaction against the state in memory and writes the layers of its result, the
block and the transaction's height one by one (`Write`); a crash loses what is
not durable (on fjall, any suffix of the journal), and `Restart` loads what is there.
A state is content-addressed: its layers are it. Transactions may be replayed at
any time. `Messages` is the set of what a transaction can say; a run's users send some of them.

### MerkleMap and MerkleCache

`MerkleMap` is the tree with its leaves, branches and the cells that remember
what a node was serialised to; `Insert`, `Remove`, `Clone`, `Serialize` and
`Load` are its operations. `content` is the plain map that the user means. The
base (16 in the code) and capacity (16) are 2 in the run, with two digits per byte as in
the code, so that splits and joins are near. `MerkleCache` is about one hash and the threads that
lock, look up and drop it, with the reference counts and the write lock.

### ForkInfo, ImportExport and Notifications

Three parts of a node that meet in its store only. `ForkInfo` is the answer to
"which blocks have this chain version?": three bisections whose loops read one block
per turn, with blocks added in between (`ForkBlockAdded`). A block is the chain version
of its state. The node may lack blocks (`held`): one that transfers states gets its latest block
without those before it, and may get them later (`ForkBlockFetched`); a loop that comes to a block
that is not there ends the request (`BlockMissing`). `NoBlock` stands below the first block, where the code breaks out of a
loop instead.

`ImportExport` has the two loops of a file of blocks: the exporter's stack of layers
to look at and to write, and the importer's checks that children come first. The file may
be cut off at any record (`ExportBreaksOff`) or within one (`torn`), either node may
stop, and other tasks of the importing node store layers and blocks and resync
meanwhile, between its `has_block` and its `add_block_with_state` too. Records are
read whole or not at all; the exporting node has every layer of its blocks.

`Notifications` follows what processors say is the latest block, with clocks that
differ, over gossip that loses, repeats and reorders, to a client of the API server,
which is told of blocks and failures as well. What is published is what the latest block
is by the time the gossip loop looks, and the same for what the client is told. A client
that falls behind the channel of failures is disconnected.

## The runs

| Run | Question | Bounds | States |
|---|---|---|---|
| `chain` | Safety of block production | 2 instances, genesis by either, a key rotation that one instance cannot follow, an upgrade nobody can follow, lock and replies lost at any time | 270,812 |
| `live` | Is everything proposed settled, are failures judged at the last block, and is the lock exclusive? | 2 instances, a transaction with a height limit; either 1 crash at any stage or an approval | 48,708 |
| `wake` | Are waiting tasks woken? Apart from it: does the quorum adopt one address, whatever is offered? | 2 blocks and 4 tasks on an own database whose blocks are executed; 2 blocks, 2 heights and the version where they are transferred; 3 blocks and 2 heights on a shared database. 1 chain, 2 of 2 listeners, 2 addresses, 1 offer of anyone, 1 stop | 284,813 |
| `told` | Is what a call learns so, and does what it proposes reach the processor? | 1 client, 2 calls that sign twice at most, mempools of 2, 1 broken connection | 74,232 |
| `sync` | Does the chain arrive, complete, and trusted no further than the mode says? | 3 blocks, 4 layers, 2 key rotations, 1 upgrade, 4 modes with and without other writers, 1 crash or failed execution | 86,022 |
| `left_behind` | Are no layers left pending, as the code asserts? | two blocks, the second state referring to the first, one awaited height | violated |
| `contracts` | Do the three contracts follow Kolme's sets, and no other? Apart from it: do racing upgraders reach the version they want, as long as blocks keep coming? | 5 keys in several roles, 2 proposals, 4 changes; calls with up to 2 signatures. 4 keys with an upgrader each, the processor's key handed on once, 3 proposals | 169,610 |
| `carry` | Are events and actions taken once and in order, and funds conserved? | 2 of 2 listeners and 1 approver, a set change that leaves 1 listener and replaces the approver, 2 submitters, a withdrawal that rounds, 1 fault | 1,906,225 |
| `progress` | Is every deposit credited in the end? | 2 contracts, 2 of 2 listeners, 1 fault | 84,519 |
| `confirmed` | Is every withdrawal paid and confirmed in the end, as long as blocks keep coming? | 2 contracts, 1 listener, 1 approver, 1 submitter, 2 faults | 117,021 |
| `listeners` | Is every event found and attested to? Apart from it: does each chain get one contract, to which everyone ends up listening as long as blocks keep coming? | 3 events, a page of 3, 1 crash, any number of lost logs. 2 chains of 2 kinds, 1 listener of each kind, 2 contracts per chain, 1 set change, 1 stop | 198,227 |
| `store` | Does a node come up as it stopped, do its books balance, are equal states equal trees, and what do other nodes and clients get from it? | 2 stores, 5 blocks, 6 and 8 kinds of transactions, 1 crash; 5 keys in 2 maps, 6 ranges; 3 threads on one hash; 3 chains of up to 9 blocks, without and with gaps; 3 blocks of 4 layers in a file; 2 processors, 2 blocks and 2 failures told of | 625,475 |

Why these bounds are enough for what is asked: a fork, a double inclusion or a
snapshot that goes back needs two instances and two blocks after genesis, and
the proofs remove the bound. Two changes of the validator set make one change
wait behind another that was approved under the set before it. Events and actions are ordered
by counters that each step moves by one, so that a second event and a second
action already expose a skipped, repeated or reordered one; two listeners make
one late; a second chain exposes the submitter's preference for the first; one
fault at any step is one retry of everything. A third block would only let a
task miss a trigger the same way again; the last block, after which nothing
comes, is the hard one. For `sync`, the state of one block must share layers
with that of an earlier and of a later one and have a layer two levels deep, and
the height that is trusted must have one below or above it: three blocks. Calls are
told wrongly because of another call with the same key, or because of a connection that was
lost and came again: one of each; the mempools hold what is proposed, for the code does not
promise more (see [below](#where-the-code-falls-short)). A cursor is passed over by an event
behind the one that is being attested to while one ahead of it is known: three
events. Trees of the run have every shape of node and reach a depth of four. A chain of
fork-info has the lengths at which its bisections succeed; a file needs two states that share
layers and one without, over a key rotation; the latest block goes back when two clocks
differ by one.

What each property says is written above its definition. Each property of a
passing run comes with a mutant in `PROJECT.json`: a plausible bug, written next
to the code's own definition (`Insertable_NoHeightKey`, `Crash_KeepsLock`,
`Turn_FirstChain`, ...), with which the same run finds that property violated.

`CHECK_DEADLOCK FALSE` is set everywhere, since transactions, users, operators and faults are bounded: when they are used
up, everything has been done. In `carry` the two submitters are interchangeable
(`SYMMETRY`); the run checks safety only.

## Fairness

- `BlockProduction`: weak fairness of each instance's producer task and of its
  restart. The producer is one task that is always scheduled; whoever runs the
  cluster starts a crashed instance again. Nothing is assumed of faults, crashes
  or gossip. `CrashesAlone` bounds the run `live`: a behaviour has crashes or approvals.
- `Wakeups`: weak fairness of adding a block the network has (where blocks are
  transferred: the newest one and those that a task asks for), or of finding it
  in the shared database; of tasks that can go on; of hearing of failures.
  Nothing makes the network produce another block.
- `TxGossip`: weak fairness of the processor's execution, of each node's loop and
  of its handling a call's messages that are there, of a client's connecting again
  (`websockets.rs` retries every five seconds) and its rebroadcasts (each is on a timer),
  and of each call's going on. Connections break `MaxBreaks` times.
- `StateSync`: weak fairness of the gossip loop's turn, of hearing of the
  latest block (it is broadcast again and again), and of writing what was
  received; strong fairness of receiving blocks and of receiving layers: requests
  are repeated on a timer and peers answer, but what is asked for changes.
- `Governance`: weak fairness of an upgrader that was woken and of its transaction's
  outcome. No fairness makes another block come: `emit_latest` makes none, and a chain
  may be quiet for ever. `UpgradeReached` therefore has the hypothesis that other
  blocks keep coming, `[]<><<OtherBlock>>_vars`, and says nothing of a chain where
  they do not.
- `Bridge`: weak fairness of each component's loop, and of the decision on each
  transaction or call that was sent. `listener/mod.rs`, `approver.rs` and
  `submitter/mod.rs` return with the first error; the applications (see
  `packages/examples`) run them in a `JoinSet` and end with it, and whoever runs
  the process starts it again. Nothing is assumed of users, operators or faults, nor
  that blocks come: `ActionsConfirmed`, which needs approvers and submitters to look
  again, has the hypothesis `[]<><<QuietBlock>>_allVars`; `EventsProcessed`, which does
  not, has none.
- `ChainListeners`: the listener is started again, its loop runs, each
  transaction is decided on, and a connection that lasts for ever is none: it ends some time.
- `Genesis`: submitters and listeners that can go on do, proposals are dropped
  in the end, and strong fairness of a listener's noticing a proposal while it
  is in the mempool: it is repeated as long as nothing has been adopted. That other
  blocks keep coming is a hypothesis of `GenesisCompletes` (`BlocksKeepComing`).

## What is proved

The proofs are for all values of the constants that satisfy the named
assumptions of each module.

**`BlockProductionProofs`.** The invariant is built up in three layers.
`TypeInv` is the type invariant with what the stage of an instance says of its
other variables (an instance that inserts has built a block, the one in
`advance` inserted it). `SafeInv` adds `ChainOK` (the stored blocks are
gap-free, one per height, and each is valid on the one below), that snapshots
are stored blocks, and `BuiltOK`: a block that was built is valid *on some
stored block*, not necessarily the last. That is what makes the proof go
through with lost locks and stale snapshots: the keys of the table decide at
insertion that the stored block it was built on is the last. `BlocksStep`,
`CurrentStep` and `BuiltStep` are the three ways a step can disturb it. From
`SafeInv` follow `ChainIsExecutable` and
`SnapshotNeverRewinds`, and `Refinement`: the cluster implements `Ledger`.
`IncludedOnce`, `ForkFree`, `GapFree`, `NoReplay` and `ReadsChain` are parts of it that
no run needs to check any more. `LockExcludes` has its own invariant and assumes that no
lock is lost; `PoolClean` is local to an instance. `FailuresAreCurrent` assumes that
nothing is lost at all (`Faults = {}`), which is what the property itself asks for: an
instance that is beyond its resync holds the lock (`LockHeld`) and its snapshot is the
last block (`AtTip`), since only the holder can add one.

**`ContractsProofs`, governance.** `TypeCorrect` and `VotesAreKept` hold of every use.
`ContractsFollow`, `QuorumsStayReachable` and `ApprovedTakesEffect` assume
`Careful`. The inductive invariant joins the three with `PendingSetsValid`
(every set proposed is a valid one): a proposal is approved by two groups of
the set it changes, which are the two groups a contract with that set will ask
for, so the contract takes what the chain takes; and a fresh key keeps the size
of its group, so quorums stay in reach and no count of votes goes up. No run
repeats these; `contracts` checks what follows from them for the real contracts.

**`ContractsProofs`, the contracts.** `ContractFollows` and `ContractTakesSigned` hold whatever
operators do, and `ContractTakesSigned` and, on Cosmos and Solana, `ContractFollows` also
whatever calls carry; on Ethereum `ContractFollows` has the hypothesis `CarriesEmitted`. `KolmeGrows` says that
each step of Kolme emits nothing or one action with what a contract makes of it, so that the sets behind a contract stay where they
are (`SetsFollow`), and `SetsAreTaken` that the three languages make the same of an
action. A quorum of signatures is one of keys because counted signatures are
different (`SignersCount`, an injection into the signers). `ContractsAgree` assumes
`Careful`: it takes from the part on governance that a contract accepts what is emitted,
and compares the verdicts kind by kind. `ContractsAreNeverStuck` assumes it too: sets and
emitted actions stay valid (`SetsAreValid`), so that a quorum of the set an action leaves behind
is a quorum for each contract, whichever order and subset of signatures a submitter passes on
(`PassedOn`), and an Ethereum contract that reads them until it has enough finds enough.

**`StateSyncProofs`.** `StoreIsComplete` needs no more than that a layer is written when its
children are there and a block when its layers are; it holds through
crashes because each write is complete by itself. `TrustIsBounded` needs that nothing
is pending at a height that is not trusted (`OnlyTrustedPending`), which is decided when
the block arrives and must survive until the state is complete. `ArchiveIsGapFree` says
that everything below the archived height is stored and that the node runs on the
state of a stored block; it rests on least and greatest heights of the store, which
exist because the order of the numbers is well founded.

**`TaskProofs`, who waits.** `MissOneAtMost` is about a process with a database of its own
that executes every block; where blocks are transferred it does not hold.
There the store is ahead of the state only while a block is being added, and by
that block (`OwnStore`); whoever sleeps without a signal has looked since the last
trigger, which came after the block before was in the state (`Behind`). The constants
are assumed to name different tasks: one that follows the chain does not also
propose or wait for a height.

**`TaskProofs`, contracts.** For `AdoptionHasQuorum` the invariant keeps the votes of a pending
event, the attestations that landed, and the bridge in the config together
(`Ballots`): each attestation counts for an event that is pending still, or has led
to an adoption, so that no listener has two. It says nothing of what is at an adopted address, since
listeners do not insist on it (see [below](#where-the-code-falls-short)). For
`NothingIsCreatedTwice` contracts are counted against stops: a chain whose
submitter knows of no contract has no more of them than there were stops
(`Counted`), except on Solana, where a second one cannot be created and the attempt
ends the submitter. Listeners are assumed to be finitely many.

**`BridgeProofs`.** `TakesInOrder`: both directions of the bridge implement `OrderedLink`,
for any number of chains, listeners, approvers and submitters, whatever operators and users do.
That links are in order is not what the steps look at; it follows from what is kept per
chain (`OverChains`, the conjuncts of `BridgeInv`). For events: those that are
pending at Kolme are the ones right after those that were processed, and are the contract's own,
because an attestation under way names an event that the contract has had and one for the next
event only starts it. Those that have their quorum are taken until one has none, hence a
prefix of the pending ones (`DownwardClosed`, `AscendingInterval`). For actions: a call
under way names an action that was emitted, at its own index, and the contract takes only the
next. A link's step is then an append or a stutter of each chain (`ProcessesInOrder`,
`ActionTaken`, `InOrder`). Nothing is assumed of quorums, signatures or honest operators: those
decide *whether* something is taken.

`FundsAreConserved` rests on that order. What is on its way to an account or out of a contract
is what the events that Kolme has not processed and the actions that a contract has not executed
move (`Uncredited`, `Unpaid`; `WayIs` puts them as a sum over a range of indices). Every step
adds to one of contracts, accounts and what is on its way what it takes from another
(`StepConserves`): a deposit is appended to the events, a withdrawal to the actions, what is
processed or executed is the next stretch of them (`OwedGrows`, `OwedParts`), which only holds
because both are taken in order. The strengthening `MoneyOK` says
besides that amounts are numbers, that only deposits and transfers move funds, and that what
governance emits moves none (`GovernanceEmits`). The equation is in Kolme's units, hence exact:
`Burnt` is a multiple of `Scale` (`WithdrawConserves`). Users and chains are finitely
many (`BridgeAssumption`). The sums are the library's `SumFunctionOnSet`, a recursive function over
subsets; `IterationExists` shows that this function exists on every finite set, by counting up its subsets'
cardinalities in a set of numbers (`AllNumbers`) instead of an induction scheme, and
`SumWithout` that it may begin with any element; `SumAdds`, `SumScales`, `SumJoins` and `SumChanges`
are what the steps use.

**`NodeProofs`.** `ForkInfoAnswersExactly`: each loop has an invariant of its own about what
is outside of its range (`AnyRange`, `FirstRange`, `LastRange`), which holds of
the blocks there were when it began, as long as versions go up; blocks that are added, next to the
latest or further on, or that fill a gap do not disturb it. It speaks of the whole chain, also of blocks that
the node lacks.
`ExportsImport`: the invariant is of the exporter, whose stack has below every layer that is to be
written the work that remains of its children (`Exporting`), so that a file is closed under
children and states at each of its prefixes, hence wherever it is cut off;
and of the importer, which has stored what it has read (`HasRead`), so that checks
of its own never fail. `TellsInOrder`: every latest block that is known, under way or told of exists,
and the client's is the one the server has or one that it replaced (`InStep`).
`DropsNothingUnderLock`: who is in the write lock has the value of the entry in its hands
until it has left, because of the order in which the fields of a lock are dropped
(`StagesOK`, `KeysOK`), and an entry is only replaced under the lock (`StepLeavesHolder`).
`ListenerPassesNothing`: blocks of the external chain never go down along its log
(`ChainOK` there), what a poll has found and not attested to is in its hands until the
cursor moves (`PollOK`), and everything from `next` on lies at the cursor or behind it
(`Ahead`), which also a cursor that is moved by a pushed log keeps. It assumes a contract with
deposits only (`DepositsOnly`; see "Where the code falls short").

**`TxGossipProofs`.** The inductive invariant `GossipInv` says what the signed transactions
and the words about them that are about can be, wherever they are: whatever a mempool has or a
message carries was signed by its call at a nonce that the call has not gone below since
(`Signed`), and whatever is said of a transaction is so (`Told`): it has landed, or its refusal
names a nonce that was expected once. A transaction below that nonce that has not landed by then
never can, since nonces only grow; and a call signs again only when it is told of such a refusal.
So what has landed is always what its call signed *last* (`ChainOK`), which makes
`SignsToExecuteOnce` hold whatever is lost, evicted or forgotten, and of calls that share
a key. Steps are proved by what they spread: `Spreads` bounds what a step newly offers or
says (`BlocksSpreads`, `PutSpreads`, `SendsSpreads`, `MarkingSpreads`), and `StillTrue` that an invariant on
these is kept.

`AnswersHold` has one hypothesis on the run, `[][FailuresKept]_vars`: the processor's table
of blocked transactions forgets no failure, though it may forget what landed. It
cannot be dropped for tables of any size: a failure that has nothing to do with the nonce is final only while it is
remembered (see "Where the code falls short"). Under it every failure that is spoken of is one
that the processor remembers and whose transaction is not in the chain (`FailuresFinal`),
and what the processor remembers it does not execute. That a call which *landed* is right needs no hypothesis; it is
part of `GossipInv` (`CallsOK`).

`AnswersHoldWithRoom` is about tables that are large enough, and has no hypothesis on the run: there are
finitely many calls, and the processor's table has an entry for each call and attempt, as
in `told`, whose table has four for two calls of two attempts. What it rests on is that
nothing else can fill the table: `RoomInv` says that everything a mempool or a table has, a message
carries or a block holds (`Mentioned`) was signed by its call at one of the attempts it has
made (`SignedAt`), and that the table has one entry for a transaction (`OneEntry`), whatever
is broadcast again, comes back late or is told twice. So what the
table knows, with what it is about to learn, goes one to one into calls and attempts
(`HasRoom`), the table is not full when it learns something, and nothing is forgotten
(`RoomKeeps`), which is the hypothesis of `AnswersHold`. The code's table has 1024 entries, and a call
signs five times at most; a network that runs on fills it in the end, and then the theorem with the
hypothesis is what holds.

**`NodeStoreProofs`.** About accounts, the six-sigma application and a processor's store, for all
keys, wallets, markets, odds and transactions (`Messages` has what a transaction may say, amounts
below zero included), any number of blocks and crashes. It has two halves.

The first is about states. `IsState` says that a state is well formed: the lookups lead from the keys and
wallets of each account to it and back (`IsAccounts`), and amounts are numbers. `Surplus` is
what is in the house and with the accounts over what came in. Each operation on the accounts keeps them well
formed and changes the coins by what it says (`Gives`); each message then changes the surplus by
nothing (`MessageFollows`), and so does a transaction (`ExecutedFollows`), where a settlement first leaves
the reserve what the winners do not get, and then mints and withdraws what each gets (`PayFollows`). These are folds
over sequences and sets. A fold is a recursive function that the library obtains with `CHOOSE`; that
it exists is shown as in `BridgeProofs`, by counting up lengths in a set of numbers (`AllNumbers`,
`IterationExists`, `LeftIteration`), so that no induction scheme is needed. `StateBalances` and
`StateSettles` read the books off a well-formed state.

The second is about the store. An entry is `Supported` when what it refers to is there: a block its root
and the block before, a root its layers. `StoreInv` says that the store stays closed under
this however many of the writes that are under way are done (`Sound`), which holds because layers are
written before their root, the root before the block; a crash only decides on such a number. Hence
whatever is left after a crash can be loaded, and it is what was there, because well-formed lookups are
those that `Loaded` rebuilds. `OnceIn` is `ExecutedOnce` of everything that is durable, in
the journal or still to be written: a transaction that is found is not built into a block,
and what is not found is in no block but in the one case that the property names. None of this depends on the
order that `SetToSeq` chooses.

`OnlyOnce`, `AlwaysRecovers` and `NoCoinIsLost` assume nothing but the modules' assumptions.
`BooksAlwaysBalance` adds that markets can be settled and assumes `NoDust`: every bet that users
send returns something the external chain can express. Without it the code breaks it: a winner whose payout
rounds to nothing makes `SettleMarket` fail (see "Where the code falls short"). It holds in `store`.

**Model-checked only.** Everything under fairness: liveness is beyond the prover.
`SameEntriesSameHash` and `IteratesInOrder` are about trees that are recursive operators,
which need an induction over data, and are out of the prover's reach here.

## Where the code falls short

One disagreement is a run that TLC must find violated, `left_behind`: while a node
collects the layers of one block's state, and a layer it has received waits for a child,
another task asks for an earlier block, whose execution stores that child. Back at the
later block the child is dropped from what is needed (`layers_to_drop`) without looking
at the layer that waits for it, and nothing is wanted with a layer pending;
`debug_assert!(pending.pending_layers.is_empty())` at `gossip/sync_manager.rs:413` says
that this cannot be. Without assertions `add_block_with_state` fails, as the trace's
last step does, and the block stays the first one needed for as long as nobody else
stores it.

Others were met on the way. They explain why some properties are stated the way
they are.

*Governance and contracts*

- A key may replace itself by a key that is already in its group
  (`core/execute.rs:721`): the group shrinks and the emitted action is refused by
  the contracts. With `Careful = FALSE` and such a pair in `Replacements`, the run
  `contracts` shows it. The Ethereum contract alone accepts a replacement by itself.
- A replacement by a key that has voted already can complete a proposal that
  nobody looks at then (`core/execute.rs:743`).
- The upgrader's loop skips upgrades to other versions only, and so votes for
  pending proposals of other kinds (`upgrader.rs:63`; see `Considered`).
- `processor_approve` checks signatures against Kolme's *current* set, while a
  contract has the set that the actions before led to. When a second change
  follows before a contract has executed the first, the first is signed by keys
  the contract does not have, and blocks all actions behind it
  (`core/execute.rs:432`, against `docs/src/technical/external-chain-resilience.md:28`).
  `NextIsAccepted` therefore speaks of signatures of the set the action leaves behind.
- The Ethereum contract refuses a new set one of whose votes is of a key that has
  left since (`BridgeActions.sol:370`): `Acceptable`. It counts the votes over the rendered
  proposal (`BridgeActions.sol:332`) and does not compare that with the set it installs,
  which the other two read from the proposal itself: hence `CarriesEmitted`. Only that contract looks
  whether a new set is valid, and only that one does not ask for the signature of
  the key that replaces itself.

*Bridge*

- A withdrawal that is rounded charges the book with the unrounded amount
  (`core/execute.rs:566`), so that a chain's book and its contract drift apart.
- `ChainState::withdraw` subtracts signed numbers, so a chain's book can go below
  zero and the action can never be executed (`core/types.rs:453`; hence `Covered`
  in `progress`). `docs/src/technical/failed-transactions.md` lists the queue for
  such transfers as not implemented.
- A set change that gives a pending event its quorum leaves it pending until the
  next attestation (`core/execute.rs:250`).
- A deposit of zero, or one too large, makes the listeners' transactions fail
  (`core/types.rs:652`), and with them the listeners.
- The Ethereum listener knows `FundsReceived` only, but the contract's executed
  actions take event ids too (`listener/ethereum.rs:55`): after the first of them the
  listener waits for an event that it never recognises. `MCEventKinds` gives that contract
  deposits only. With `Hybrid = FALSE`, events missed by a subscription are never
  read. The listener attests to the latest block, not to a final one. The Solana
  one is limited to what a query returns, hence `Page` is as large as `MaxEvents`.
- `wait_for_contracts` takes an address from any signer's transaction in the mempool
  (`listener/mod.rs:132`), so that one that is no contract's may be adopted: `AdoptedByQuorum`
  says nothing of what is there. `submitter/mod.rs:301` says that listeners attest "if
  they're satisfied with our generated contracts"; `try_new_contract` logs a failed check and
  attests anyway (`listener/mod.rs:220`). A contract created after a set change has the current
  set, while the change is queued for it and will be refused. A submitter that
  stops between creating and being adopted creates a second contract; when listeners
  have attested to different ones, neither is adopted (`core/execute.rs:220`):
  `GenesisCompletes` is about chains without such an orphan. A Solana program cannot be initialised again.

*Block production and waiting*

- A transaction whose failure was announced can still land through another
  instance that holds it (`processor.rs:208`): `FailureJudgedAtTip` is what holds.
- The trigger fires before the block becomes the process's state
  (`core/kolme.rs:519` and `529`), so that an approver, upgrader, submitter, or whoever
  waits for a contract, that wakes at once reads the old state and sleeps until the next
  block. On a chain where none comes, an approval, a call, an upgrade or an
  adoption is left undone: `ActionsConfirmed`, `UpgradeReached` and `GenesisCompletes`
  have the hypothesis that blocks keep coming, and without it TLC finds each of them
  violated. `FollowersMissOneAtMost` is what holds by itself, and only where every
  block is executed: `add_block_with_state` (`core/kolme.rs:569`) triggers without
  moving the state, and the resync after it (`gossip/sync_manager.rs:425`) moves it over
  any number of blocks without a trigger. The trigger also fires before the mempool knows
  of the block (`core/kolme.rs:521`): a proposer that looks in between sleeps until the
  next block or its timeout.
- A latest block replaces an older one only when it is both as high and signed later
  (`core/kolme.rs:141`): after a failover, what a processor says whose clock is behind
  is refused by the others until its clock has caught up.
- The remote data listener loads a block without firing the new-block trigger
  (`core/kolme.rs:1260`): `VersionArrives` is about a process with its own database, and
  `WaitsEnd` about one that executes every block where it speaks of transactions.
  `wait_for_tx` waits "until the given transaction is published" (`core/kolme.rs:781`),
  but unlike `wait_for_block` it has no timeout: on a shared database, once it sleeps, it
  does not see what another process writes. With `SharedDatabase` waiting for `Tx(t1)`
  and `WaitsEnd` without its condition, `wake` shows it.
- A mempool with room for one transaction can lose what a call waits for
  (`core/kolme.rs:286`), and a small table of blocked transactions forgets a failure
  that a call was told of (`core/kolme/mempool.rs:141`): set `PoolCap` or `BlockedCap`
  to 1 in `told`. Marking a transaction as gossiped promotes it in the LRU.
  A message with a wrong processor signature is only warned of.

*Sync*

- `ValidateFrom` does not fill gaps above the height it trusts
  (`gossip/sync_manager.rs:296`). `add_block_with_state` compares the signer with the
  processor of the state the node has, so that a transferred block beyond a key
  rotation is refused until the node has caught up with it, and `ingest_blocks_from`
  fails over a rotation. `ChainArrives` therefore speaks of archives and of nodes that
  execute every block; `StateTransfer` gets the latest block where the key stays.

*Stores, accounts, application, Merkle map*

- A crash of a fjall store between the block and its transaction's height leaves
  a transaction that is not known to have been executed (`fjall.rs:154` in
  `packages/kolme-store`). If its key then moves to an account with a lower nonce, it is executed
  again: the exception in `ExecutedOnce`. Nonces alone do not prevent it.
- `AccountId::next` wraps around (`core/types.rs:816`): with `IdSpace` at the number
  of accounts, a newcomer joins the first account.
- In the six-sigma example, bets on a settled market are lost (`late`), a bet too small to pay
  out anything makes `SettleMarket` fail, and `SendFunds` credits the house without
  taking from the sender, also a negative amount. The run bets and sends what is free of the latter two.
- Cloning a map that was not serialised makes the copies share the cell of their
  nodes, and the first to be serialised gives its hash to the other
  (`packages/merkle-map/src/impls/lockable.rs:29`, against
  `docs/src/technical/storage.md:36`): `store` with `CloneUnserialized = TRUE` violates
  `SameEntriesSameHash`. The framework clones only what is serialised.
- Dropping the key of a cache entry that another thread has entered again removes the
  new entry (`lockable/locked.rs:52`): only the caching is lost.
- `increasing_middle` fails on a range of one block, while the loops of fork-info go on until the
  range is empty (`api_server.rs:267`): a chain of fewer than seven blocks never gets an answer, and of
  longer ones few pairs of chain and version do (`1 1 2 2 2 3 3` asked for 2 is one). The CLI
  offers fork-info without such a limit (`packages/kolme-cli/src/main.rs:29`). Hence
  `lower # upper` in `ForkInfoIsExact`.
- A node that transfers states lacks blocks below its latest one, and a loop of fork-info that comes
  to such a block fails the request (`api_server.rs:212`), also where other blocks would tell. Hence
  the request's end as `"missing"`, of which `ForkInfoIsExact` promises nothing.
- The import checks a block's signer against the node's current block, which it does not move
  (`core/kolme/import_export.rs`): a file that spans a rotation of the processor's key fails at the first
  block after it, until the node resyncs or is restarted. A block that another task adds between
  `has_block` and `add_block_with_state` fails the import as well; an export without an upper
  bound ends in an error at the first block that is not there, before it is flushed.
- A client can be told of the same latest block twice, when it changed between the notice and the look.
- The in-memory store's `clear_blocks` and `delete_block` leave their hashes behind.

## What is not modelled

- The channels between the tasks of a node (8, 16 and 100 entries), in particular
  that the gossip loop can wait for itself when it inserts more blocks in one turn
  than the channel of landed blocks holds (`core/kolme.rs:522`); peers that lie;
  kademlia discovery.
- `wait_account_for_wallet`, `wait_account_for_key` and `wait_for_bridge_event`, which
  poll as `wait_for_tx` does; data loads of applications and their validation.
- Token accounts and calls of other programs in the contracts; queries; what a
  migration does. Reorganisations of external chains.
- The cache of serialised bytes, `pop_first` and the streaming of layers in the
  Merkle map; the in-memory store; clearing a store.
- The endpoints of the API server that return what is in memory or in the store, or pass a
  transaction on; the CLI, the pass-through bridge,
  the other examples, metrics and deployment: input and output around the protocol, or
  stand-ins for what is modelled. Cryptography and serialisation: taken as ideal.

## Plan

1. Done: the modules above, their runs, and the proofs of block production,
   governance and the contracts, the bridge as two ordered links and its money, sync, wake-ups, the
   creation of contracts, transactions and their answers, the Ethereum listener, the Merkle cache,
   fork-info, import and notifications, accounts and the application's books, and a processor's store.
2. Models still worth adding: the bounded channels of the gossip loop; data loads of
   applications.
