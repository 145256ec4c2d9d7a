# A TLA+ model of tie-core

tie-core is a blockchain node: proof-of-stake validators agree on blocks with
an IBFT protocol whose proposer is drawn from the VRF seed of the head block,
execute them with an EVM, and keep them in a key-value store. This directory
holds TLA+ modules for its core, the configurations that TLC checks them with,
and proofs that TLAPS checks. `PROJECT.json` lists the components, the runs,
the mutants, the source lines behind every definition, the findings, the
hazards and the theorems.

## The system

| part | source | model |
|---|---|---|
| consensus state machine, message queue, quorums | `consensus/pvbft/{ibft,state,msg_queue,validator}.go` | `Ibft`, `IbftFaults` |
| snapshots of the validator set, PoS hooks | `consensus/pvbft/{snapshot,pos}.go` | `Snapshots` |
| block rewards | `consensus/pvbft/blockreward.go` | `Rewards` |
| header hash, extra data, seals; RLP encodings; signers | `consensus/pvbft/{extra,sign,header_hash}.go`, `types/`, `state/txsigner.go` | `Encoding` |
| roots of lists | `types/calcroot/` | `CalcRoot` |
| blockchain and storage | `core/blockchain.go`, `storage/` | `Chain` (writes), `Queries` (reads) |
| event subscriptions | `core/subscription.go` | `Filters` (the stream), `Chain` (which heads are announced) |
| transaction pool | `txpool/` | `TxPool` |
| syncer | `syncer/` | `Syncer`, which implements `CatchUp`; its effect on a chain in `Ibft` |
| p2p server, identity, dial queue, discovery | `p2p/{server,identity,dial_queue,discovery}.go` | `Peers`, `Dial` |
| gossip | `p2p/gossip.go` | a lossy network in `Ibft` |
| filters | `rpc/filter_manager.go` | `Filters` |
| JSON-RPC, eth endpoint, log queries | `rpc/{dispatcher,codec,query,eth_endpoint}.go` | `Queries` |
| executor, fee pool, reward lock | `state/{executor,fee_pool,reward_lock}.go` | `Executor` |
| state transaction | `state/txn.go` | `Txn` |
| state trie | `state/trie/` | `Trie` |
| EVM, precompiled contracts | `tievm/evm/` | `Evm`, `Word`, `Precompiled` |
| backup and restore, sync progress | `archive/`, `server/system_service.go`, `common/progress/` | `Archive` |
| commands, secrets, metrics, helpers, contracts, operator services | `cmd/ core/nodekey/ metrics/ common/ contracts/` | not modelled, see the components |

One goroutine (`Ibft.start`) runs consensus: it syncs, proposes, validates,
inserts. Gossip handlers push into its message queue. It takes transactions
from the pool, executes them, writes blocks into the blockchain, broadcasts
them through the syncer and resets the pool. The blockchain's events reach the
pool's, the syncer's and the filters' goroutines, and RPC handlers read the
storage meanwhile. The models follow these seams: `Ibft` has the chain of each
validator as a sequence of blocks, `Chain` what one such insertion does to the
storage, `Executor` what one block does to the accounts and `Trie` how the
accounts are kept, `Encoding` what a block goes through between two nodes,
`TxPool` what building and inserting do to the pool, `Filters` what becomes of
the events and `Queries` what a reader sees between the writes.

## Modules

### Ibft

One record of variables per validator, as in `currentState`: `state`, `view`,
`block`, `locked`, the round change tallies, and its chain; and the sets of
messages that have been gossiped. A message that is in a set may be read late,
in any order or never. Every action is the code between two points where the
goroutine waits:

* `SyncNoPeer`, `BulkSync`, `BulkSyncFails`, `LeaveForSync`,
  `AcceptOutOfSequence`: `runSyncState` and the ways into it;
* `Propose`, `BuildFails`, `AcceptLocked`, `AcceptProposal`, `RejectProposal`,
  `AcceptTimeout`: `runAcceptState`;
* `ValidatePrepared`, `InsertBlock`, `InsertFails`, `ValidateTimeout`:
  `runValidateState` and the code for CommitState, with `insertBlock`;
* `StartNewRound`, `CatchUpRound`, `CountRoundChange`, `RoundChangeTimeout`:
  `runRoundChangeState`.

A step into AcceptState or RoundChangeState includes the head of that state's
function. Prepare and commit tallies are not variables: only the read that
crosses the threshold changes anything another step can see, so its guard asks
that the messages have been sent. RoundChange messages are kept in queues,
because there the order of reading decides (`num == NumValid()` is an equality).
Blocks are records of height, round and builder with a kind: one whose header
is refused, one whose body cannot be executed, a good one. `ProposerOf` is any
function of the head block, as in `calculateProposerHook`, which does not look
at the round. A validator that stops for ever is one that takes no more steps;
no fairness is assumed.

`Spec` has the consensus steps, `SpecSync` also syncing after the start.
`IbftFaults` adds at most `MaxFaults` faults: a restart that keeps the chain
only, a sync peer that is gone, an insert hook that fails after the write. Its
history variable `resumed` says that some validator has left SyncState at a
height where it had already proposed or sealed, or with a lock, which
`runSyncState` does at round 0 whatever was said before.

Left out: changes of the validator set (see Snapshots), durations,
signatures (a message has the sender it claims), validators that deviate from
the code.

### TxPool

Accounts with their enqueued and promoted queues and next nonce, the lookup
map, the slot gauge with its unsigned width (`GaugeMod`), and the goroutines
that `addTx` starts, each with its program counter: the locks make
`account.enqueue`, `promote`, `Pop`, `Drop` and `resetAccount` atomic, and
whatever is between two locks is a step of its own. The consensus loop builds
a block (`Prepare`, `WriteTx`, `DropTx`, `FinishBlock`), writes or abandons it
(`InsertOwn`, `AbandonBlock`) or writes another validator's (`InsertOther`), and
then resets the pool (`ResetWithHeaders`); callers and handlers run in between,
with the nonces of the new head. A caller that finds no account reads the nonce
of the state, stores the account and initialises it in three steps (`AddTx`,
`StoreAccount`, `InitAccount`): `LoadOrStore` publishes an account before its
queues exist, and who meets nil queues panics (`Panic`); a second caller may get
past `exists` meanwhile, and the nonce that was read may be old when it is set.
A queue is a sequence in heap order: a push is after the entries of a lower or
equal nonce (`Pushes`), and prune and promote cut it where the nonces say so
(`Stale`, `Kept`, `Pruned`). Fairness: weak fairness of the handlers, for a
goroutine that can run runs in the end; none for callers and none for consensus.

### Chain

One node's database as one field per key prefix, the head in memory and the
list of updates the running call has still to make (`todo`). `WriteBlock` and
`ComputeGenesis` compute that list in the order of the code; `WriteKey` makes
one write, and at any point the next write may fail (`WriteFails`, the call
returns and the node goes on from memory) or the process end (`Crash`). The history
variable `refused` says that some write has failed. A block
is its path from the genesis block. Only valid blocks are offered, so the
difficulty of a block is its number (`verifyHeaderImpl`); a block may be written
again, which the code does not refuse. The header and difficulty caches hold
what the storage holds and are left out, as is the moving average of the gas
price.

### Filters

The event stream (`Push`, `GetEvent`, `Wait`: a linked list and a channel per
reader) and the filter manager: its map, its heap of deadlines with the index
every filter keeps (`Less`, `Swap`, `Pop` from the source, the rest from
container/heap), the block stream, and the goroutine `Run` with the points
where it is between a decision and a wait. Time is the order of deadlines:
filters are numbered as they are added, all timeouts are equal, and a timer may
fire whenever it has been started. Clients add, poll and uninstall; a
connection may break while updates are sent (`Cut`, at most `MaxCut`).
`Uninstall` of a filter that is not there returns with the lock held, which the
variable `locked` records: nothing that needs the lock runs after that.

### Peers

Connections, each with the program counter of its ConnectedF callback and its
handshake goroutine; the pending map and its counters, the map of peers and
`inboundConnCount`, read and written in the steps of the code; the phases of
`Start`, because ConnectedF is registered before and DisconnectedF after the
server begins to dial. libp2p is external: it opens and closes connections,
and calls DisconnectedF after ConnectedF has returned. Fairness: a handshake
that can go on does (`HandshakeGoesOn`). Hello has no deadline: on a connection
that is gone it fails, and while the peer is connected it may take for ever.

### Dial

The dial queue, `runDial` with the two points where it is about to wait, the
events on their way to it (`notes`) and to the join watcher (`events`), and the
calls of Join from the request to their return. A handshake is two or three
steps here. Join with a timeout of 0 returns once the task is queued; the other
calls wait for the watcher. The join watcher sends while it holds the lock
(`sending`). Fairness: of the loop, the handlers and the timers of Join, and none
of handshakes, which end when the peer answers.

### Syncer and CatchUp

The syncer of one node with the goroutines that meet in it: the consensus loop
(`StartBulkSync`, the binary search, the skeleton and its slots, `WriteNext`,
`PopBlock`), `handlePeerEvent` (`AddPeer` in three steps, `DeletePeer`), the
handlers of Notify, and remote nodes whose chains fork and grow while they are
read. A chain is a head, the blocks that are stored and the index of canonical
hashes by number, which after a reorganisation of more than one block has hashes
of the chain that was left (see `chain_reorg`); what a remote node answers comes
from that index. `BulkSyncWithPeer` is one step for each request and each write. A
connection may be lost at any moment (`MaxLosses`), and a remote node may stop to
answer with its connection open (`GoesMute`): the requests have no deadline.
Fairness: the three goroutines of the node keep running, unless they wait for
such an answer (`Returns`); remote nodes owe nothing. `CatchUp` is the
promise runSyncState relies on: a session that returns without an error has
reached the height the peer claimed, the chain gets no shorter, and sessions
end in which the peer answers. The mapping takes the height of the local head, the
last target, whether a session runs and whether it hangs.

### Executor, Txn, Evm, Word, Precompiled

`Executor` builds a block from a pool (`writeTransactions`, `Write`, `apply`, the
reward) and processes what was built, or a block from elsewhere, from the same
parent. What a validator may withdraw is memory of the process (`ValidatorFee`),
filled at the ends of the epochs it has seen: the block may be processed by a
process that remembers other fees than the proposer's (`FeeMemories`). A step is one
instruction, the entry of a call or the return from one. `Evm` is the
interpreter with every instruction of the dispatch table, its gas, memory and
fork checks; `Word` the arithmetic on words of `WordBytes` bytes, a constant so
that wrapping happens within reach; `Txn` the state with objects, slots, logs,
refunds, snapshots and reverts; `Precompiled` which contract exists under which
fork, its gas and its result, those of curves and hashes being a constant.
Addresses of new contracts and hashes are constants, too.

### Trie and CalcRoot

`Trie` keeps nodes in a heap, so that tries share them as in the code: a branch
is changed in place when its epoch is the transaction's, references are
replaced by the nodes loaded for them, `Commit` writes what has no hash yet.
`Evict` and restarts empty the cache. A hash is the encoding it is made of.
`CalcRoot` is the hasher that writes the encoding of a list's trie directly into
a buffer it takes from a pool, and the slow path that builds the trie; the radix
is scaled from 16 to 4, and with it the 128 items that have keys of one byte.

### Encoding

A block from its proposer to another node's database: `BuildBlock`, the seal
with the VRF value, any number of trips through the wire format, the committed
seals, the store format. A byte string is a length and its content, hashes and
signatures hold what they were made of, so that a field left out of a hash, or
put back in another place, is visible.

### Snapshots and Rewards

`Snapshots` is the list of validator sets with find, add and replace, the two
files it is saved to on Close, and the hook that reads the next set after an
epoch. A start loads the files (`Start`) and has setupSnapshot process the headers
the store lacks, one step each (`Replay`, `Replayed`). Crashes, failed writes and
failed hooks come at any point (`MaxFaults`); `torn` remembers that the two files
were saved around a block, or with a header that has no block. `Rewards` is every
proposer's own account of the reward quota, in memory (where `remaining` is a
pointer into the list) and in its database.

### Archive

The Export stream with its buffer, the client that writes the file, torn by
signals, lost streams and crashes; and the restore at the start of another
node, as often as it takes, with the progress wrapper and the goroutine of its
update loop. WriteBlock verifies the seals of a block against the validators of
the snapshot, which the insert hook moves at the end of an epoch; a restore does
not run the hook, and `stale` says that the snapshot has not the set of the next
block. `Changes` are the blocks after which the old set is not good enough.

### Queries

The reading methods of the eth endpoint, each read of the store a step of its
own, while another goroutine writes blocks: decoding of block numbers and log
queries, transactions, receipts, blocks, nonces, balances, logs, and the search
of EstimateGas between the ceilings of the call, the block, the balance and the
gas cap. That more gas never makes a transaction fail is an assumption
on contracts, as in the code.

## Runs

Parts that share no state are checked in one run: `part` says which of them a
behaviour is about, the others stay in one state.

| run | instance | shows |
|---|---|---|
| `ibft_n4` | 4 validators, 1 height, 2 rounds, all kinds of block; 3 validators (F = 0), 3 rounds | no fork, seals and locks rest on prepares, locks are kept, views grow; `IndInv` is an invariant |
| `ibft_faults` | 4 validators that sync, 2 heights or 2 rounds, one fault of any of them | agreement is lost only after a validator has resumed |
| `txpool` | 1 account, 3 transactions of which two are rivals, 2 handlers | executables stay promoted, the gauge balances; an expected head of the queue is promoted in the end |
| `chain` | two rival chains of 1 and 4 blocks, any errors, crashes and restarts | no panic unless a write was refused before, announced heads survive, the head only improves |
| `syncer` | one peer with a chain that forks and grows, one lost connection, answers that do not come | the search finds the latest common block, dead peers leave, no panic while connected; the node catches up, and the session implements `CatchUp` |
| `network` | `Peers`: 3 connections of 2 peers, one slot each way. `Dial`: 2 peers, 2 calls of Join for one of them, one slot. `Filters`: 3 filters for logs and blocks, polled and by websocket, 2 events of which one is a reorganisation | peers in the map are connected or about to go, and no peer stays pending; tasks are served and calls of Join return; nothing is lost or delivered twice, events arrive and filters go, but for the named races |
| `state` | `Executor`: pools of one to three transactions over fifteen contracts, with nested calls, creations, withdrawals and failures, at several gas limits and five fork sets. `Trie`: 3 commits of 9 blocks on any earlier state. `CalcRoot`: pairs of lists of up to 10 items | value is kept, static calls change nothing, failed transactions only pay, built blocks are accepted; committed tries never change, equal contents have equal roots; both ways to a list's root agree |
| `node` | `Encoding`: blocks of up to 2 transactions with 4 validators, sent or stored twice. `Snapshots`: 3 blocks in epochs of 2, three sets, 3 faults, 3 starts. `Rewards`: 2 proposers, 3 periods, a restart. `Archive`: 3 blocks, a file restored twice. `Queries`: 3 blocks written while a query runs | sealed blocks are accepted anywhere; the right set after any crash, and starts succeed; the quota is kept; a restore resumes and its progress is never nil; answers are on the chain, logs are exact, estimates are least |

Runs that end in a violation, each with a finding that quotes the repository:

| run | the code does |
|---|---|
| `ibft_restart` | a restarted proposer has no lock and proposes again in a used view: two blocks at one height with 4 validators and one failure |
| `ibft_stale_lock` | a lock kept through SyncState lets an old block be inserted again, and the view does not advance |
| `chain_reorg` | a reorganisation deeper than one block leaves old canonical hashes |
| `node_estimate` | when even the gas cap is not enough EstimateGas answers the cap plus one: the check for that case compares with the cap after the increment |

Bounds. A second round suffices for a lock of one round to meet a proposal of
the next, and for a message to be late; a second height for a lock or a message
to outlive its height. `AtBound` keeps a behaviour that reached a bound from
counting as a deadlock. `ibft_faults` stops at the constraint `NotResumed` where a
validator has resumed, since the property holds from there on, and has either a
second height or a second round, the latter with faults of the proposer only;
`ibft_restart` uses one that leads
TLC to the scenario, and a constraint cannot make a violation that the specification does
not have. Symmetry is used between validators that never propose, and only
where no liveness is checked. Deadlock is not checked in
`syncer` and `network`, where a behaviour may end in a node that panicked, a
session that hangs or a lock that is kept, nor in `state` and `node`, where a
block, a restore or a query comes to its end. In `txpool` two rival transactions and a
predecessor are the least for which replacement, gaps and roll-backs meet;
`MaxHandlers` bounds the calls of `addTx`. In `chain` the longer chain overtakes
the shorter, and is long enough for two failed writes to leave the difficulties of
a child and a grandchild of a later head; the number of errors and crashes is
not bounded. `chain_reorg` has chains of 2 and 3 blocks, and with them a
reorganisation of depth two. In `syncer` a skeleton of two slots of one block leaves and
enters slots, and a queue of two overflows. `MaxInputs` bounds what comes from
outside in `Filters` and `Dial`. In `state` words have two bytes and calls a
depth of two, which every program that recurses exceeds; paths of three nibbles
have shared prefixes of every length, and values on both sides of the size from
which a node is hashed. Lists of up to ten items pass the number, eight at this
radix, from which keys get longer. In `node` an epoch of two blocks is the least
with a block inside it, and the sizes of the blocks in a backup make payloads
end before, at and after the limit.

The passing runs name what the code does not prevent. `FilterGoes` and
`EventArrives` except the lock that `Uninstall` keeps and a wakeup sent between
the last look and the wait (every wakeup there is a non-blocking send).
`QueueServed` excepts such wakeups, and `runDial` stopping with a slot free: it
compares the number of its dials with the slots left, which the same dials
lower. `JoinReturns` excepts a send to a call whose timeout has fired: the call
waits for the lock that the sender holds. `NoGhost` excepts a peer added after
its `delPeer` ran, or lost before DisconnectedF was registered. `PendingEnds`
excepts a connected peer that leaves Hello unanswered. `NoPanic` of
`Chain` excepts a missing old header after a refused write: two writes that fail
late leave difficulties of blocks that never were the head, and a block on top of
them makes handleReorg drop the last of no headers. `NoPanic` of the
syncer excepts lost connections: a failed `fillSlot` leaves nil blocks, and
DeletePeer closes a channel that appendBlock may send on. `LatestCommon` excepts
block 1 when the search ends at genesis, which it takes without a look at the
blocks above, and speaks of a remote node that keeps in its index what both nodes
shared when the search began. `CatchesUp` excepts a node that panicked, a remote
node that does not answer or whose index has hashes of a chain it has left, and
with `DeadPeersLeave` a peer lost before handlePeerEvent had subscribed. `RightSet` excepts an epoch whose hook has not run, which
nothing repeats, or whose snapshot a restart made again, and files that are
`torn`; `StartSucceeds` the latter. It takes three faults to need the second
cause of `torn`: a header is verified, its block is not written, Close saves the
snapshot of a number the chain does not have, and a node that restarts on
these files refuses the block of that number. `SupplyKept` lets value go
when an account destroys itself. `BuiltIsAccepted` excepts a block with a withdrawal
that a process with other fees in its memory does not allow. `RestoreResumes`
excepts a file that is torn, begins above the chain or is of another chain, and
a block after an epoch whose hook no process has run. `QuotaKept` is about a
running process, not about a restart, and excepts a proposer that starts with
less than one reward left, which it pays all the same. `EstimateLeast` is about
calls for which some gas up to the ceiling is enough; `node_estimate` has the others.

Every property of a passing run has a mutant, a changed definition that stands
before the original and is marked as such, under which TLC finds it violated.

### What else the models show

Seen while modelling, and kept only as behaviour of the model:

* `Executor`: slots are priced and refunded against the start of the block, while
  the comment at `state/txn.go:264` says "storage slot before this transaction
  started"; a slot cleared in one transaction and written in a later one lowers a
  refund counter that is zero, which wraps.
* `Rewards`: comments at `blockreward.go:46` and `:70` speak of a quota halved every
  two years; each proposer has a full quota of its own and keeps paying the old
  reward until it is spent. After a restart with less than one reward left the
  remainder goes below zero, is stored without its sign and grows from there.
  Blocks that are built and not used are settled, too.
* `Snapshots`: `state.vset`, from which quorums are counted and proposers drawn, is
  set once, by setupSnapshot from the head it starts with (`snapshot.go:47`), while
  the comment at `state.go:47` speaks of "the current validator set"; it keeps that
  set when an epoch brings another.
* `Archive`: a backup to block 0 is taken for one without an end; a cancelled
  backup reports success with what it has; the end of a torn file is filled with
  bytes left in the buffer, and refused by WriteBlock.
* `Queries`: the index in a receipt's logs is that of the log, not of the transaction; a
  transaction that is sealed between the two lookups of GetTransactionByHash is
  not found; the number 2^64 - 1 reads as "earliest".
* `TxPool`: a handler that registers its transaction after a block removed it
  leaves it in the lookup map, as does a block that is built and given up; a
  second copy of a mined transaction, dropped later, takes the next nonce below
  the one of the state.

## Proofs

The theorems hold for every value of the constants: any validators, peers,
connections, trees of blocks, heights, rounds, sizes and numbers of failures.

| modules | about | theorems |
|---|---|---|
| `IbftInvariant`, `IbftProofs` | `Ibft` | `TypeCorrect`, `Inductive`, `AgreementHolds`, `OneSealHolds`, `SealsMatchHolds`, `SealsPreparedHolds`, `LockHolds`, `ViewsGrowHolds`, `QuorumSizes` |
| `ChainProofs` | `Chain` | `AnnouncedIsKept`, `PanicsOnlyAfterRefusal`, `HeadOnlyImproves` |
| `PeersProofs` | `Peers` | `NoGhostHolds`, `PendingIsHeld`, `PendingIsCounted` |
| `TxPoolProofs` | `TxPool` | `ExecutablesPromotedHolds`, `PromotedBelowNonceHolds` |
| `SnapshotsProofs` | `Snapshots` | `RightSetHolds`, `StartSucceedsHolds` |
| `ArchiveProofs` | `Archive` | `RestoreResumesHolds`, `ProgressNotNilHolds` |
| `QueriesProofs` | `Queries` | `AnswersOnChainHolds`, `LogsExactHolds`, `EstimateLeastHolds` |

### Ibft

* `IbftInvariant`: every action preserves `TypeOK`, also the ones of syncing
  (`TypeCorrect`). It contains that a locked or validating state has a block,
  which the code reads without a nil check.
* `IbftInvariant`, `IbftProofs`: `IndInv` is inductive for `Spec` when quorums
  intersect (`Inductive`).
* `AgreementHolds`, `OneSealHolds`, `SealsMatchHolds`, `LockHolds`,
  `ViewsGrowHolds`: consequences of `IndInv`.
* `SealsPreparedHolds`: every seal and every lock rests on a proposal and more
  than `NumValid` prepares of its view. Two steps seal without counting prepares:
  a validator that counts commits first, and one that meets its locked block
  again. The first has the prepares behind a seal it counted, because `SealsMatch`
  lets no foreign seal in; the second those behind its lock.
* `QuorumSizes`: two quorums of more than 2F intersect exactly when N is not 2,
  3 or 6, F being (N - 1) / 3: with six validators two quorums of three may be
  disjoint, and the theorems that need the intersection do not apply.

Why `IndInv` is needed: that two quorums share a validator helps only if
that validator sealed one block. It did, because whoever seals a block that
executes is locked on it or has inserted it (`SealInv`); the lock is on the
current height (`LockInv`, `ViewInv`) and only released when the block is
inserted, because all seals of a view are on the one proposal of that view
(`CommitInv`, `OneProposalPerView`, `ValidateInv`), so that the insert cannot meet
a foreign seal. There is one proposal per view because views only grow
(`RoundInv` for the queued round changes, `ProposalInv`) and because validators
with the same chain agree on the proposer, which needs agreement on the lower
heights: hence `CertifiedChain` is part of the induction.

### Chain

The properties speak of the head in memory, and a step changes it by an update
that was put into `todo` many steps, and perhaps several failed calls, before.
The invariant `IInv` therefore says what holds of the updates to come: which
kinds follow which (`Order`), that a head only moves to a block that is higher,
whose difficulty and hash are in the storage by then (`Updates`), that stored
difficulties are sums along a chain (`Weights`), that neither the head in memory
nor the one a start would take is below an announced one (`Announced`), and, as
long as no write was refused, that no canonical hash is above the head
(`Canonical`). The last makes the panic of handleReorg unreachable without
refusals: its proof failed until the exception was stated, and TLC has the
counterexample in the instance `LongFork`.

### Peers

`NoGhostHolds` needs of the connections only that DisconnectedF is called after a
connection was open (`Shape`). `PendingIsHeld`: a pending peer has a handshake that
will take it off. `PendingIsCounted`: both counters are the numbers of pending
peers of their direction.

### TxPool

`ExecutablesPromotedHolds`: between Prepare and the end of the block only the
consensus loop takes transactions out of a promoted queue, whatever handlers push
there, so that an executable stays in its queue until Pop or Drop, and each pop
makes one other transaction of the account executable.
`PromotedBelowNonceHolds`: what is promoted is below the next nonce, as the comment
in `txpool/account.go` says of the queue. Together with the types and with the
queues of an account being empty until `init.Do` has made them (`QueuesMade`) the
two are inductive. What a push does to a queue is stated once, as lemmas on the places of
its entries. The queues are sorted by a sort that keeps the order of equal
nonces, as `sort.Sort` does for up to twelve elements.

### Snapshots

`RightSetHolds`, `StartSucceedsHolds`: for every length of an epoch, every choice of
validator sets and any number of crashes, failed writes and failed hooks, the set
found for a height is that of its epoch, and a start does not fail; both with the
exceptions of the run. The invariant is `WholeInv`: as long as the files are not
torn, `Inv` says that the chain in the database was verified with the right sets
(`ChainInv`), that the files hold a store the chain could have made (`DiskInv`), that
the store in memory is ordered, has a snapshot for each epoch whose hook ran, and
is at most one header ahead of the chain (`StoreInv`, `HookInv`), and what holds
between the two writes of Close (`SavingInv`). The step that made this hard is the
replay: a start processes headers again that the saved store may or may not
contain, and has to come to the same list. It is also where the proof found that
`torn` was missing a cause (see Runs).

The list is sorted by a sort that keeps the order of equal numbers, as `sort.Sort`
does for up to twelve elements; of a longer list the theorems say what a stable
sort makes of it.

### Archive

`RestoreResumesHolds`: for any chain, sizes of blocks and payload, and any cuts. The
blocks that are buffered, in the stream and in the file are runs of consecutive
numbers that follow each other (`Pieces`), so that a restore that skips what the
chain has comes to the next block, or to a file that begins above it.
`RestoreInv` adds where the restore is in the file, and that a snapshot can only
be stale at the end of an epoch of `Changes`. `ProgressNotNilHolds`: the update loop
is on only from StartProgression to StopProgression, where there is a progression.

### Queries

`AnswersOnChainHolds`, `LogsExactHolds`: the writes of a block come in an order
(`Rank`), those that are to come are of one block, and what is not to come any more is
in the store (`WriteInv`); nothing leaves the store (`Grows`), so that what a query has
read stays true while it goes on (`ReaderInv`, with `LogsInv` for the blocks that
`GetLogs` has passed). `EstimateLeastHolds`: the two ends of the search have what is
not enough below them and, once the upper one has moved, what is enough just
above it (`SearchInv`).

### Assumptions

The named assumptions of `Ibft`, `Chain`, `Peers`, `TxPool`, `Snapshots`, `Archive` and
`Queries` about their constants, which TLC evaluates in every run, and
`QuorumsIntersect` where a theorem states it.

### Only model-checked

* Liveness and fairness, which the prover cannot do: `CatchesUp`, the fairness of
  `CatchUp`, `ExpectedServed` and the liveness of `Peers`, `Filters` and `Dial`.
* Agreement with syncing and with faults: as `Agreement` it does not hold there
  (`ibft_restart`); `ibft_faults` has it up to the first validator that resumes.
* `Syncer`: its safety properties and that it implements `CatchUp`.
* `Trie`, `CalcRoot`, `Evm`, `Word`, `Precompiled`, `Filters` and what extends them
  have recursive operators, which the prover cannot take.
* `GaugeBalance` of `TxPool` and the sums of `Rewards` are folds over finite sets,
  whose laws need an induction over data.
* `Encoding` and `Dial` have no theorems.

## Not modelled

* Number theory (curves, hashes, signatures) is out of TLC's reach: terms and
  constants stand for it. 256-bit words are scaled down.
* Progress of consensus: timers are exponential and gossip owes nothing, so that
  no fairness the code has makes a round succeed. The proposer of a height does
  not depend on the round (`pos.go:50`), and a locked validator sends no Prepare
  (`ibft.go:848`).
* Validator sets that change under running consensus: `Ibft` has one set and
  `Snapshots` one node.
* Close of the servers, the pool and the filter manager; the pool's event
  subscriptions and the operator services, which nothing in the node reads;
  discovery requests; HTTP and websocket framing; the layout of RPC answers.
* Data races on memory that is read without its lock (`reward_lock.go:37`,
  `:57`) or through a pointer that leaves it (`fee_pool.go:68`).
* A database that drops a write without an error (`trie/storage.go:51`).
* Command line clients, metrics, parsing of parameters and key files hold no
  state that a property of the node depends on. The staking contract is a
  function from epochs to sets.
