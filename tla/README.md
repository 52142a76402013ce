# Verification of salvium-js

TLA+ models of salvium-js, the TLC configurations that check them on small
instances, and TLAPS proofs of what matters most for every instance. Paths are
relative to the repository root of salvium-js; its library is `src`
(`src/wallet-sync.js` here is `src/src/wallet-sync.js` in `PROJECT.json`).

salvium-js is a JavaScript library for the Salvium cryptocurrency: wallets that
follow a daemon's chain and keep what they own in a local storage, a manager of
alternative chains, RPC and pool clients, miners, transaction construction, and
the cryptography under all of it. JavaScript runs one continuation at a time, so
the hard behaviours are not data races but what happens between two `await`s:
the daemon's chain reorganises, a call fails, the user calls another method, the
process dies, an interval fires. The native miner (Rust) has real threads.

1. [Inventory](#1-inventory), 2. [Plan](#2-plan),
3. [Modules and code](#3-modules-and-code), 4. [Runs](#4-runs),
5. [Proofs](#5-proofs), 6. [What the code does where a doc says otherwise](#6-what-the-code-does-where-a-doc-says-otherwise),
7. [What is left out](#7-what-is-left-out)

## 1. Inventory

### Components that keep state

**Wallet storage** (`src/wallet-store.js`). Five tables: outputs by key image,
transactions by hash, block hashes by height, the set of spent key images and
the sync height. Two classes implement them: `MemoryStorage` on Maps, in which
a record is one object, and `IndexedDBStorage`, in which the spent key images
are an object store of their own. Operations: put/get/mark spent, the four
"reorg rollback operations" and the sync height. Hard: the two classes must
mean the same; spentness is kept twice; each operation of a rollback is a call
of its own, with an await after it. Correct when outputs, spends and history
agree with each other and with one chain.

**Wallet sync engine** (`src/wallet-sync.js`). State: `status`, the start,
current and target heights, `_stopRequested`, and everything that is local to a
sync in progress: the batch of headers, the block, the transactions, inputs and
outputs still to do. Operations: `start`, `stop`, `rescan`, and the call chain
`_detectReorg`, `_findCommonAncestor`, `_handleWalletReorg`, `_syncBatch`,
`_processBlock`, `_processEmbeddedTransaction`, `_processTransaction`. Hard: a
reorganisation at any await; a failure half way through a batch, a block, a
transaction or a rollback; a crash at the same places; a rescan during a sync;
and that a later sync repairs whatever an earlier one left. Correct when,
whenever the stored tip is on the best chain, the tables below it say what that
chain says, and when a wallet left alone reaches the tip.

**Persistent wallet** (`src/persistent-wallet.js`). State: the interval of the
background sync, the balance cache and its dirty flag, the wallet height, and
the copies that pending calls hold. It owns one engine and listens to its
events. Hard: every call reads, waits and writes; the interval starts after an
await; the cache is invalidated by events of the engine. Correct when the cache
is fresh, no call undoes what a sync has stored, a stopped wallet stays stopped,
a started one keeps up, and nothing is sent twice.

**Wallet class and accounts** (`src/wallet.js`, `src/wallet/account.js`). A
wallet without a store: outputs and spent key images in memory, the height,
accounts and their next subaddresses, an interval. Hard: several `sync()` calls
at once, each over a height it read before its awaits; a wallet restored from
JSON keeps its height but not its outputs.

**Alternative chain manager** (`src/blockchain.js`, over `ChainState` of
`src/consensus.js`). State: the main chain with its cumulative difficulties,
the map of alternative blocks, the set of invalid blocks. All synchronous; the
hard part is the long sequence of legal calls: branches that overtake each other
again and again, a switch that fails half way, pruned parents. Correct when the
main chain is well formed, never loses work, is the heaviest known, and no block
is lost or in two places.

**RPC client and its failover** (`src/rpc/client.js`,
`src/rpc/connection-manager.js`): endpoint latencies, the active endpoint, races
between endpoints, the attempts of each call. Hard: calls, races and a race
timer interleave; the active endpoint changes between an attempt and its retry.
Correct when a call does not use up its attempts while a server answers.

**Connection manager** (`src/connection-manager.js`): the sorted list of daemons
and pools, the index of the current one, health checks. Hard: the list is sorted
and shortened under an index. Correct when the current connection changes only
when somebody changes it.

**Pool client and pool miner** (`src/stratum/*`): sockets, login, pending
requests, keepalive and reconnection timers; workers, jobs, datasets. Hard:
events of an old socket after the new one exists, timeouts that come with the
answer, jobs that come while a dataset is generated. Correct when a lost
connection comes back, every share is settled, and what is hashed is the job
that is due, with the dataset of its seed.

**Native miner** (`crates/salvium-miner`): threads, job generation, the channel
of found blocks, templates. Hard: a block found for the template before.

**Testnet node and miner** (`src/testnet/*`): chain, mempool, output index, spent
key images. Hard: a block mined between a selection and a send; wallets that never
learn what was spent, so that the node alone keeps an output from being spent twice.

**Multisig** (`src/multisig.js`): rounds of a key exchange, messages, keys. Hard:
messages that are late or of another round.

### Components that compute

**Transfers and UTXO selection** (`src/wallet/transfer.js`,
`src/transaction/utxo.js`, the `create…`/`sweep…` methods of `src/wallet.js`),
**transactions: building, parsing, serialisation** (`src/transaction.js`,
`src/transaction/*`), **signatures** (CLSAG, TCLSAG), **scanning and CARROT
derivation** (`src/scanning.js`, `src/carrot-scanning.js`), **block
serialisation**, **portable storage codec**, **consensus rules**
(`src/consensus.js`, `src/validation.js`), **mining helpers** (`src/mining.js`),
**oracle and conversions** (`src/oracle.js`), **keys, addresses and mnemonics**,
**curve and key images**. Hard: boundaries and rounding, two functions that must
undo each other, a value that one file writes and another reads.

### Components that are not modelled

| component | why |
|---|---|
| RPC endpoints (`src/rpc/daemon.js`, `src/rpc/wallet.js`) | one-line wrappers of the RPC client, no state |
| Output and transfer queries (`src/query.js`) | pure filters |
| Offline signing (`src/offline.js`) | no state; the calls throw (section 6) |
| RandomX worker pool (`src/randomx/worker-pool.js`) | uses `require` in an ES module and a relative import in a blob: it does not run as it is |
| RandomX virtual machine and dataset, cryptographic primitives | fixed computations over large words, checked by test vectors |

### Interactions

```
   user ── calls ──> PersistentWallet ── start/stop/rescan ──> WalletSync ── RPC ──> daemon
                        │        ^                                │
                        │        └── events (outputReceived, ...)─┤
                        └──────────── reads, writes ──> WalletStore <── reads, writes

   user ──> transfer() ──> selectUTXOs, prepareInputs, buildTransaction ──> RPC client ──> daemon
   pool ──> StratumClient ── job events ──> StratumMiner ── messages ──> worker threads
   daemon ── template ──> salvium-miner ── jobs ──> threads ── channel of blocks ──> submit
```

The storage is shared by the engine and the user's calls and locked by nobody.
The other components share nothing but their callers.

### Hazards

`PROJECT.json` lists each hazard at its line, with the properties that would
catch it. The kinds that matter here: what happens between two awaits
(reorganisation, user call, crash), what a failure half way leaves for the next
attempt, the off-by-one heights where the walk back, the deletions and the
batches meet, liveness of what runs in the background, events of something that
was replaced, long sequences of switches, and boundaries of arithmetic.

## 2. Plan

Done, in this order: the wallet (`WalletStore`, `WalletSync`, `ChainFollower`,
`PersistentWallet`) and the alternative chains with their first proofs; then the
services (`StratumClient`, `StratumMiner`, `RpcClient`, `Failover`, `Multisig`,
`NativeMiner`, `Testnet`); then what computes (`TxBuilder`, `ChainRules`,
`Enotes`, `Portable`, `TxCodec`, `Spending`, `PlainWallet`, `Bytes`, `Addresses`,
`Oracle`, `Admission`, `Mining`, `Curve`); then the proofs of section 5.

Next, in this order:

1. `TablesExact` when transactions are given up: which blocks a later sync makes
   good.
2. `TransactionsHold` of `TxBuilder` for any group.
3. `EnoughRetries` with several calls at once and races beside them: how many
   attempts are enough then.

`ChainFollower` is the abstract specification of the engine and of the wallet;
`WalletSync` is the one of the persistent wallet.

## 3. Modules and code

Every module names the files it models in its header, and `PROJECT.json` maps
every definition to its lines. A seeded fault, an operator with the suffix of
what it forgets (`Restored_OffByOne`, `Heavier_LongerOnly`, ...), stands before
the definition it would replace; no specification uses one.

### WalletStore

Operators on the tables, each named after the storage method it models; a table
is a total function with `None` where the code has no entry. `Backend` selects
between the two classes where they differ, in the spent key images (`PutKeyState`,
`UnspendKeysAbove`).
An output record keeps what decides behaviour: the output, its block height, the
spent mark with the spending transaction and height, and the frozen mark.
Amounts, keys and indices are the output itself.

### WalletSync

One action is the code between two awaits. The variable `pc` names the await at
which the call chain is parked:

| `pc` | parked in |
|---|---|
| `info`, `tip` | `start`: `getInfo`; the header at the stored tip (`_detectReorg`) |
| `ancestor` | `_findCommonAncestor`, one header per step; `probe` is the height |
| `rollbackOutputs` .. `rollbackSync` | the five awaited storage calls of `_handleWalletReorg` |
| `loop` | the while loop of `start` / the headers request of `_syncBatch` |
| `block`, `embedded`, `regular`, `tx` | `_processBlock`: `getBlock`; miner and protocol transaction; `getTransactions`; one step of `_processTransaction` |
| `save`, `recheck` | `setSyncHeight` after a batch; the second `getInfo` |

A read of the storage and the request that depends on it are one action where
only the engine writes what was read. Within `_processTransaction` the outputs
and inputs are taken one at a time, and the check of an input (`found`) is apart
from the `markOutputSpent` that follows, because a crash, a failure or another
caller may come between.

The daemon is external: `chain` is its best chain, any element of `Chains`. It
may change at any moment (`reorgIdle`, `reorgBusy`); a block stands for its
hash, and a hash commits to its history (`ChainsAssumption`). `Events` selects
what the environment may do:

| event | in the code |
|---|---|
| `reorgIdle`, `reorgBusy` | the best chain changes while no sync runs / while one does |
| `rpcError` | getInfo, a header call or getBlock fails |
| `txsError` | `getTransactions` fails or answers nothing; the block goes on |
| `txError` | processing of one transaction throws; it is caught per transaction |
| `storeError` | a storage call of the engine throws |
| `stop` | `stop()` between any two awaits |
| `rescan`, `rescanBusy` | `rescan(h)` while no sync runs / during one |
| `crash` | the process dies; the tables are what was written, the engine starts anew |

Without any event the chain may still grow. Bounds: `MaxHeight` (highest chain),
`MaxBatch` (the adaptive batch is any size from 1 to it; the real sizes only
decide how many blocks share one save), `StartHeights` and `RescanHeights`
(heights that callers pass). There is no counter without a bound.

### PersistentWallet

`EXTENDS WalletSync`; every action either is a step of the engine together with
the event handlers that `open()` installed (`WalletEngineStep`), or a call of
the user. A call that waits is two actions, and what it has read is a variable
(`balanceCall`, `updateCall`). `timers` counts the intervals
that run, `interval` says whether the wallet still has the handle of one.
`Overlap = FALSE` restricts the user to one call at a time; `Calls` selects the
calls. `stopped` is not state of the code: it records which of start and stop came
last, for the properties. Bounds: `MaxTimers`, one pending call of each kind.
`createTransaction()`, and `transfer()` with it, throws before it has selected
anything, and `sendTransaction()` writes nothing (section 6), so none of the three
is an action.

### PlainWallet

The `Wallet` class: `sync()` with its two or three awaits per block as a record
per running call (`syncs`), the interval, accounts and subaddresses, `toJSON` and
`fromJSON`. A wallet is of one of three kinds (full, view only, watch). `fate`
is history: whether a height has been read, refused or skipped. The list of
outputs is a set of records without order.

### AltChains

Each call is synchronous, so one action is one whole call; `HandleBlock` has a
disjunct per path of `handleBlock`. `main` is `ChainState` (hash and cumulative
difficulty per height), `alt` the map of alternative blocks, `invalid` the set.
The walk of `_buildAltChain` is a recursive function on the number of steps.
What timestamps, weights and the validator decide about a block is constant
(`BadTime`, `RejectMain`, `RejectAlt`), its difficulty is `Work`, except that the
LWMA rule answers 1 while there are fewer than `MinSamples` difficulties, 6 in
the code. The timestamp check bites alternative blocks only (section 6).

### StratumClient, StratumMiner

`StratumClient`: every `connect()` makes a socket and a promise that waits for
the login; the handlers of an older socket stay when `this.socket` moves on. An
action is one event with the microtasks it resolves. `held` is history: it is
cleared by the one timeout that closes the socket of a reconnect under way
(section 6). Bounds: sockets, shares and jobs that exist at once.

`StratumMiner`: the main thread with the await each call is parked at
(`starting`, `waiters`, `ready`) and the workers with their message queues; in
full mode the dataset of a seed is generated first. Handlers that wait for one
promise go on in the order they began to wait. `due` and `blind` are history:
the job that ought to be mined, and whether a job was sent with a dataset the
code has not waited for (three ways, named at `RightDataset`). Bounds:
`MaxQueue`, `MaxWaiting`.

### NativeMiner

The Rust miner with both fronts: alone against a daemon (`main.rs`) and as a
child process (`ipc.rs`). Threads take a job from their inbox, hash one nonce at
a time, and send hits into the channel. `submitted` is history. Bounds: nonces
of a job, jobs, commands, blocks in the channel, failing hashes.

### RpcClient, Failover

`RpcClient`: each call is parked in a race, a request or the pause before a
retry; probes of a race answer one by one. The four kinds of request differ in
what they do with a bad answer. Bounds: calls at once; latencies from a small
set.

`Failover`: the sorted list, the index, health checks whose answers come in any
order. An RPC call never throws, so the branch that counts failures is not
reached (section 6). One round of `checkAll()` at a time in the runs (`MaxChecks`).

### Multisig

The key exchange for any number of signers: keys are symbols, a sum of keys the
set of its terms. Only the number of messages is looked at, so any message sent
may come in at any round. `beganRight` is history.

### Testnet, Spending

`Testnet`: node, miner and `transfer()` with decoys and rings: selection and
sending are two actions, between which blocks may be mined and other callers
(`Callers`, each with a wallet object of its own) may select and send. The node serves
the transactions of users as JSON (`testnet/node.js:249`), in which the wallet looks
for no spent outputs (`wallet-sync.js:524`), so `Spendable` offers what was spent
again (`testnet/index.js:192`), and what the node compares with its blocks is all that
refuses it. `transfer()` finds a public key in miner transactions only and throws at
any other output (`HasTxPubKey`, `testnet/index.js:229`), so payments and change are
received and never spent. The time is before the CARROT fork. `Spending`: every way the
library selects outputs, computes a fee and makes change (`transfer.js` and
`wallet.js`), over the coins of one wallet; amounts are units of the base fee.
`asked` holds what the last call was about, for the properties.

### TxBuilder, Enotes

`TxBuilder`: from a wish to signatures in a cyclic group of prime order `Order`
(31 in the runs), in which points are their logarithms. A signature made by the
code's loop is given to the code's verifier. `Enotes`: what a sender puts in an
output and what a receiver finds, with keys and hashes as free terms. Sums of amounts
are recursive functions, for the proofs of section 5.

### ChainRules, Admission, Oracle, Mining

Difficulty, weights, rewards, forks and the rules for transactions; fees, unlock
times, timestamps and miner transactions; prices and conversions; templates,
nonces and targets. Constants of the code that a small number could not reach
are CONSTANTS; every comment beside one names the code's constant. Sums, medians,
digits, emission and the order of a window are recursive functions or choices with
one value, so that the proofs of section 5 can use them.

### Portable, TxCodec, Bytes, Addresses, Curve

Writers and readers over small bytes (`ByteValues`, `Radix`): a byte that is a
count stays a byte among the others, so a reader out of step reads what is there.
`Bytes` and `Addresses`: base 58, addresses, subaddresses, words for seeds, in a
group of 61 elements. `Curve`: both representations of points, compression,
hashing to points and key images over the field of 37 elements, whose 40 points
have a subgroup of order 5.

### Modules that instantiate

`MCWalletSync`, `MCPersistentWallet`, `MCAltChains`, `MCCodec` give chains,
wallets, block trees and samples. `MCSyncFaults`, `MCWalletUse`, `MCServices` and
`MCLibrary` put several environments or components that do not interact side by
side in one run: a variable chosen in the initial state says which of them
moves, and the properties of the others are about the states it can reach.

## 4. Runs

| run | environment | result |
|---|---|---|
| SyncReorg | the engine over chains of 4 blocks with a fork of depth 2, reorganisations between syncs, `stop()` anywhere; beside it the plain wallet, addresses and words, prices, admission, templates, the curve | `TablesExact`, `HashesCoverSync`, `FollowsChain`, `NoSilentRewind` of the engine; `PlainHolds`, `KeysHold`, `OracleHolds`, `AdmissionHolds`, `TemplatesHold`, `LibraryTypeOK` |
| SyncFaults | four regimes: RPC and storage failures, crashes, stops and rescans that a later sync repairs; every other fault together; what in-memory tables meet; transactions missing or given up | `RepairsTables`, `TypeOK`, `Provenance`, `TablesAgree` |
| WalletUse | calls that wait for each other, with rescans and reorganisations; `startSyncing` and `stopSyncing` at any moment with reorganisations anywhere | `WalletTypeOK`, `CallsHold`, `UseCatchesUp` |
| Services | pool client, pool miner, native miner, RPC client, connection manager, key exchange, alternative chains, testnet, transaction builder, rules, enotes, codec, spending | `NeverStranded`, `MinesWhatIsDue`, `RightDataset`, `SubmitsCurrent`, `EnoughRetries`, `KeepsCurrent`, `KexAgrees`, `BlocksAreKept`, `Disjoint`, `WalkIsFinite`, `NeverLighter`, `TestnetHolds`, `TransactionsHold`, `RulesHold`, `EnotesHold`, `CodecHolds`, `SpendsHold`, `TypeOK`, `ServicesTypeOK` |
| ServicesLive | pool client, RPC client over two servers of which one dies, native miner, under fairness | `ComesBack`, `SharesSettle`, `HealsItself`, `JobsAreTaken` |
| ReorgBetweenBatches | a reorganisation during a sync | `HashesExact` is violated |
| IndexedDBUnspend | IndexedDB, reorganisation between syncs | `SpentKeysAgree` is violated |
| StopDuringFirstSync | `stopSyncing()` during the first sync | `StoppedMeansNoTimer` is violated |
| TestnetRespends | transfers on the testnet, one after a coin of the wallet was spent | `SpentIsTracked` is violated |
| ForkChoice | two plain branches, no refused block | `Heaviest` is violated |
| OwnSignatures | a SalviumZero transaction, signed by `clsagSign` | `OwnSignaturesVerify` is violated |
| LostOutputs | a CARROT transaction with two inputs | `OutputsAreFound` is violated |

### What the properties say

*Does the wallet say what the chain says?* `TablesExact` (outputs, spends,
history) and `HashesExact` have the premise `AgreesOnTip`: no sync is running and
the hash stored for the last synchronised block is the best chain's. That is the
check `_detectReorg` itself makes before it trusts everything below.
`RepairsTables` says it of hashes, outputs and spends after faults that a later
sync must repair: failing requests and storage calls, crashes, stops, rescans.

*Does the saved height mean something?* `HashesCoverSync` (each block below it
has its hash stored), `NoSilentRewind` (only a rollback lowers it),
`FollowsChain` (refinement of `ChainFollower`: the saved stretch grows along the
best chain and rewinds only to the last common block).

*Is anything invented?* `Provenance`: every stored output, spend and history
entry comes from a transaction mined at the recorded height on some best chain.
It holds under every fault, and is what remains when the exact properties fail.

*Persistent wallet:* `CallsHold` (no call loses a spend, and the cache is fresh),
`StoppedMeansNoTimer`, `UseCatchesUp`.

*Testnet:* `TestnetHolds` (no output leaves twice, what a block spends was there, and
rings say what they were made of), `SpentIsTracked` (a transfer does not select what a
block has spent).

*Alternative chains:* `BlocksAreKept` (a block that adds work stands on its own
parent, and a chain of blocks that were never disconnected never stays behind),
`Disjoint`, `WalkIsFinite`, `NeverLighter`, `Heaviest`.

*Services:* `NeverStranded` (a client that lost its connection has a reconnect
scheduled or under way), `MinesWhatIsDue` (light mode: the last job, and nothing
while paused), `RightDataset`, `SubmitsCurrent`, `EnoughRetries` (a call with a
server that answers does not use up its attempts), `KeepsCurrent`, `KexAgrees`.

*What computes:* each `…Hold` is a conjunction of the promises of one component;
its parts have names of their own and a comment each.

### Bounds, and why they are enough

The engine's decisions compare heights that differ by at most one (tip, ancestor,
first block of a batch), so the interesting cases need a fork with a common
ancestor above genesis, a fork deeper than one block, and a batch boundary inside
the fork: chains of 4 blocks with a fork at height 2 and batches of 1 or 2 have
them all (SyncReorg). The regimes with many faults use chains of 3 blocks with a
fork at the tip, on which every await is still reached with every table in every
stage; in the second regime the chain changes its last block but does not grow
(SyncReorg and the third regime have growing chains, and the two invariants the
second regime is about, `TypeOK` and `Provenance`, are proved for every set of
chains). The wallet owns an output paid before the fork, one spent on one branch
(at another height on the other), a change output, a payment on one branch only
and a miner reward on the other. A crash is only meaningful over a storage that
survives it, so the first two regimes of SyncFaults run over IndexedDB.

The tree of the alternative chains lets each branch overtake the other, and has a
block refused for its time, one by validation on the main chain in the middle of
a switch, one by validation as an alternative, and a return to a branch that was
left. `MinSamples` is 2, or differences in work would need ten levels.

Services: two sockets are an old and a new one; two jobs with two seeds and two
waiting handlers are a change of seed during a generation; three signers are the
fewest with a threshold below their number; three servers of which one answers
make two failovers; a nonce space of 1 makes a thread run out at each job. What
the bounds cannot show is said beside the property: `EnoughRetries` is claimed
for one call, no race by timer or user, and attempts for every server (with
fewer, or with others that move the active server meanwhile, it is false), and
proved so for any servers;
`RightDataset` excludes `blind`, and two seeds cannot reach its third cause
(proved instead, section 5). In `Enotes` the word `Agreed` names the outputs both
sides agree about; `LostOutputs` shows the others.

What computes uses numbers just large enough to reach each limit: bytes of 8 or
32 values, amounts near the multiples of the rounding, rings of 2 or 3, windows
of 2 to 4, and every fork. `PlainWallet`: two syncs at once, three in all, one
refused answer, three other calls, and four sets of methods that a program uses.

Testnet: two callers may select one coin before either has sent; one amount takes one
of the miner's coins and the other, above a block's reward, takes two, so both kinds
of change and a ring for each of two inputs occur; windows of 2 make a coin old enough
while later blocks are still to come.

Deadlock is checked where a component can always go on; Services, ServicesLive,
TestnetRespends, OwnSignatures and LostOutputs switch it off, because a component that has done
its bounded work stops (a miner with no command left, a finished key exchange).

### Fairness

Safety needs none. `UseCatchesUp`: weak fairness of a step of the engine and of a
running interval. The event loop runs every continuation that is ready, every RPC
request ends because the client has a timeout, and `setInterval` fires until it
is cleared. Nothing is assumed of the user, of the daemon's chain (the property
speaks of chains that come to rest) or of RPC errors. The property exempts a
wallet left above the tip of a shorter chain: there `_detectReorg` gets no
header, reports no reorganisation, and the wallet waits until the chain has
grown past it.

`ComesBack`, `SharesSettle`: timers fire, a socket that was closed closes, an
attempt ends, and (strong fairness) a pool that is tried again and again is
reached in the end. `HealsItself`: requests and probes end by their timeouts.
`JobsAreTaken`: the operating system runs every thread.

## 5. Proofs

All theorems are proved by TLAPS for every value of the constants that satisfies
the named assumptions of the modules (`StoreAssumption`, `NoneAssumption`,
`ChainsAssumption`, `WalletAssumption`, `CallsAssumption`, `RecordsAssumption`,
`BlocksAssumption`, `SignersAssumption`, `NativeAssumption`, `SocketAssumption`,
`JobAssumption`, `MinerAssumption`, `PlainAssumption`, `FailoverAssumption`,
`RpcAssumption`, `TestnetAssumption`, `SpendingAssumption`, `RulesAssumption`,
`OracleAssumption`, `AdmissionAssumption`, `EnotesAssumption`), which TLC evaluates in the runs; the
further assumptions are in the table. Constants stay parameters: any set of chains,
any wallet, any number of threads, sockets, seeds, signers or servers, any windows,
zones, fees and prices.

| theorem | states | further assumption |
|---|---|---|
| `WalletSyncProofs!TypeCorrect` | `Spec => []TypeOK` | none |
| `WalletSyncProofs!HashesCovered` | `Spec => []HashesCoverSync` | `OrderlyStorage` |
| `WalletSyncProofs!RewindsOnlyInRollback` | `Spec => NoSilentRewind` | `OrderlyStorage` |
| `WalletSyncProofs!NothingInvented` | `Spec => []Provenance` | none |
| `WalletSyncProofs!SpendsToldTwiceAgree` | `Spec => []SpentKeysAgree` | `OwnKeys`, `NothingGivenUp`, in-memory storage |
| `WalletFollowProofs!EngineFollowsChain` | `Spec => FollowsChain` | `OrderlyStorage`, `SteadyDaemon` |
| `WalletFollowProofs!TipVouchesForAll` | `Spec => []HashesExact` | `OrderlyStorage`, `SteadyDaemon` |
| `WalletLedgerProofs!TablesAreTheLedger` | `Spec => []TablesExact` | those, `NothingSkipped`, `OneLedger` |
| `PersistentWalletProofs!WalletTypeCorrect` | `WalletSpec => []WalletTypeOK` | none |
| `PersistentWalletProofs!WalletInventsNothing` | `WalletSpec => []Provenance` | none |
| `PersistentWalletProofs!WalletImplementsSync` | `WalletSpec => Spec` | `ReadOnlyCalls` |
| `PersistentWalletProofs!WalletFollowsChain` | `WalletSpec => FollowsChain` | `OrderlyStorage`, `SteadyDaemon` |
| `PersistentWalletProofs!WalletTablesAreTheLedger` | `WalletSpec => []TablesExact` | `OrderlyRescans`, `SteadyDaemon`, `NothingSkipped`, `OneLedger`, `~Overlap` |
| `PersistentWalletProofs!BalanceStaysFresh` | `WalletSpec => []BalanceFresh` | `SyncsSucceed`, `~Overlap` |
| `WalletLedgerProofs!FaultsAreRepaired` | `Spec => [](HashesExact /\ OutputsExact /\ SpendsExact)` | `GrowingChain`, `OneLedger` |
| `PersistentWalletProofs!WalletRecovers` | `WalletSpec =>` the same | `GrowingChain`, `OneLedger`, `~Overlap` |
| `AltChainsProofs!AltTypeCorrect` | `Spec => []TypeOK` | none |
| `AltChainsProofs!NeverLosesWork` | `Spec => NeverLighter` | none |
| `AltChainsProofs!NeverInBothPlaces` | `Spec => []Disjoint` | the tree of blocks is acyclic |
| `AltChainsProofs!EveryWalkEnds` | `Spec => []WalkIsFinite` | the tree of blocks is acyclic |
| `AltChainsProofs!FailedSwitchUndone` | a failed switch puts back the chain there was | none |
| `AltChainsProofs!EveryBlockOnItsParent` | `Spec => []Linked` | the tree of blocks is acyclic |
| `AltChainsProofs!MainChainIsHeaviest` | `Spec => []HeaviestIntact` | the tree of blocks is acyclic |
| `AltChainsProofs!SwitchesKeepBlocks` | `Spec => []BlocksAreKept` | the tree of blocks is acyclic |
| `TransactionProofs!KexTypeCorrect` | `KexSpec => []KexTypeOK` | none |
| `TransactionProofs!SignersAgree` | `KexSpec => []KexAgrees` | none |
| `MinerProofs!BlocksAreCurrent` | `NativeInit /\ [][NativeNext]_nativeVars => []SubmitsCurrent` | none |
| `MinerProofs!StratumTypeCorrect` | `StratumSpec => []StratumTypeOK` | none |
| `MinerProofs!ClientIsNeverStranded` | `StratumSpec => []NeverStranded` | none |
| `MinerProofs!MinesTheLastJob` | `MinerSpec => []MinesWhatIsDue` | none |
| `MinerProofs!HashesWithItsDataset` | `MinerSpec => []RightDataset` | none |
| `WalletNodeProofs!NoIndexTwice` | `PlainInit /\ [][PlainNext]_plainVars => []FreshIndices` | none |
| `WalletNodeProofs!PlainWalletHolds` | `PlainInit /\ [][PlainNext]_plainVars => [](PlainTypeOK /\ PlainHolds)` | none |
| `WalletNodeProofs!OneCallIsAnswered` | `RpcSpec => []EnoughRetries` | `EnoughServers(c)` |
| `WalletNodeProofs!TestnetKeepsRings` | `TestnetInit /\ [][TestnetNext]_testnetVars => []TestnetHolds` | none |
| `WalletNodeProofs!NoOutputTwice` | `TestnetInit /\ [][TestnetNext]_testnetVars => []SpentInOneBlock` | none |
| `WalletNodeProofs!CurrentIsKept` | `ManagerSpec => KeepsCurrent` | none |
| `TransactionProofs!SpendingKeepsValue` | `SpendInit /\ [][SpendNext]_spendVars => []SpendsHold` | none |
| `TransactionProofs!RulesAreKept` | `RulesSpec => []RulesHold` | none |
| `TransactionProofs!PricesAreKept` | `OracleSpec => []OracleHolds` | none |
| `TransactionProofs!WhatIsLetInIsRight` | `AdmissionSpec => []AdmissionHolds` | none |
| `TransactionProofs!WhatIsSentIsFound` | `EnotesSpec => []EnotesHold` | none |

The theorems are about the specification of each component; a run that puts
components side by side leaves all but one of them still, so its behaviours
restricted to a component are behaviours of that specification.

### The further assumptions

They name the environments in which the property is promised, and each is needed:
without it the code breaks the property, as section 6 shows.

* `OrderlyStorage`: no crash, storage error or rescan separates the steps of a
  rollback, and `start()` is called without a height. RPC failures,
  reorganisations at any time, stops and failing transactions are all allowed.
* `OrderlyRescans`: no storage error or crash comes in the middle of a rollback, and
  a rescan begins at block 0 and not during a sync. (From a higher block it leaves the
  blocks below without hashes and tables, and `HashesCoverSync` fails.)
* `SteadyDaemon`: reorganisations come between syncs, and the daemon answers.
  During a sync its chain may grow. (Run ReorgBetweenBatches shows the rest.)
* `NothingSkipped`: no transaction is given up and none is missing from an answer.
* `OneLedger`: what the rules of the chain and a full wallet's keys provide. Each
  output has its own key image and one transaction that creates it; on one chain a
  transaction is mined once, a key image is spent once, and above the block that
  paid it. The wallet can read the inputs of the transactions that spend.
* `OwnKeys`: the first half of `OneLedger`, each output its own key image and one
  transaction that creates it.
* `NothingGivenUp`: the process does not die and no transaction is left half way.
  `SpendsToldTwiceAgree` is about the in-memory tables, which no crash outlives; a
  transaction that is missing from an answer, a reorganisation at any moment, a
  storage call that throws, a rescan or an explicit start height do no harm.
* `GrowingChain`: the best chain only grows, no transaction is given up or missing,
  nobody rescans during a sync or from a height above 0, and `start()` is called
  without a height. Every request and storage call may fail, at any await, `stop()`
  may come and the process may die.
* `EnoughServers(c)`: c is the only call and nobody races, one server is alive, no
  server becomes too slow for the active one, and there are as many attempts as
  servers.
* `~Overlap`: the user's calls wait for each other and for the syncs.
* `SyncsSucceed`: no sync ends in its catch block.
* `ReadOnlyCalls`: no `freezeOutput`, `thawOutput` or `setTransactionNote`, the
  calls that are no step of the engine.

The configurations SyncReorg (`OrderlyStorage`, `SteadyDaemon`, `NothingSkipped`,
`OneLedger`), the first regime of SyncFaults (`GrowingChain`), Services
(`EnoughServers`) and the calls of WalletUse satisfy them; the inductive invariants
were model-checked there before they were proved.

### The arguments

**Engine: types, cover, provenance.** `TypeOK` is not inductive: that `block` is a
block while it is being processed, and that a batch ends at a height some chain
has, come from the place the engine is parked at. `TypeInv` adds this. `CoverInv`
says why hashes cover the saved height: the running sync has covered all it has
passed, never is behind the saved height but between the last two steps of a
rollback, and looks for the ancestor only below it. `NoSilentRewind` follows from
the same invariant. `ProvenanceInv` extends `Provenance` to what the engine holds
in its hands; it needs no assumption on faults, since every table operation keeps
good records good.

**Engine: spends.** That an output is spent is kept twice, in its record and in the
table of key images, by two calls with an await between them, and a rollback undoes
both. `KnownInv` says that every stored output was paid by a transaction that is
recorded at its height or is in hand, so a transaction that is met again is skipped
as known or the rollback has removed what it paid, and no output is written over a
spent one; while a spend is marked, the two tables differ for the key image in hand only.

**Engine: refinement.** `FollowInv` says that the stored hashes below the saved
height are a prefix of some chain the daemon has had, and where in a rollback or
in a batch which stretch is on the best chain. Because a hash commits to its
history, one comparison, at the tip, decides for all blocks below
(`TipVouchesForAll`), and the walk of `_findCommonAncestor` passes exactly the
blocks that are not on the best chain. So every step of the engine is a step of
`ChainFollower` (`Extend` when a batch is saved, `Rewind` when a rollback begins
to count) or a stutter.

**Engine: tables.** `LedgerInv`: at every await the tables are the ledger of the
blocks whose hashes are stored, of the transactions of the block in hand that are
done, and of the part of the transaction in hand that is done. A rollback cuts
outputs, history and spends one after the other; between two of its steps each
table is the ledger up to a height of its own.

**Engine: repair.** `RepairInv`: whatever is stored is true of the chain, and what
is missing is ahead of the saved height or of the block in hand. A transaction's
outputs and spends are written before the transaction itself, so one that is
recorded is complete, one that is not is processed again, and what is written twice
is the same. Since the chain only grows nothing that is stored becomes false; the
proof does not need to know where the last sync was interrupted.

**Persistent wallet.** A step is one of the engine with its event handlers, a
call, or an interval. Calls touch no hash and no height (`WalletFollowsChain`). A
copy that a call holds came from the table it goes back to (`CopyGood`), so a late
write can bring back what a rollback removed but nothing that never was. When
calls take turns, a held copy is what is stored (`HeldInv`) and the engine's
invariants survive the write. They survive a rescan as well: between its three steps
the storage is cleared and nobody synchronises (`ClearedInv`), empty tables are the
ledger of no block, and the sync that follows begins at the saved height 0
(`TablesInv`). For the balance, `FreshInv` says that while no
sync and no rescan is running the cache is dirty or right; it rests on `HeldInv`
and on `AheadInv`, that a running sync asks only for what the daemon has, so it
cannot end without its event.

**Alternative chains.** The work of a switch is where the proof is: the walk
back ends or runs into the bound, the alternative chain consists of stored
blocks, the rollback stays above genesis, and a chain heavier than the main one
is connected. `NeverInBothPlaces` and `EveryWalkEnds` rest on `WellPlaced`, that
every block stands at its own depth in the tree: on the main chain, and as an
alternative block, whose stored parent, even one that a switch put there in place
of the real one, is one less deep. `Depth` is a parameter of the theorem with
`DepthOfBlocks(Depth)`, which holds of no cyclic tree; hashes of real blocks make
none. Recursive functions over the steps of the walk are reasoned about through a
least counterexample (`LeastNatural`).

`EveryBlockOnItsParent`: an alternative block that records work stands on its own
parent, because only a block that a switch disconnected is stored on another, and
records none (`OwnWork`); so wherever the main chain gains work it stands on the
parent (`LinkInv`). `MainChainIsHeaviest`: every block of the main chain has a chain
of blocks that the validator takes and records no more work than the tip, and so
does every alternative block with such a chain (`TopInv`); a block of a branch that
was never disconnected records the whole work of its branch. `Climb`, a recursive
function over the number of parents, gives the chain and its work; that it does not
depend on where it starts counting (`ClimbShift`) is proved through a least
counterexample too.

**Multisig.** A signer knows the spend keys of the others from its first round
on, and no later round changes them; there are at least two rounds, so the keys
from which the last one makes the sum are those of the first. The proof counts
nothing: `KexInv` relates `known`, `shares` and the round of each signer.

**Native miner.** Every job that is in an inbox, being hashed or in the channel is
either older than the current job or was made from the current template; a hit is
submitted only when its id is the current one.

**Pool client.** Whenever a connection that existed is gone and the client has not
been told to disconnect, the timer is set, or a socket made by it is opening or
waits for its login. The invariant follows each socket through all events of its
own and of its successor.

**Pool miner.** In light mode the last message in a worker's queue is the job that
is due (or a stop, while paused). In full mode, who began a generation goes on
first when it ends, and nobody replaces the dataset while those who waited for it
go on; so what they send is labelled with the dataset they send, and a worker that
loads one keeps the label with the data. The proof is where a third reason for a
wrong dataset was found (section 6).

**Plain wallet.** `GoodBook`: whatever was made or handed out of an account is below
its next index, or the account was asked for early. `getSubaddress` never lowers an
index; `createAccount` resets one, and then nothing of the account was made, or it
was asked for early. `fromJSON` empties the cache but not the indices.

`PlainKept` is the invariant for the rest: a running sync has seen every height up
to where it asks next, and the wallet every height up to its own; an output that is
spent is not listed, and a wallet that cannot sign lists no key image at all.

**RPC client.** `RpcKept`: a server that has failed since it last answered has the
latency `Infinity`, and none that is alive has. Before attempt n at least n - 1
servers have failed, and from the second on the active one is not among them: it stands first in the
ranking, which holds every server. A failed attempt therefore adds a server, and after
as many attempts as there are servers the one alive would have failed too. That
there is a ranking is `OrderedExists`.

**Testnet node.** What a block spends is recorded and what the mempool holds is not
(`NodeInv`). The wallets offer an output again after it was spent, so it is the node
alone that refuses it: `sendRawTransaction` compares with the blocks, so two
transactions of the mempool may spend one output, in the same block then; one that is
sent after the block, whether the same again or another of the same coin, is refused. For the rings, `RingsKept` says that the outputs are
numbered in the order of their heights: an index that was counted from the start of
the chain names an output, in this block and all later ones, and ascending indices
come back from their differences.

**Connection manager.** The list is sorted after each addition and each round of
checks, so the current index may name another connection afterwards, but it always
names one. That a sort keeps the list's members is proved from the order it compares
by (`NumbersOrder`) and from the existence of a sorted list (`OrderedExists`, by
induction over a set of lengths).

**Spending.** `SpendsKept`: what is in the purse came in, and what left it balances.
For as many outputs as a call makes the weight of a transaction is linear in its
inputs (`WeightIsLinear`), so each way of selecting is shown to ask for the fee of
what it ends with (`GuessPays`, `EachPays`). What is selected in some order is worth
the same in any other (`OrderIsWorthNothing`), by induction over a set of lengths
(`InductiveSet`).

**Rules.** `RulesKept`: the windows are those of a chain that never had the blocks
that were popped; each entry is what its block and the entries before it give. The
sums of LWMA are compared term by term with sums of multiples of the largest
difficulty and of the bounds of a solve time (`GrowsSlower`, `LwmaSums`), and both
ways of dividing them stay within the bound (`DampedQuotients`). What the limit
allows is what is paid for (`LimitIsWhatIsPaid`).

**Prices.** `OracleKept`: the record that went out carries no signature of the oracle
but its own, and whatever is held with one has the text that was signed. The text of
a number says the number (`DigitsSayNumber`), so such a record is the one that was
signed. The rate there times the rate back is at most one (`RatesMultiply`), since
both are rounded down.

**Admission.** `AdmissionKept` has one part for each thing a program asks. The middle
of the times never falls: a window loses its oldest time and gains one above the
middle, so the middle one of those in order cannot fall (`WindowSlides`).
What is unlocked stays so, since heights only grow (`OpenOnceAndForAll`). The emission is a running sum whose terms the supply bounds (`EmissionIs`). Quotients
grow with what is divided (`QuotientUp`), and the tolerance takes one part of a fee
(`PartsMissing`).

**Enotes.** `EnotesKept` describes the ledger and, relative to it, each wallet's table.
`LedgerFits`: a transaction's outputs are made with one nonce, it spends outputs of
transactions before it, and what no transaction has spent is worth what was mined.
`TableFits`: a table holds a record of each output the wallet recognises in the part
it has scanned, and of nothing else, marked spent when that part spends its image.
Outputs of one key pay the same address the same amount (`TwinsAre`), so the record
of a key image is right about the output that names it, and a wallet has one of each
image (`SameImage`). Sender and receiver compute one point, since the order of the
scalars does not matter (`PointsMeet`). A transfer takes from the unspent outputs
what its inputs are worth and adds its payments and change, the same value
(`TakenIs`, `PaymentsComeTo`, `LedgerGrows`). What the wallets hold is, record by
record, part of what is unspent (`CarriedOver`, `PartIsWorthLess`).

### Model-checked only

* Liveness (`UseCatchesUp`, `ComesBack`, `SharesSettle`, `HealsItself`,
  `JobsAreTaken`): fairness and `ENABLED` are beyond the prover.
* `RepairsTables`: its claim is the theorem `FaultsAreRepaired`; only the form with
  the regime of the run is not proved. `CallsHold`: both halves are proved,
  `BalanceFresh` by `BalanceStaysFresh` and `SpendsExact` by
  `WalletTablesAreTheLedger`, of the wallet alone instead of one of the run's two uses.
* `TablesAgree`: both halves are proved, `HashesCoverSync` and `SpentKeysAgree`, but
  for `txError`, which breaks the second together with other faults (section 6).
* `CodecHolds`, `KeysHold`, `TemplatesHold`, `TransactionsHold`: what recursive
  operators and folds compute on data (bytes, trees, challenges), for which the
  prover has no induction, or arithmetic modulo the constants of one instance.
* `LibraryTypeOK`, `ServicesTypeOK`: the types of the components of a run.

## 6. What the code does where a doc says otherwise

Seven of these have a run that shows the violation.

* **ReorgBetweenBatches.** `_detectReorg` runs once, before the loop
  (`wallet-sync.js:200`). If the chain changes between two batches, the second
  batch comes from the new branch, the hashes of the first stay, and at the next
  start the tip agrees, so nobody looks below it.
* **IndexedDBUnspend.** `IndexedDBStorage.unspendOutputsAbove` writes the
  outputs store alone (`wallet-store.js:963`); `isKeyImageSpent` stays true.
* **StopDuringFirstSync.** `startSyncing` installs its interval after the await
  of the first sync (`persistent-wallet.js:186`).
* **TestnetRespends.** The engine "Tracks spent outputs via key images"
  (`wallet-sync.js:7`). In a transaction that comes as JSON it looks for them only
  if it is the protocol's (`wallet-sync.js:524`), and the testnet node serves every
  transaction of a user as JSON. A wallet that synchronises after its coin was spent
  selects the coin again, and the node refuses the transaction.
* **ForkChoice.** Blocks that a switch pops are stored with no work and a parent
  looked up in the chain that replaced them (`blockchain.js:365`), so a branch
  that returns does not win with the work it has.
* **OwnSignatures.** Transactions of type SalviumZero are signed by `clsagSign`, the
  "CLSAG for all other types" than SalviumOne (`transaction.js:2129`). It hashes the
  ring's commitments and stores D/8; `clsagVerify` hashes their differences from the
  pseudo output, in another order, with D as it is stored, and refuses what
  `clsagSign` made (`transaction.js:846`). Its doc says "True if signature is valid"
  (`transaction.js:831`), and a test "CLSAG sig verifies with clsagVerify"
  (`test/tclsag-test.js:325`).
* **LostOutputs.** The input context of CARROT outputs comes from the first input
  as it was selected, and the inputs are sorted afterwards
  (`transaction.js:1761`); the receiver reads another first input and finds none
  of the outputs.

### Behaviours under other constants

These contradict no document, so no run claims them. Each can be seen by checking
the property under the constants given (`Events`, `Calls` and `Overlap` of
`WalletSync` and `PersistentWallet` over the trees of `MCWalletSync` and
`MCPersistentWallet`).

| behaviour | constants | property |
|---|---|---|
| a batch interrupted by an error, then a reorganisation below it: its outputs stay, and the rollback deletes only above the ancestor of what was saved | `Events = {"rpcError", "reorgIdle"}` | `OutputsExact` |
| a crash between the calls of a rollback leaves hashes gone below the saved height | `{"reorgIdle", "crash"}` | `HashesCoverSync` |
| a crash between `markOutputSpent` and `putTransaction`: the transaction is processed again, and its history misses the spend | `{"crash"}` | `HistoryExact` |
| a transaction given up half way is processed again later and replaces a spent output by an unspent one | `{"txError", "storeError"}` | `SpentKeysAgree` |
| `rescan()` during a sync clears the tables under it | `{"rescanBusy"}` | `HashesCoverSync` |
| outputs of a view-only wallet have no key image and overwrite each other | `KeyOf <- ViewOnlyKeyOf` | `OutputsExact` |
| a transaction that the daemon serves only as JSON is stored without its spends | `JsonOnly = {move}` | `SpendsExact` |
| `getTransactions` fails: the block counts as done without its transactions | `{"txsError"}` | `OutputsExact` |
| the dirty flag is cleared after the await | `Calls = {"sync", "getBalance"}`, `Overlap = TRUE` | `BalanceFresh` |
| a sync that fails after a rollback does not mark the cache dirty | `Events = {"reorgIdle", "rpcError"}`, `Overlap = FALSE` | `BalanceFresh` |
| `freezeOutput` during a sync writes back an unspent copy | `Calls = {"sync", "freezeOutput"}`, `Overlap = TRUE` | `SpendsExact` |
| `setTransactionNote` during a sync writes back a rolled back transaction | `Calls = {"sync", "setTransactionNote"}`, `Overlap = TRUE` | `HistoryExact` |

### Found while modelling or proving, without a run

*Persistent wallet.* `createTransaction()` always throws: it calls
`estimateTransactionFee` with an object (`persistent-wallet.js:468`) where numbers are
wanted (`transaction.js:2856`), which ends in `BigInt(NaN)`; `selectUTXOs` is called with
an object as well (476), and its answer has no `sufficient` (480). `sendTransaction()`
announces "Mark used outputs as spent (pending)" (`persistent-wallet.js:529`) and writes
nothing.

*Pool miner.* Job B generates a dataset; jobs C and D, of other seeds, wait for
it. When it ends, C begins its own generation, and D, in `_generateDataset`,
awaits C's ("If already generating for this seed", `stratum/miner.js:279`, but no
seed is compared) and is mined with C's dataset. Two seeds cannot reach this; the
proof of `HashesWithItsDataset` did. The history variable `blind` records it.

*Pool client.* The idle timeout of an old socket can close the socket of the
reconnection under way; `held` excludes this from `NeverStranded`.

*Connection manager, consensus.* `_trySwitch` is unreachable, because a failed
RPC call returns instead of throwing. The result of `validateBlockTimestamp` is
an object and always truthy, so a block that extends the tip is never refused for
its time (`blockchain.js:162`). `checkHash` reads a hash big-endian in
`consensus.js` and little-endian in `mining.js`. `hashToDifficulty` and
`difficultyToTarget` are off by one where 2^256 is a multiple. `setExtraNonce`
leaves the daemon's hashing blob as it was.

*Alternative chains.* A failed switch marks no block invalid, so it is tried again
with the next block of its chain. Pruning by height disconnects the children
that stay. A disconnected block that returns can be applied on another branch,
which is why `Linked` speaks only of blocks that add work.

*Rules and prices.* `slice(0, W)` takes the oldest times of the window; the fee
median is an unused parameter; `validateMinerTransactionReward` takes the weight
of the block for the median; the window of 60 is even, so the median may fall;
the fee tiers cross when the medians are below a quarter of the zone;
`getApproximateEmission` may pass the supply by less than the final subsidy.
`getConversionRate` lets SAL1 to SAL or VSD pass where a comment allows SAL and VSD
only; amounts below 32 pay no slippage; a small amount may mint 0 and succeed; the
oracle's fork is 255, so it is never on.

*Transactions.* `convert()` and `buildAuditTransaction` always throw; the change of
a CONVERT has the asset of the destination where a comment says the source;
`validateTransaction` reports a TCLSAG as missing CLSAGs; `signTransaction` hashes
another message; `RCT_TYPE_NAMES` contradicts `getRctType`. `sweepAll` asks
`selectUTXOs` for more than there is; `sweepDust` without keys throws; exact
selection counts one output too few for the fee; a stake or burn with zero change
fails; `createAudit` always fails; `_meta.changeIndex` is wrong after the CARROT
sort; `wallet.js` builds with height 0.

*Codec.* The parser reads the R of a range proof without the count that
`serializeProof` writes (`bulletproofs_plus.js:1081`, `parsing.js:793`; seen with
`ProofRounds = {2}`). Nonces come back signed. A block cut after its protocol
transaction, or a cut v1 transaction, is read without error, and a cut inside the
proofs silently drops the prunable part. `serializeBlock` writes a `p_r` for Null
signatures that the parser does not read. The count of additional public keys is
a varint on one side and a byte on the other. The ring size is that of the first
input.

*Addresses and words.* `carrotSubaddress(0,0)` returns the spend key times the
view key, where the doc says times G, so payments to it are not found.
`generateCNSubaddress(0,0)` gives an address of the subaddress type with the main
keys. `getIntegratedAddress` passes hex where a length of 8 is wanted, and throws.
Full base58 blocks have no overflow check; mnemonic numbers above 2^32 wrap;
padded varint tags alias; CARROT keys derive from the unreduced seed; only English
word lists work.

*Curve.* `scalarMultPoint` answers null for scalars that are 0 or at least L, where
`scalarMultBase` falls back. Points with x = 0 have two accepted texts.
`isValidKeyImage` does not check the subgroup.

*Plain wallet.* A refused answer is skipped and never retried. The tip is processed
again by each sync, so a view-only wallet counts outputs twice. A full wallet throws
at the first output it finds by scanning. View-only wallets never see spends.
`stopSyncing` during the first sync leaves an interval. `getSubaddress(1,1)`
before `createAccount` makes `createSubaddress` return index 1 for ever. A restored
wallet keeps its height but not its outputs. `Account.getBalance`, `getOutputs`
and `getTransactions` call methods that do not exist.

*Native miner.* The IPC message "stop" does not stop the miner; an engine
whose initialisation fails stays, stopped.

*Testnet.* What a transfer pays, and its change, cannot be spent: `transfer()` throws
"Cannot find tx pubkey" at any output that is not of a miner transaction
(`testnet/index.js:238`), because `buildTransaction` keeps `extra` under `prefix`.

*Read but not modelled.* `exportUnsignedTx` throws (BigInt in JSON) unless the
unlock time is a nonzero number; `signOffline` passes a key where
`signTransaction` (`transaction.js:2685`) wants the prefix, inputs and secrets.
Multisig signing never fills its responses, starts its sums from 32 zero bytes, and
counts signatures instead of distinct signers; `prepareMultisig` always fails.

## 7. What is left out

* Storage: `dump` and `load`, the filters of the queries, the key-value state
  beyond the sync height. `IndexedDBStorage.markOutputSpent` awaits a read and then
  a write of the output (`wallet-store.js:751`); here that is one step.
* Engine: a block without JSON, or with JSON that cannot be parsed, which counts as a
  block without transactions (`wallet-sync.js:431`); answers of `getTransactions`
  that leave some transactions out, or whose JSON cannot be parsed (474);
  `scanMempool`, the conversion of JSON transactions (only that it loses
  the inputs, `JsonOnly`), the arithmetic of the adaptive batch size, asset
  types, progress events. Which outputs are owned is a constant here; `Enotes`
  models how it is found out.
* Persistent wallet: `close()` and a second `open()`, `createTransaction`,
  `transfer`, `sendTransaction` and `sweepAll` (none changes the wallet's state),
  amounts and fees, unlock times.
* Plain wallet: listeners and labels.
* Alternative chains: the timestamps themselves, weights and difficulty
  arithmetic (the latter in `ChainRules`), listeners.
* Services: `configure()` and `destroy()` of the RPC client; the events of the
  connection manager and its unreachable `_trySwitch`; statistics, URL parsing and
  command lines of the miners; the JSON and proof of work of the testnet; multisig
  signing and `multisig-carrot.js`.
* Key exchange: `initializeKex` once more, which begins again, and `updateKex` before it
  (`multisig.js:261`). Native miner: a template blob that cannot be decoded, and a
  template of the same tip whose difficulty alone differs. Pool miner: two
  loads of one worker that overlap could mix, because `mining-worker-asm.js:42` keeps the
  memory and the exports in module variables across its awaits; a load is one step here.
* What computes: range proofs, the parsers of signature types before CLSAG, the
  pricing record in block headers (fork 255), more than 1000 proofs, hash rates for
  display, predicates and descriptions of addresses, random scalars, debug output.
* The components in the table of section 1, and `index.js`, which re-exports.
