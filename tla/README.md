# SafeNode in TLA+

TLA+ modules, TLC configurations and TLAPS proofs for the node software in
`src/` (a C++ full node in the Bitcoin/Dash line of descent, with safenodes,
InstantSend, PrivateSend and governance). Paths below are relative to
`src/src/`.

Read first: *What is modelled* for the shape of each model, *Runs* for what
TLC checks, *Proofs* for what holds for every value of the constants,
*Disagreements* for what the code does against its own comments.

    tlc -config MCChainState.cfg MCChainState
    tlapm ChainStateProofs.tla

## Inventory

A node is one process. The threads that matter are the message thread (all
network messages, one at a time), `ThreadCheckDarkSendPool` (once a second:
safenode sync, the safenode list, payments, governance, InstantSend and
PrivateSend clean-up), the RPC workers, the scheduler, the script-check workers
and the shutdown in the main thread. `cs_main` guards chain, coins and most of
validation; each safenode subsystem has its own lock, taken after `cs_main`.
Subsystems follow the chain through the callbacks `UpdatedBlockTip` and
`SyncTransaction` (`dsnotificationinterface.cpp`), called by whoever moves it.

| Component | State | Operations | Hard because | Correct when |
|---|---|---|---|---|
| Script check queue (`checkqueue.h`) | queue, `nIdle`, `nTotal`, `nTodo`, `fAllOk`, two condition variables | `Add`, `Wait`, `Thread`, `CCheckQueueControl` | threads, spurious wake-ups, batches that end in any order | `Wait` returns after the last check and with its verdict; the queue is idle between blocks |
| InstantSend (`instantx.*`) | candidates, votes, orphan votes, voted and locked outpoints | requests and votes from peers, wallet and RPC; `SyncTransaction`; `CheckAndRemove` | votes come before their request, reorganisations, locks given up between two steps, memory-only state | one transaction per locked coin, on a quorum, among all nodes |
| Chain activation (`main.cpp`, `chain.*`) | `chainActive`, block index, `setBlockIndexCandidates`, what is on disk | `ConnectTip`, `DisconnectTip`, `InvalidateBlock`, `ReconsiderBlock`, `FlushStateToDisk`, start and shutdown | crashes and failed writes between two databases, reorganisations | coins and best block belong together, in memory and on disk |
| Coins cache (`coins.*`, `txdb.cpp`) | a stack of caches with DIRTY and FRESH flags over LevelDB | `FetchCoins`, `ModifyCoins`, `BatchWrite`, `Flush`, `Uncache` | a wrong flag is noticed much later, as a coin lost or spent twice | the stack is indistinguishable from whole copies of the coins |
| Memory pool (`txmempool.*`) | transactions, `mapNextTx`, ancestor and descendant totals | accept, remove, remove conflicts, expire, evict | disconnected transactions come back under children already there | no conflicts, totals equal the sums over the graph |
| Safenode list (`safenodeman.*`, `safenode.*`) | entries with a state, seen announcements and pings, recovery requests | announce, ping, verify, `Check`, `CheckAndRemove` | timers against late messages, collateral spent and unspent again | a live safenode stays enabled, a dead one leaves |
| Sporks (`spork.*`) | the newest message per spork | `ProcessSpork`, `ExecuteSpork` | order of messages, no lock | nodes with the same messages agree |
| Safenode sync (`safenode-sync.*`) | current asset, attempt, three times | `ProcessTick`, `Reset`, `SwitchToNextAsset` | resets from another thread, timeouts | it finishes, or fails and starts again |
| Safenode payments (`safenode-payments.*`) | votes, payees per block, last vote per safenode | vote, `AddPaymentVote`, `CheckAndRemove` | votes before their safenode, repeated votes | one vote per safenode and block is counted |
| Governance (`governance*`) | objects, orphan votes, orphan objects, seen maps, triggers | objects and votes from peers, `DoMaintenance` | objects and votes in any order, pointers between maps | every valid vote is counted on the stored object |
| PrivateSend (`darksend.*`) | a session: entries, signatures, state, times | join, add entry, sign, commit, time out | two machines with timers that race | all sign what was agreed, or nobody is bound |
| Active safenode, fulfilled requests, network time | small records with times | `ManageState`, `AddFulfilledRequest`, `AddTimeData` | | |
| Scheduler (`scheduler.*`), HTTP server (`httpserver.cpp`) | a queue and its threads | schedule, service, stop; enqueue, run, interrupt, wait | threads that leave while others wait | tasks run, stop returns |
| Bounded containers (`limitedmap.h`, `cachemap.h`, `cachemultimap.h`) | two structures that mirror each other | insert, erase, prune | limits at the boundary | the mirrors agree, the bound holds |
| Version bits, address manager | a cache of states; two hashed tables | `GetStateFor`; `Add`, `Good`, `Attempt` | order of calls, collisions | answers do not depend on the order; counts agree |
| Peers, wallet, mining, script, RPC, GUI, Tor, ZeroMQ, libraries | | | I/O, pure functions, presentation | see *Not modelled* |

Interactions that carry state from one component into another:

- message thread -> `CInstantSend` -> memory pool and chain (`ResolveConflicts`
  removes rivals, disconnects and reconnects blocks), and back through
  `CheckBlock`, which asks for locks;
- `ConnectTip`/`DisconnectTip` -> pool -> `SyncTransaction` -> InstantSend,
  governance, PrivateSend, wallet;
- `ConnectBlock` -> check queue -> script interpreter;
- chain activation -> coins view of a block -> `pcoinsTip` -> chainstate
  database, and the block index database beside it;
- safenode list -> ranks for InstantSend, payees for payments, voters for
  governance; sync gates the messages of all of them; sporks switch them off.

## What is modelled

### Script check queue: `BatchVerifier`, `CheckQueue`

`BatchVerifier` is the promise: a batch of checks is opened, added to and
answered, and the answer is whether all pass. `CheckQueue` is `CCheckQueue` and
`CCheckQueueControl`. The variables have the names of the members; `pc` says
where each thread is in `Loop` (`enter`, `wait`, `notified`, `run`, `out`,
`gone`), `batch` what it holds. One action is one critical section: from the
entry, a wake-up (notified or spurious), or the end of a batch, through the
clean-up code, to the next wait, batch or return. `Interrupt` is the
`interrupt_all` of the shutdown. `bad`, `added` and `verdict` are the block's
failing checks, what was added and what `Wait` said.

### InstantSend: `TxLock`, `InstantSend`, `InstantSendNet`

`TxLock` is the promise of one node: counted votes only grow until a
transaction is given up, and the inputs of a transaction are locked together,
each with a quorum. `InstantSend` is `CInstantSend` on one node, with the parts
of pool, chain and wallet that it calls or that call it:

- a request from a peer is two critical sections (`ReceiveLockRequest` to
  `FinishRequest`, then `PoolLockRequest`); `awaiting` is the gap between them,
  in which `cs_main` is free. From wallet and RPC it is one, with the pool first
  (`SendLockRequest`);
- `ProcessOrphanTxLockVotes` takes the votes in the order of their hashes, so
  in any order here: `RetryOrphanVote` is one turn of its loop;
- `ReceiveVote`, `ReceiveRefusedVote`, `ReceiveOrphanVote` are the three ways
  through `ProcessTxLockVote`; the last may process the request again;
- `TryToFinalizeLockCandidate`, `ResolveConflicts` and `Replay` are the
  completion, with the disconnected blocks and their return;
- `CheckBlock` and the connection of the block are two steps, since the lock
  filter runs before `cs_main` is taken;
- `CheckAndRemove`, a clock, spork changes, a changing safenode list and a
  restart, which empties every map.

`cast`, `forgotten` and `overrun` are history: the votes this safenode made, the
outpoints whose `mapVotedOutpoints` entry went with an expired candidate, and the locks for which `ResolveConflicts` ran out of blocks to
disconnect and `Replay` completed all the same. The last two name the ways out
of `OneVotePerOutpoint`, `NeverVotesTwice` and `PoolRespectsLocks` that the code
has (*Disagreements*).

`InstantSendNet` has many nodes. Each keeps `TxLock`; votes once cast may reach
a node at any time, in any order, or never; safenodes vote, expire candidates
and restart. What pool and chain may refuse is a choice.

Abstractions. A vote is the triple its hash covers. Transactions differ in
which of the watched coins they spend; these coins are confirmed and old
enough. A vote names an outpoint of its transaction. `GetSafenodeRank` is a
constant score over the current list. `Replay` disconnects to the latest block
that spends an input, at most `nInstantSendKeepLock` deep. The 6 of 10 votes,
24 blocks, 60 seconds and 10 minutes are constants with small values.
Inventory filters and `recentRejects` only drop messages and are left out, as
are fees, eviction, initial download, notifications to the user and
`IsTxLockRequestTimedOut`. In the network, a buried transaction stays buried
and an orphan vote is a vote delivered later.

### Chain and coins: `CoinsCache`, `CoinsLayers`, `ChainState`

`CoinsLayers` is the promise: three whole copies of the unspent outputs (the
block being worked on, the active chain, the disk) that change by whole
commits. `CoinsCache` holds the operations of `CCoinsViewCache`, the modifier
and `CCoinsViewDB` as operators on partial functions. `ChainState` is
`ConnectTip` and `DisconnectTip` one transaction and one input at a time, in a
view over `pcoinsTip` over the database, with the undo data, the block index and
its database, `InvalidateBlock`, `ReconsiderBlock`, the fetches of
`AcceptToMemoryPool`, `FlushStateToDisk` with its order and its three places to
fail, `AbortNode`, `Shutdown` and `LoadBlockIndexDB`. `work` says where the
critical section stands, `flushing` that the index is written and the coins are
not yet. `Restart` may happen at any step: a crash is a restart that was not
asked for.

Abstractions. `nHeight` stands for all of a `CCoins` but its outputs. Undo data
is kept by outpoint. All blocks are received; the genesis block is connected
and written. Which block comes next is left open, so `FindMostWorkChain` and
`ActivateBestChain` are more restrictive than the model. Scripts, amounts,
maturity and payees are the nondeterministic failure of a block in `Disputed`.
`TestBlockValidity` and `VerifyDB` use views that are dropped like that of a
failed block. No new tip is started once the node is stopping: a loop that goes
on is a stop requested later, and the periodic write it may do is
`Shutdown`'s. Not modelled: read errors, a failed write of undo data, pruning,
the transaction, address, spent and timestamp indexes.

### Governance: `Governance`

One node's objects, their votes and the references between the two, on the
message thread and the pool thread. `mapObjects`, `object` (the counted votes,
the vote file, the orphan votes and the flags of a `CGovernanceObject`),
`mapVoteToObject`, `orphanObjects`, `orphanVotes`, `seenObjects` and
`mapInvalidVotes` are the members; `vSafenodes`, `votedOn`, `dirtyHashes` and
the two flags are `CSafenodeMan`'s part. A vote takes
`mnodeman.cs` and drops it before it is stored (`VoteMessage`, `AddVote`,
`StoreVote`); `Notify` is `NotifySafenodeUpdates`, one step per stretch under
one lock; `DoMaintenance` is the maintenance with the clean-up it ends in.
Time is the age of what has a deadline.

### Safenode sync: `SafenodeSync`

`CSafenodeSync` with the requests it remembers (`netfulfilledman.cpp`). No lock
covers the state, so `ProcessTick` (thread "pool") is cut where it reads and
writes it, and so is the `mnsync` command; message handlers and blocks, which
call `IsBlockchainSynced` and may `Reset`, are one step of `World`. The timers
are ages in ticks of six seconds. `asked` and `skipped` are history.

### Safenode payments: `SafenodePayments`

`CSafenodePayments` on one node: votes from peers (`ReceiveVote`, `CheckVote`,
`RefuseVote`, `StoreVote`), the node's own vote (`ProcessBlock`), the sweep of
the pool thread (`CheckAndRemove`, or with the tip moving under it
`SweepAcrossTip`), the miner's two calls (`FillBlockPayee`,
`TestBlockValidity`), and the file, written at a shutdown only (`Restart`,
`Crash`). What `IsValid` and the signature say is either answer.

### Safenode list: `SafenodeEntry`

One entry of the list on a node that is not that safenode: announcements and
pings as they arrive or as answers to a recovery, `CSafenode::Check` as
`NextState`, bans, `CheckAndRemove` in its three parts (the removal and the
requests, `ProcessReplies`, `EndSweep`), blocks, the collateral, and the stages
of the synchronisation that switch the messages on. `seen`, `seenPing`,
`request`, `asked` and `replies` are the maps of `CSafenodeMan` for this
safenode. Times are ages that stop at `Old`. `Fairness` says below why an
announcement is offered again. Entries meet in the length of a ban and in who
is asked only; both are constants.

### PrivateSend: `PrivateSend`

`CDarksendPool` on the safenode that mixes (`mn`, with its two threads `net`
and `timer`) and on its clients (`cl`, with `handler`). The same class is both,
without a lock over its members, so a handler is cut where it waits: on the
safenode for `cs_main` (`create`, `join`, `entry`, `fees`, and `charging` of the
pool thread), on the client for the wallet and in the check of the entry. The
wires keep their order and are lost with the connection. `RelayStatus`,
`RelayFinalTransaction` and `RelayCompletedTransaction` go to every peer. A
signature is the transaction it was made for, since `SIGHASH_ALL` covers all
outputs. Timers may be over at any time. Left out: denominations and amounts,
the list of queues and its limits, several safenodes, and the preparation of
coins.

## Runs

| Run | Instance | States | Shows |
|---|---|---|---|
| `check_queue` | 2 workers, 3 checks, `nBatchSize` 2 | 139 thousand | every controller finds the queue idle; `Wait` returns, with the sequential verdict |
| `instant_send` | 1 coin, 2 rivals, 2 safenodes, 3 blocks, 1 reorganisation, sporks switched, the list changes | 1.2 million | heights are true, votes have their candidates, the pool respects the locks, a lock never moves, a safenode counts once for an outpoint until an expiry erases its vote |
| `instant_send_coins` | 2 coins, a transaction that spends both and a rival for one, orphan votes expire, 1 restart | 1.6 million | quorum on every input, this safenode does not vote for two rivals, the node implements `TxLock` |
| `instant_send_net` | 2 safenodes that must both vote, one may restart | 15 thousand | no two nodes lock a coin differently; every node keeps `TxLock` |
| `chain_state` | 5 blocks on two branches, 5 transactions, 1 failed write | 280 thousand | coins are those of the best block, undo data fits, flags are true, the index covers the coins, the caches implement `CoinsLayers` |
| `governance` | 1 safenode, 1 trigger it signs, its vote to delete it and its change of mind | 303 thousand | no reference outlives its object, the newest vote counts, what was erased stays so, what was voted out goes |
| `safenode_sync` | 1 peer, 2 disturbances (sleep, lost peer, missed lock, command, failure) | 364 thousand | `SwitchToNextAsset` never throws in the pool thread, no stage is skipped, the synchronisation finishes |
| `payments` | 3 votes of 2 safenodes for 2 heights, own vote included, 4 heights, 1 reorganisation, 1 restart or crash | 1.5 million | blocks list exactly the verified votes, in memory and in the file; a vote counts twice at most; a height is forgotten as a whole and when it is old |
| `safenode_entry` | 2 announcements, 1 peer to ask, 2 events of the world or the second announcement instead | 84 thousand | answers are those of the round, a ban is served, silence is not talked away, spent and silent entries are not paid in the end, an early announcement gets its chance |
| `private_send` | 2 clients, 3 starts, 1 lost connection or reset | 930 thousand | signatures are for the transaction of the session; coins are locked exactly while they are promised |

and the counterexamples `candidate_after_restart` and `removed_votes_marked`
(*Disagreements*).

Why the bounds are enough for the questions asked:

- *check queue*: with three checks and batches of up to two, a batch can be
  out with a worker while the master takes another and a third is added; two
  workers are the fewest that can be the last in either order. The number of
  blocks is not bounded.
- *InstantSend*: two rivals give every conflict between two; two coins are the
  fewest with a partial quorum; three blocks with `nInstantSendKeepLock` 1 let
  a candidate be mined, expire and come back; one tick of the clock is past
  every timeout. The two runs divide the question: one has the chain, the
  other the coins and the orphan votes.
- *network*: the proofs cover any size; the instance has the smallest quorum
  that meets `QuorumAssumption` with one forgetful safenode.
- *chain*: the coinbase of `A1` has two outputs; `A2` and `A3` spend them one
  after the other, `B2` in one block, the second from a transaction of the same
  block. That is a partial spend, a full spend, a coin that comes and goes within
  one view and within one cache, and a reorganisation of two blocks for one.
  `Disputed` has one block on the longer branch. One failed write; two are a
  failure in the shutdown that the first one began, which then ends.
- *governance*: the signer of the object is its only voter, so one removal
  and one announcement reach every cache: orphan objects, both kinds of orphan
  votes, votes taken back and votes that return. Nothing but the votes' times
  is bounded.
- *sync*: timeouts of one tick; a disturbance at every point of the tick, and a
  second one on the way back.
- *payments*: the own vote can come back from a peer while it is being counted;
  two votes for one height of different payees, and one safenode at two
  heights; four heights with a storage limit of zero make votes old.
- *safenode entry*: `MaxDisturbances` bounds the events of the world together
  with the second announcement, which takes the place of two. Two events are
  the collateral spent and back, or a ban under a reset; the second
  announcement is what replaces the first in the list and in the marks. One
  peer makes and loses the quorum; the proofs cover any number of peers,
  announcements and events.
- *PrivateSend*: two clients fill a session; the third start is the second
  session of one of them, with what its first one left under way.

`CHECK_DEADLOCK FALSE` stands in the runs whose bounds can be used up
(blocks, starts, disturbances) or whose program may have nothing left to do.

Fairness, where liveness is checked:

- `check_queue`: a thread that entered, was notified, or holds a batch goes on.
  The mutex is held for bounded time, scripts terminate, and a notification
  makes a thread runnable. Spurious wake-ups, interrupts and new blocks are not
  forced.
- `governance`: handlers go on, time passes, and the pool thread comes back to
  its maintenance, every fifth minute of its loop; that is strong fairness,
  since other work of the same thread is in between. Messages are not forced.
- `safenode_sync`: the ticks come, time passes, requests expire after their
  hour, and lost peers are replaced, as `ThreadOpenConnections` does. What
  peers send, and everything that disturbs, is not forced.
- `safenode_entry`: the clock, the stages of `SafenodeSync`, blocks, the two
  rounds of the pool thread, of which the one that needs `cs_main` is not
  always unlucky, and the answers to what was asked. `Offered` is the least
  obvious: a ping of a safenode that is not listed makes a node ask for its
  announcement (`AskForMN`), so a running safenode's announcement comes again.

`private_send`, `payments`, `chain_state` and the InstantSend runs assume none.

## Proofs

For every value of the constants that meets the named assumptions.

- `ChainStateProofs`, its last section: the check queue that `ConnectBlock`
  gives its scripts to. `QueueInv` is `QueueTypeOK`, `Counted` (the three
  counters count threads inside, threads parked, checks outstanding), `Owned`
  (each check has one owner), `Controlled` (between blocks the master is outside
  and nothing is added) and `Known` (what `fAllOk` says of the checks reported so
  far). The properties fail to be inductive on their own because each is about
  the moment between blocks, and what makes that moment safe are the counters.
  Theorems: `QueueTypeCorrect`, `QueueInvCorrect`, `ConstructorAssertionHolds`,
  `NoWorkAfterWaitHolds`, `QueueRefinesVerifier`.
- `InstantSendProofs`. `TypeCorrect`; `NoDanglingVoteHolds` (the unchecked
  look-ups in `Vote` and `ProcessTxLockVote` find their candidate);
  `LockHasQuorumHolds`; `LocksRefine`, that a node implements `TxLock` with
  orphan votes, expiry, reorganisations and restarts included.
  `ConfirmedHeightHolds`: a candidate's height is that of the block of its
  transaction. It needs that a transaction is mined once (`MinedOnce`), and that
  every disconnection and connection inside one completion is followed by its
  `SyncTransaction` (`Follows`, carried through the recursion of
  `ResolveConflicts`). `LockNeverMovesHolds` rests on it: what expires is mined,
  and deep, so no lock is dropped under a transaction that may still move.
  `OneVoteHolds` and `NeverVotesTwiceHolds` share `BallotInv`: a vote that is
  counted is also in `mapVotedOutpoints` or its outpoint is `forgotten`, and this
  safenode's own votes are counted or on their way. `PoolRespectsLocksHolds`:
  the pool holds no rival of a locked transaction unless its completion was
  `overrun`.
- `InstantSendNetProofs`. `AgreementHolds` and `EachKeepsTxLockHolds`, from
  `QuorumAssumption`: two quorums for one outpoint overlap in more safenodes
  than may have restarted after voting. With 6 votes of 10 and the same list
  everywhere that allows for one. The argument: a safenode that has not
  forgotten never cast two votes for an outpoint, every locked outpoint has a
  quorum of cast votes, so two locks share an honest voter.
- `ChainStateProofs`, the chain. `IInv` is `CoinTypes`, `FlagsTrue`, `OtherTypes` and
  `DraftInv`: the view is empty unless a block is worked on, nothing is flushed
  while it is, and the transactions of a block that is being connected have no
  unspent outputs in the chain below (BIP30, which is what makes
  `ModifyNewCoins` sound). Theorems `Inductive`, `TypeCorrect`, `FlagsHold` and
  `LayersRefine` follow, failed writes and crashes included.
  `BestBlockIsTipHolds` adds where the tip stands while `work` is under way.
  `IndexCoversCoinsHolds` adds `IndexInv`: undo data goes back to genesis in
  both copies of the index (`Closed`), the best blocks have theirs (`Covered`),
  the two copies differ in dirty entries only, and `WorkInv`. It speaks of
  runs in which no write has failed; `IndexBeforeCoins` under *Disagreements*
  is why.
  `CoinsOfBestBlockHolds` and `UndoIsCleanHolds`, for such runs too, rest on
  `CoinsInv`: while block `b` is worked on, the view says `Stage(b, i, k)`, the
  coins after `i - 1` of its transactions and `k` inputs of the next one.
  `Connected` is the history of a block that is being connected: no transaction
  has outputs before its turn, each input was there when it was spent and is
  gone since, and `blockundo` has the height where the input was the last of
  its transaction. `Fits` says so of a whole block; every recorded undo has it,
  in both copies of the index, so `GiveBack` and `TakeBack` undo the stages one
  by one. The sums themselves, `After` and `UtxoOf`, are recursive functions:
  that they satisfy their equations is shown by the least number, or the least
  height, at which no function would (`AppliedEnds`, `SummedEnds`).
- `GovernanceProofs`. `IInv` is `HandsOK` (the vote a handler stores is for an
  object that is stored, and `governance.cs` keeps others out until it is),
  `VotePointersLive`, `SeenOnce` (what was erased is marked as seen), that
  erased objects are not stored, and `AllTallied`. `HandsOK` is what the
  properties lack: between `AddVote` and `StoreVote` the vote is on file and not
  yet referred to. That the newest vote of a slot exists rests on the order of
  the natural numbers being well founded. Theorems `VotePointersLiveHolds`,
  `TallyIsNewestHolds`, `ErasedStaysErasedHolds`; and `TypeCorrect`, where the
  loop that erases entries from the vector is a recursive function: `LoopEnds`
  shows that its equation has a solution, by the least length without one.
- `SafenodeSyncProofs`. `IInv` adds to `TypeOK` and `AskedBeforeLeaving` that
  the state is not the failed one while the pool thread is anywhere in its tick
  (`InTick`: only `Fail` fails, and it ends the tick), that an attempt that was
  used or a switch that was decided on belongs to a stage that was asked for,
  and that the tick that asks for the chain again is that of the sporks. Theorems `TypeCorrect`,
  `PoolNeverThrowsHolds`, `AskedBeforeLeavingHolds`.
- `SafenodePaymentsProofs`. `Agrees` relates one copy of the votes to one of
  the blocks; `IInv` says it of the maps in memory and of those in the file,
  with what each thread holds in its hands (`HandsOK`: one vote at most) and
  `AtMostTwice`. Theorems `TypeCorrect`,
  `ListedVotesAreVerified`, `VerifiedVotesAreListed`, `CountedAtMostTwice`,
  `ForgottenTogether`.
- `SafenodeEntryProofs`. `TypeCorrect`, `RepliesHold`, and two action
  properties, `BanServedHolds` and `NewStartIsRequiredHolds`, each from the
  invariant of its own that the recovery and the ages need. The case that
  decides is the cached `Check`: an entry may be older than its state says.
- `PrivateSendProofs`. `SignaturesFit` and the shape of the pool (`PoolOK`) need
  to know of everything that is under way. `Numbered`: the entries of a client
  are numbered by its starts, and the numbers grow from the pool over the entry
  whose handler waits to those still on the wire; no transaction that is to be
  signed, or comes signed, has an entry that is still to come. `Queued`: on one
  wire no signature is behind a later entry. `Answered`: a signature on its way
  is for the client's newest entry in the pool or a newer one. `OnlyThese`: of
  the transactions under way only the one being signed has entries of the pool
  in it. All of this is kept by actions that send nothing new (`Quiet`), which
  are most; a new entry, a final transaction, a signature and a new start have
  a lemma each. `LocksFollowPromises` rests on `ClientFits`, which says of a
  client alone what its coins and its entry are while a handler is at work.
  Theorems `TypeCorrect`, `SignaturesFitHolds`, `LocksFollowPromisesHolds`.

Only model-checked is liveness, which is out of the prover's reach: `WaitReturns`,
`DeletedIsErased`, `FinishesAgain`, `SpentIsRemoved`, `SilentIsNotPaid`,
`WaitsForConfirmations`. Every other property of a run that passes is a theorem.

The type invariants of the other modules are proved and are not in the runs.

## Disagreements

Found while modelling. Two have a run that ends in the counterexample:

- *A node that cannot start* (`candidate_after_restart`). `InvalidateBlock`
  marks reach the disk before the coins leave the block; after a crash no
  candidate is left and an assertion fails.
- *Votes of a safenode that left go on counting* (`removed_votes_marked`). The
  copy constructor of `CSafenode` leaves `mapGovernanceObjectsVotedOn` out, so
  an entry that the vector has moved forgets what it voted on.

The others are stated in their module and fail there when added to its
configuration:

- `InstantSend.OrphanVoteWaits`: `ProcessOrphanTxLockVotes`, run for one
  request, drops the waiting votes of every other transaction, and their hashes
  stay known, so they are ignored when sent again.
- `InstantSend.BlockRespectsLocks`: the lock filter of `CheckBlock` runs before
  `cs_main` is taken and its result is cached.
- `InstantSend.LockEvictsRivals`: `ResolveConflicts` calls
  `ActivateBestChain` before the inputs are locked, so a conflicting block is
  reconnected.
- `InstantSend.OneVotePerOutpoint` and `NeverVotesTwice` without `forgotten`:
  the expiry of one candidate erases `mapVotedOutpoints` under a living rival
  (`instantx.cpp:598`), so a safenode counts for both, and votes for both after
  a reorganisation deeper than `nInstantSendKeepLock`.
- `InstantSend.PoolRespectsLocks` without `overrun`: the result of
  `ResolveConflicts` is not looked at (`instantx.cpp:548`), so a lock can be
  completed with a rival back in the pool.
- `ChainState.BestBlockRepresented`: a failed write empties `pcoinsTip`, the
  shutdown flushes it again with its best block.
- `ChainState.IndexBeforeCoins`: the failed write of the index empties the
  dirty set, the shutdown goes on to write the coins.
- `Governance.OrphanVoteCounted`: votes that waited are counted on the
  handler's object after a copy of it was stored, and lost (`governance.cpp:242`).
- `Governance.DistinctVotesKept`: `operator<` of `CGovernanceVote` never holds,
  so two orphan votes of one second are one (`governance-vote.cpp:307`).
- `Governance.AddedMeansNotified`: the flag of added safenodes is cleared after
  the locks were dropped (`safenodeman.cpp:1677`).
- `SafenodeSync.NothingLeftOver`: `nTimeNoObjectsLeft` is cleared on one of the
  ways out of the last stage only (`safenode-sync.cpp:457`).
- `SafenodePayments.OneVoteAHeight`: `CanVote` remembers one height per
  safenode, so votes for alternating heights pass (`safenode-payments.cpp:249`;
  the instance is `MCAlternate` of `MCSafenodePayments`).
- `SafenodePayments.TemplateAccepted`: a vote counted between the choice of the
  payee and its check makes `CreateNewBlock` throw (`miner.cpp:307`).
- `SafenodePayments.CountedOnce`: the check and the counting are apart.
- `SafenodeEntry.ListedIsSeen`, with two announcements: one that comes too soon
  to replace the listed one takes its place on record all the same
  (`safenodeman.cpp:1453`).
- `PrivateSend.EntriesAreOfUsers`: a full queue answers `STATUS_ACCEPTED` with
  its session (`darksend.cpp:55`), and entries are not compared with the
  collaterals of the session; an entry more than fit resets it for all.
- `PrivateSend.NothingOutlivesSession`: an entry that waited for `cs_main`
  while its session timed out is added to the idle pool (`darksend.cpp:987`)
  and enters the next session.

Further, without a formula: a vote that arrives after its transaction was
mined keeps `nConfirmedHeight` -1 and is not expired by height
(`instantx.cpp:66`; the comment at 1059 speaks of the vote's transaction); a
safenode that restarts votes again, against the comment in `Vote` at 192-193
(`InstantSendNet` counts such safenodes in `forgetful`). In PrivateSend,
`CommitFinalTransaction` resets the session before it tells the clients that
it failed (`darksend.cpp:633`, against "just notify clients"), so the message
carries session 0 and nobody in the session takes it; a user who joins last can
miss the session's number when the pool thread opens it before the answer is
written (`AddUserToExistingSession`, `CheckForCompleteQueue`, `PushStatus`);
`privatesend reset` under a handler can leave an entry in an idle pool, and no
mixing starts again (`LocksFollowPromises` excepts it).

## Plan

What is left, in this order; lines name the hazards to aim at.

1. `Scheduler` and `WorkQueue`: service threads and stop (`scheduler.cpp:92`,
   `httpserver.cpp:155`); refinement of a bag of tasks, liveness of stop.
2. `MempoolPackages`: ancestor and descendant totals against sums over the
   graph (`txmempool.cpp:267`).
3. `Sporks` (`spork.cpp:40`), `LimitedMap` (`limitedmap.h:48`), `CacheMap`
   (`cachemap.h:119`), `VersionBits` (`versionbits.cpp:32`): small state
   machines against a reference definition.
4. `AddrMan`: the two tables and their counts (`addrman.cpp:150`). Block
   download: in-flight blocks against timeouts (`main.cpp:6783`).
5. More of what is modelled in part: several safenodes, queues and the limits
   on them in `PrivateSend`, and that a session ends; the verification of
   addresses in `SafenodeEntry`; superblocks and requests for missing votes in
   `SafenodePayments`; the files of the managers.
6. Compositions: `SafenodeEntry` under `SafenodeSync` instead of a parameter,
   and the list as a product of entries with the index of the network.

Each new module comes with its type invariant and its safety properties as
theorems.

## Not modelled

Sockets and connection threads, the wallet beyond the submission of lock
requests, block assembly beyond the payee and difficulty, the script
interpreter, RPC, REST, the GUI, Tor control, ZeroMQ, and the cryptography and
storage libraries: they are I/O, presentation, or pure functions that the
repository covers with test vectors. In the parts that are modelled: the state
`WATCHDOG_EXPIRED`, the verification of addresses and the relaying of
announcements (`SafenodeEntry`); superblock payments, rate limits and watchdogs
(`Governance`); the counts peers report (`SafenodeSync`); denominations, amounts
and fees (`PrivateSend`). `PROJECT.json` lists every component with its status.
