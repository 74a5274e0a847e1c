# The chain state of a Krovacoin node in TLA+

TLA+ models of the part of the node that decides which blocks are active and
keeps their coins: the stack of coin views, the way it reaches the disk and
survives a crash, the activation of the best chain, the threads that check a
block's scripts, the queue through which the rest of the node hears of it, and
the payouts of the staking rewards pool. Each model is checked with TLC on a
small instance; the safety of each is proved with TLAPS for every value of its
constants. Paths and line numbers are those of the repository under `src/`.

## The system

| part | state | operations | modelled in |
|---|---|---|---|
| coin views (`coins.cpp`, `coins.h`, `sapling/sapling_txdb.cpp`) | a `CCoinsViewCache` per block over `pcoinsTip` over `CCoinsViewDB`; coins, nullifiers, anchors, DIRTY and FRESH flags | read, add, spend, undo, push and pop anchors, flush, uncache | `CoinsViewCache` |
| chainstate database (`txdb.cpp`, `dbwrapper.cpp`) and recovery (`validation.cpp`) | coins, Sapling state, best block or head blocks; block index; undo data | `FlushStateToDisk`, `BatchWrite`, `ReplayBlocks`, `LoadChainTip`, shutdown | `ChainstateFlush` |
| block tree and activation (`validation.cpp`) | `mapBlockIndex` with its status flags, `setBlockIndexCandidates`, `mapBlocksUnlinked`, `chainActive` | accept a header or block, `ActivateBestChain`, `InvalidateBlock`, `ReconsiderBlock`, restart | `ChainActivation` |
| script check queue (`checkqueue.h`) | queue, counters, two condition variables | `Loop`, `Add`, `Wait`, the control object, interruption | `CheckQueue` |
| task scheduler and validation queue (`scheduler.cpp`, `validationinterface.cpp`, `Shutdown` in `init.cpp`) | tasks by time, pending callbacks, promises | `serviceQueue`, `schedule`, `AddToProcessQueue`, `ProcessQueue`, `SyncWithValidationInterfaceQueue`, `EmptyQueue`, `stop` | `Scheduler` |
| staking rewards pool (`consensus/superblock.cpp`, `ConnectBlock`, `blockassembler.cpp`) | the pool's coin, the stakers of the cycle, payouts in the memory pool | schedule, tally, distribution, broadcast, assemble, connect, disconnect | `RewardsPool` |
| memory pool, sporks, premine and vesting, network, wallet, PoS kernel and miner, RPC, GUI, script and cryptography | | | not modelled, see the end |

How they meet: a message or RPC handler stores a block and calls
`ActivateBestChain`; that connects and disconnects blocks one by one, each in a
`CCoinsViewCache` of its own over `pcoinsTip`; after each, `FlushStateToDisk`
may write the index and the coins. The scripts of a block run on the threads of
`CCheckQueue`; at a superblock the block must pay the stakers out of the pool;
what was connected is announced through the validation queue, which the
scheduler's thread drains. `cs_main` serialises the chain state, except that
`ActivateBestChain` lets go of `cs_main` between its rounds and keeps only
`m_cs_chainstate`.

What is hard here, and what the properties are about: flags that are only wrong
after a particular sequence of adds, spends and flushes over several levels; a
flush in several batches that a crash may cut anywhere, and a recovery that may
be cut itself; failed writes followed by the flush of the shutdown; blocks in
any order; a reorganisation that fails halfway; calls of `invalidateblock` and
`reconsiderblock` while an activation is under way; marks and orderings that a
restart does not keep; wake-ups that are lost, threads that leave by an exception
and a status that is reset between two blocks; a decision under one lock that is
acted on under another; a shutdown that joins a thread which waits for one that
has been stopped; rounding that adds up over years, and a rule of consensus that
no block may be able to meet. `PROJECT.json` lists these hazards line by line.

## Modules

| module | role |
|---|---|
| `UtxoSet` | abstract specification: one map of coins, a set of nullifiers and of anchors, changed by whole blocks |
| `CoinsViewCache` | the three levels with entries and flags; implements `UtxoSet` |
| `CoinsViewCacheProofs` | its theorems |
| `ChainstateFlush` | flush, crash, power loss, failed write, replay |
| `ChainstateFlushProofs` | its theorems |
| `ChainActivation` | block tree, candidates, activation, the two RPC calls |
| `ChainActivationProofs` | its theorems |
| `BlockVerdict` | abstract specification: checks are handed over for a block, the answer is their conjunction and comes |
| `CheckQueue` | the threads of the check queue; implements `BlockVerdict` |
| `CheckQueueProofs` | its theorems |
| `CallbackOrder` | abstract specification: callbacks run one at a time, in order |
| `Scheduler` | service threads, the callback queue, who fills it and waits for it, shutdown; implements `CallbackOrder` |
| `SchedulerProofs` | its theorems |
| `RewardsPool` | schedule, distribution and life of the pool's coin |
| `RewardsPoolProofs` | its theorems |
| `SumTheorems` | what the proofs need about sums over finite sets |
| `MC...` | instances for TLC |

In each model module, operators whose comments call them faulty or a mutant, or
that directly precede the definition they imitate, are plausible mistakes used
to test that a property can fail. No specification uses them.

### CoinsViewCache

`dbX`, `tipX` and `viewX` are the database, `pcoinsTip` and the view of the
block at hand, for X one of Coins, Nfs (nullifiers), Anchors, Root (best
anchor) and Block (best block). An entry is a record of its value and flags;
`NoEntry` is a key that is not in the map. The pure operators `AddCoin`,
`SpendCoin`, `FetchCoin`, `SetNullifiers`, `PushAnchor`, `PopAnchor`,
`BatchWriteCoin` and so on are the member functions of the same names. A read
that falls through puts a copy in the levels it passes, as in the code.

A block is a *session*: `OpenConnect` or `OpenDisconnect`, steps
(`ViewSpendCoin`, `AddOutput`, `ApplyTxInUndo`, `SpendNote`, `UnspendNote`...),
`FinishConnect` or `FinishDisconnect`, then `FlushView`; or `Abandon` at any
time (a block that is refused, `TestBlockValidity`). Outside sessions the tip
is read, flushed (`FlushTip`) and entries are dropped (`Uncache`). All of this
runs under `cs_main`, so nothing else touches the tip during a session.

A coin is a model value and a Sapling tree is named by its size. Which
transactions a block holds is left open: a session may spend any unspent coin,
create any absent one, and restore any spent one. Transaction ids are taken to
be unique: like the code, which has no test for a duplicate id in
`ConnectBlock`.

### ChainstateFlush

`db` is the chainstate database and `synced` the part of it a power loss cannot
take: `CCoinsViewDB` writes its batches without fsync, the block index is
written with it. `phase` is where the node is: `down`, `load`, `replay`,
`replayflush`, `run`, `flush`, `stop`, `stopflush`, or `refused` when start-up
gives up. The caches are not repeated here: `coins` is what a read of
`pcoinsTip` gives, which the refinement proved for `CoinsViewCache` justifies.
A flush takes the outpoints in batches of any size and order (`WritePartial`,
`WriteFinal`); a step between two batches can only be a crash, since `cs_main`
is held. The batches also take outpoints that have not changed, which writes
the value that is already there.

`Utxo[b]` is the set of coins after block b, defined by the assumption
`UtxoAssumption` from the inputs and outputs of the blocks: the tree contains
only blocks that `ConnectBlock` accepts. A coin is named by the block that
created it, a commitment tree by the set of blocks whose notes it holds.

`Next` holds everything but failed writes; `ErrorSpec` adds them
(`IndexWriteFails`, `PartialWriteFails`, `FinalWriteFails`): `CDBWrapper`
throws and `FlushStateToDisk` calls `AbortNode`, which only requests a shutdown.
So the node runs on with the view it has, may connect blocks and flush again,
and `Shutdown()` flushes twice more (`AfterError`). Besides the finding on a
lost batch, two properties fail under `ErrorSpec`. `NeverRefusesToStart`:
`setDirtyBlockIndex` is emptied before the write (`validation.cpp:1686`), so that
the next flush writes coins for blocks which the index lacks, and the next start
gives up. `HeadsMatch`: a batch fails, another block is connected before the
shutdown, and its flush meets heads that name the block before it; the
assertion in `BatchWrite` then ends the process (`FullFlush` with
`~HeadsAgree`), which leaves the disk as a crash would.

### ChainActivation

The thread in `ActivateBestChain` holds `m_cs_chainstate`, so there is one, and
its locals are variables: `pc` (`loop`: between rounds, `cs_main` free; `find`,
`step`, `test`: inside a round), `mostWork`, `startTip`, `oldTip`, `connected`.
`waiting` counts the threads that are about to call it. `rank` is the order of
`CBlockIndexWorkComparator` among blocks of equal work; a restart chooses it
anew, as the addresses of the loaded entries do. `unsaved` are the blocks that
`FindMostWorkChain` marked without putting them in `setDirtyBlockIndex`: a
restart may or may not forget these marks.

Two Boolean constants name circumstances in which properties fail. Both are
FALSE in the passing run, and each is TRUE in a run that exhibits a failure:
`InvalidateMidway` lets `invalidateblock` come between two rounds of an
activation that has a target (`invalidate_assert`), and `ReconsiderBelow` lets
`reconsiderblock` be given a block that has a failed ancestor
(`reconsider_marks`). With the latter `MarksHaveACause`, which `CheckBlockIndex`
asserts at `validation.cpp:3870`, `CandidatesAreTheGoodBlocks` and
`ValidBlocksAreActivated` fail: `ReconsiderBlock` clears the ancestors of its
block (`validation.cpp:2297`), but not their other descendants, and makes no
cleared ancestor a candidate, so that a valid chain that ends in one is not
activated before a restart. `MarksKeepTheirCause` needs neither condition; with
both constants TRUE TLC finds it to hold too (732,606 states). What the passing
run says otherwise holds for nodes on which neither happens; which property
needs which of the two is said with the proofs.

Left out: `pindexBestInvalid`, `pindexBestHeader` and the warnings; the
batches of 32 blocks, which change no state; disk errors, which end the node;
a shutdown in the middle of an activation; checkpoints; `-maxreorg`; pruned
data; `invalidateblock` of the genesis block.

### CheckQueue

A step is one critical section of the queue's mutex, or what a thread does
between two of them. `pc` is where a thread is in `Loop`: at the mutex for the
first time (`first`), with a batch done (`next`) or out of its wait (`woken`),
`asleep`, or `running` a batch; the master is also `out` of the queue or has a
control object `open`. `Sleep`, `Take` and `Return` are the three ways through
the critical section, each with the clean-up that comes first (`TodoAfter`,
`AllOkAfter`, `TotalAfter`, `IdleAfter`, and `MasterWoken` for the
notification). A check is its number in the block, `good` are those that return
true. `Enter(FALSE)` is a block that is given up before `control.Wait()`: the
destructor waits instead.

`InterruptAll` is the shutdown. A wait of boost's condition variable is an
interruption point, so `ThrowWorker` leaves `Loop` with `nIdle` and `nTotal` as
they are during a wait; `ThrowMaster` leaves `Wait`, and the unwinding calls it
again from the destructor. The same exception out of the destructor would end
the process (`Terminate`); for that an interruption has to be requested while
the destructor waits. The `Open` of a model block waits for `IsIdle`, which the
code asserts; `IdleBetweenBlocks` says that it always holds there.

### Scheduler

A step is one critical section of `newTaskMutex` or of
`m_cs_callbacks_pending`, the body of a task, or a notification. A task is
`process` (a `ProcessQueue`, scheduled for now), or the periodic one before and
after its time has come (`later`, `due`). A thread that sleeps is at `wait`, or
in `wait_until` at `later` or `due`. Callbacks are numbered as they are added;
`promise` and `before` belong to the threads that call
`SyncWithValidationInterfaceQueue`.

The threads: `Services` run `serviceQueue` (`init.cpp` starts one; the code
provides for several and the tests use them); `Activators` are threads of the
thread group in `ActivateBestChain`, which wait for the queue when it holds more
than `Backlog` callbacks; `Clients` call `BlockUntilSyncedToCurrentChain`, which
waits with any pending callback: RPC threads, for which `Shutdown` waits before
it stops the scheduler, and `Stakers`, the staking threads of the thread group
(`SolveProofOfStake`, `blockassembler.cpp:104`), which it joins afterwards.
`Main` runs `Shutdown`. A block adds one callback, the two flushes of `Shutdown`
at most one each, according to the time of the last (`SetBestChain`); the second
is dropped with the client, as its comment says.

`Stuck` is the state of finding 5 below: a thread that `Shutdown` joins waits for a
callback, and the scheduler has stopped. `ShutdownEndsOrStuck` says that nothing
else keeps a shutdown from ending, and `EveryCallbackRuns` excepts the same
state, in which the callbacks stay in the queue. `WaitedForEarlier` is stated for
calls that waited: a call that finds nothing pending returns at once
(`validationinterface.cpp:129`), also when the last callback is still being run,
although `validationinterface.h:46` describes it as a wait for a callback of its
own. What a callback does is not modelled, and so not that it may need
`cs_main`, nor that it may throw: an exception leaves `serviceQueue` and
`TraceThread`, which rethrows it, and ends the process.

### RewardsPool

`chain` is the active chain: for each block its staker, its payouts and the
value of the pool's coin after it. `mempool` is the sequence of payouts in the
memory pool, each spending the change of the one before. The operators of the
schedule and of the distribution bear the names of the functions in
`superblock.cpp`. `ConnectBlock` demands a payout as the code does and accepts
payouts in other blocks, which nothing forbids. `CreateNewBlock` is a staker's
block with what `addPackageTxs` takes from the memory pool. Payouts that pay the
relay fee it takes by themselves; any others it may take as well, in a package
with a transaction that spends a share and pays for both
(`GetModFeesWithAncestors`), or because `prioritisetransaction` raised their
modified fee. Those transactions are not part of the state, so the assembler may
stop at any payout below the relay fee or go on. `ReceiveSuperblock`
is a superblock whose producer put the payout into it by other means, without
which the chain would end, see the findings; `BroadcastPayout` is the operator
who follows `getsuperblockinfo`; `DisconnectTip` returns payouts to the memory
pool without a look at the fee, as `UpdateMempoolForReorg` does.

A payout is not bound to a height. One that a disconnected superblock returned to
the memory pool may be confirmed by an earlier block or beside the next demanded
one: a *stray* payout, which nothing demands and which pays a cycle again. The
properties say what remains true. `AheadOnlyByReorganisation`: the demanded
payouts stay behind the schedule by the release of the first cycle, and with a
positive relay fee there are never more stray payouts, on the chain and waiting,
than blocks were disconnected. `PayoutCanBeBuilt`: that first release, never paid,
is a reserve, and while stray payouts took no more than it the pool has what a
superblock demands. `LeftoverKept`: only a block with a stray payout takes from
what was kept back. In the run both sides of these conditions occur: the pool is
ahead of the schedule in some states, and in some, where stray payouts took more
than the reserve, its coin is worth less than the payout the next superblock
demands.

The pool is one coin: others that pay to the pool's script are left out. So are
failed block reads in the tally, the dates of the vesting outputs and the
expiry of the memory pool. With `MinRelayFee` = 0 (an option of the node) the
memory pool also holds payouts that were broadcast and not yet demanded; the
second part of `AheadOnlyByReorganisation`, which counts what waits there, is
therefore stated for a positive fee, the default, which the runs keep. That part
is about chains whose blocks come from this assembler or are superblocks built
around their payout: no rule of `ConnectBlock` stops another producer from
taking a signed payout into an earlier block.

## Runs

| run | instance | shows |
|---|---|---|
| `view` | one outpoint, two spendable coins and one unspendable, one nullifier, two trees, two block hashes: 126,962 states | `FlagsMeanWhatTheySay`: FRESH only over a level without the coin, not DIRTY only where the levels agree. `NoLogicError`: no `logic_error`, no failed assert. `AnchorsFollowTheChain`. `FlushStoresTheTip`: whatever step changes the database leaves it equal to the tip. `ImplementsUtxoSet`: refinement |
| `flush` | a fork of two branches, four blocks, two outpoints, two crashes or power losses: 428,941 states | `BestBlockMeansItsCoins`, `NeverRefusesToStart`, `HeadsMatch` (the assert in `BatchWrite`), `RunsOnItsTip`, `TransitionsComplete`, `InterruptedFlushIsFinished` |
| `activation` | four blocks over the genesis block, one malformed and one invalid, two calls, one restart, two waiting threads: 120,430 states | what `CheckBlockIndex` asserts (`CandidatesAreTheGoodBlocks`, `UnlinkedBlocksWait`), the other asserts (`CandidatesLeft`), `MarksKeepTheirCause`, `ActiveChainIsValid`, `BestChainIsActive`, `ForwardProgress`; with fairness `ActivationEnds`, `ValidBlocksAreActivated` |
| `checkqueue` | two workers and the master, blocks of up to four checks, batches of up to two, one shutdown: 440,798 states | `AnswersForTheBlock`: refinement of `BlockVerdict`, liveness included. `IdleBetweenBlocks`: the assert of the control object. `TodoIsWhatIsLeft` |
| `scheduler` | two service threads, one in `ActivateBestChain`, one that stakes, one RPC thread, up to four callbacks, a shutdown at any time: 187,096 states | `InOrderOneAtATime`: refinement of `CallbackOrder`. `NoneLeftBehind`, `EveryCallbackRuns`, `WaitedForEarlier`, `NoServiceLeft` (the assert of `EmptyQueue`), `NoneMissed`, `ShutdownEndsOrStuck` |
| `rewards` | three phases of two cycles of two blocks, two stakers in every mix, 15 blocks, up to three disconnected: 344,127 states | `PoolConserved`, `AheadOnlyByReorganisation`, `LagBounded` (how far it may be behind), `PayoutCanBeBuilt` (when consensus demands nothing impossible), `LeftoverKept` |
| `flush_sapling`, `flush_lost_batch`, `invalidate_assert`, `reconsider_marks`, `shutdown_hang`, `rewards_stall` | as above | each a counterexample, see Findings |

Deadlock is checked, except where the system may stop: a node that has received
every block and used up its calls (`ChainActivation`), a queue whose threads have
been interrupted (`CheckQueue`), a node that is down (`Scheduler`), a chain at
its bound (`RewardsPool`).

### Bounds

* `MaxRoot`, and one outpoint and one nullifier in `view`: keys do not
  interact in a cache, and one key meets every combination of flags in three
  levels. Two spendable coins tell an overwrite from a coin that was there. The
  theorems cover all sizes.
* `MaxCrashes` = 2 in `flush`: the second crash can fall in the replay after
  the first. The tree has a fork, a coin spent in a later block, one spent in
  its own block and one transaction on both branches. The theorems cover any
  tree and any number of crashes.
* `MaxCalls` = 2, `MaxRestarts` = 1, `MaxThreads` = 2 in `activation`: enough
  for an invalidation and its reversal, or two invalidations, around a
  reorganisation that fails; two threads let one wait while another is in
  `ActivateBestChain`. The tree has a fork below its last blocks and a block
  with as much work as two. The safety theorems cover any tree and any numbers.
* `NumChecks` = 4 and `BatchSize` = 2 in `checkqueue`: batches of one and of
  two, and enough of them for three threads to be busy at once while a fourth
  check is queued; a valid block, one whose first and one whose third check
  fails. Blocks follow one another without bound. The theorems cover
  any number of workers and checks.
* `MaxCallbacks` = 4 in `scheduler` and `shutdown_hang`: two belong to the
  shutdown; the others are a block's and a waiting caller's, in either order and
  on either service thread. `Backlog` = 1 in place of 10 in `scheduler`, so that
  two pending callbacks are a backlog; `shutdown_hang` has 10, which four
  callbacks never reach, and a staking thread: it hangs without a backlog. The
  safety theorems cover any numbers.
* `MaxHeight` = 15 in `rewards`: all six superblocks of the schedule, so every
  boundary between phases, and one after its end; amounts that divide evenly
  neither over the cycles of a year nor over the stakers (21, 11, 5). Three
  disconnected blocks take back a superblock and the cycle before it, or the same
  superblock several times, so that two of its payouts wait in the memory pool
  and enter one block. The stakers are symmetric. The theorems cover all
  lengths, amounts, stakers and reorganisations.

### Fairness

* `WF(NodeStep)` in `ChainstateFlush`: a node that has crashed is started
  again, and the thread that starts it, replays and finishes a flush runs on.
  Nothing else is assumed; in particular the node need never flush on its own.
* `WF(Activation)`: the thread in `ActivateBestChain` runs on; it waits for
  nothing but `cs_main`, whose holders do not wait for it.
  `WF(EnterActivate)`: a thread that waits for `m_cs_chainstate` gets it once
  it is free. Blocks and calls are not fair: they may never come.
* `WF(Step(t))` and `WF(Return)` in `CheckQueue`: a thread that does not wait
  for a notification runs and gets the mutex. Notifications are given by the
  steps of the threads, spurious wake-ups are not assumed.
* `WF` of the steps of each thread in `Scheduler`: the same. That time passes is
  not assumed, nor that a block or a request comes or a shutdown is requested.
* `WF(BroadcastPayout)` and `WF(CreateNewBlock)` in `rewards_stall`: the
  operator does what `getsuperblockinfo` asks for and the stakers stake.

## Findings

1. **Sapling state after a replay** (`flush_sapling`). The nullifiers and
   anchors are in the last batch only, and `RollforwardBlock`
   (`validation.cpp:3527`) re-applies inputs and outputs but not them. After a
   crash in the middle of a flush the database names the new best block and has
   the Sapling state of the old one. Such a node refuses the next
   block, whose header commits to another Sapling root, or stops at an assert
   on the best anchor.
2. **A batch that fails is lost** (`flush_lost_batch`). `BatchWrite` erases
   entries from the cache while it fills the batch (`txdb.cpp:118`). If the
   write fails, the flush of `Shutdown()` writes the rest and marks the
   database consistent.
3. **A target from before an invalidation** (`invalidate_assert`).
   `ActivateBestChain` keeps `pindexMostWork` while `cs_main` is free
   (`validation.cpp:2170`). If `invalidateblock` is called then, the next round
   connects the invalidated block again and `PruneBlockIndexCandidates` finds
   no candidate. With the same constants `ActiveChainIsValid` fails too.
4. **Marks that stay behind** (`reconsider_marks`). `ReconsiderBlock` clears its
   block, the descendants of it and its ancestors (`validation.cpp:2296`). Given
   a descendant of the block that was invalidated, it leaves the other
   descendants of that block failed below no failed block, which
   `CheckBlockIndex` asserts cannot be (`validation.cpp:3870`).
5. **A shutdown that waits for itself** (`shutdown_hang`). Before it looks for a
   stake, the staking thread waits for the validation queue
   (`blockassembler.cpp:104`) if a callback is pending and the wallet is behind
   the tip, on a `std::future`, which an interruption does not end. `Shutdown`
   stops the scheduler, whose threads leave the queue as it is, and then joins
   the waiting thread (`init.cpp:232`). `ActivateBestChain` waits in the same way
   when the queue holds more than ten callbacks (`validation.cpp:2157`), in
   `ThreadImport` during a reindex, for which that wait was made, or in the
   staking thread.
6. **No staker's block passes a superblock** (`rewards_stall`). A payout's
   outputs must equal its input, so it has no fee; the memory pool refuses it
   (`validation.cpp:517`), and the assembler does not take it by itself
   (`blockassembler.cpp:449`). The help of `getsuperblockinfo` tells the operator
   to broadcast it. With `MinRelayFee` = 0 and no reorganisation the property
   holds.
7. **What is left is not paid later** (`rewards`, `LeftoverKept`).
   `superblock.cpp:156` says of the remainder of a cycle that it is "carried into
   future cycles' distributions", and `superblock.h:23` that the pool must
   deplete. `GetSuperblockPayout` depends on the height only: remainders and the
   share of a cycle without stakers, the first one always among them, are paid
   by no superblock. Only a stray payout takes from them.

## Proofs

Assumptions: only the named `ASSUME`s of the modules (the constants are of
their types, the tree is a tree, `Utxo` is what its blocks make of it). TLC
evaluates them in every run. A leaf is proved by Zenon unless it cites `SMT`,
for arithmetic mostly, or `PTL`.

**CoinsViewCacheProofs.** The inductive invariant `IInv` has a conjunct for the
coins, the nullifiers and the anchors (types, and flags sound at both levels),
one for the hashes, one that says the view is empty between sessions, and
`TreesOK`: the readable anchors are trees up to the best one, which is
readable. The flags must be sound for a flush to preserve what is readable, and
`TreesOK` is what keeps `PopAnchor`'s assert from failing. The lemmas come in
two layers: what one operator does to one cache over a base (`AddCoinSound`,
`SpendCoinSound`, `BatchWriteSound`...: the flags stay sound, and reads change
exactly as the abstract map does), then one lemma per action. From these:
`TypeCorrect`, `FlagsSoundness`, `NoErrors`, `Anchors`, `FlushComplete`, and
`Refinement`: every step is a step of `UtxoSet` or a stutter.

**ChainstateFlushProofs.** While a transition from `old` to `new` is unfinished
every coin on disk has its value in `Utxo[old]` or in `Utxo[new]` (`Between`).
Undoing or redoing a block keeps every coin at its value in `Utxo[cur]` or
`Utxo[new]`, because a block sets the coins it touches and leaves the others,
which have the same value on both of its sides; when `cur = new` the two agree.
So a replay may start from any half-written state, one left by another replay
included. `IInv` adds to this that the blocks the database names are in the
index on disk with their undo data, for `db` and for `synced`, and that the
index in memory is the one on disk plus the dirty entries. From these:
`TypeCorrect`, `CrashConsistency`, `AlwaysStarts`, `HeadsAssertion`,
`ViewOfTheTip`. Under `ErrorSpec` most of this is lost, as
`flush_lost_batch` shows: the coins need not be those of the best block, and the
heads need not name the tip. What a failed write does not touch is the order of
what reaches the disk. A smaller invariant, `HeadsInv`, says that during a flush
the database names no other new block than the tip, because the assertion on the
heads refuses a flush before it writes. From it: `TypeCorrectOnErrors` and
`TransitionsOnErrors`, of which `Transitions` is the case without errors.

**ChainActivationProofs.** For every tree of blocks, any validity of its blocks
and any number of threads, calls and restarts. `TreeInv` needs no condition: the
linked blocks are those whose ancestors all have data, the others with data wait,
and `nSequenceId` tells any two linked blocks apart. The facts on trees (two
blocks below a third are on one line, a chain has a next block) are proved from
`TreeAssumption` by taking a counterexample with the least work. The rest of the
invariant is in three parts, each under the condition it needs.

* `CauseInv`: a mark has a block with `BLOCK_FAILED_VALID` at or below it. It
  needs `~ReconsiderBelow`, and `ChainInv` needs it.
* `UsableInv`: the tip's chain bears no mark and no invalid block, and `mostWork`
  stays a candidate with no mark in its chain. It needs `~InvalidateMidway`:
  otherwise a round may begin with a target that has been marked, as
  `invalidate_assert` shows. From it: `Asserts`, `ActiveValid`.
* `ChainInv` needs both (`Separate`), as in the passing run. Its core is
  `CandidatesInv`, which holds at every step and not only when `cs_main` is free:
  a linked block without a mark that is as good as `Ref` is a candidate, where
  `Ref` is the tip or, while a reorganisation has left the chain worse than it
  was, the tip the round began with. `RoundInv` keeps that tip sound, so that a
  reorganisation that fails halfway finds its way back; `SettledInv` says that
  nothing is better than `mostWork` unless a thread is about to call
  `ActivateBestChain`. From it: `Candidates`, `BestActive` and the action
  property `Forward`.

`Marks` has no condition and is proved action by action: whatever block
`reconsiderblock` was given before, no other step begins to leave marks without a
cause. The conditions are not for the proof only: with one of its constants TRUE,
TLC finds each of the other properties violated on a small tree. TLC also confirms `IInv` on
the constants of `activation`, and `CauseInv` and `UsableInv` there with the other
constant TRUE. `TypeCorrect` and `Unlinked` follow from `TreeInv` alone.

**CheckQueueProofs.** `nTodo` is the length of the queue plus the size of all
batches in hand. The sizes are summed as the cardinality of a set of pairs
(`Hand`), which the lemmas `HandAdd` and `HandRemove` keep up as batches are
taken and finished, without a recursion over the threads. The rest of `IInv`
says that between two blocks nothing is in hand and the status is reset
(`Quiet`), that `nTotal` and `nIdle` count the threads in `Loop` and in a wait
with the interrupted ones in both, and that `fAllOk`, the batches in hand and the
queue together still tell whether all checks of the block are good (`Promise`):
a check is in the queue, in a batch, has succeeded, or the failure is in `fAllOk`
or in the result of a batch. From these: `TypeCorrect`, `IdleBetweenBlocksHolds`,
`TodoIsWhatIsLeftHolds` and `AnswersForTheBlockSafe`, the refinement without its
fairness.

**SchedulerProofs.** `IInv` says which thread may be where (`Roles`), that
`nThreadsServicingQueue` counts the threads in the loop (`Served`: some function
numbers them from 1 to the counter), that only
one thread is between the setting and the resetting of
`m_are_callbacks_running` (`OneRunner`), that the pending callbacks are the last
of those added and the executed ones all before them (`Numbered`), that a
promise belongs to a later callback than those before the call (`Promises`), and
that `Shutdown` is alone once it has joined the others (`Alone`).
`NoneLeftBehind` is inductive beside them. One lemma per action; `MoveInv`
serves all steps that only move a thread. From these: `TypeCorrect`,
`NoneLeftBehindHolds`, `WaitedForEarlierHolds`, `NoServiceLeftHolds`,
`NoneMissedHolds` and the refinement `InOrderOneAtATimeHolds`. `StuckForGood`:
once a joined thread waits for a callback and the service threads have left, no
step of any thread ends that, so that finding 5 is no delay but a hang.

**RewardsPoolProofs.** For any lengths of the phases, any amounts and any finite
set of stakers, in three parts.

*The schedule.* A share is monotone in the number of cycles and exact at whole
years (`ShareMonotone`, `WholeYears`), so that the pieces of
`GetSuperblockCumulativeTarget` meet at the ends of the phases
(`TargetByPhase`). From these: `ScheduleBounded` (with it the assert of
`MulDivShare` at line 44), `ScheduleMonotone` (the assert at line 98),
`ScheduleExactAtYearEnds`, `PayoutInRange`.

*The ledger.* `DistributionBounds`: the shares of a superblock add up to no more
than the target and the pool's coin (the asserts at lines 166 and 167), and to
more than the payable amount less one unit per staker. `Ledger` is the invariant
that every block's payouts, and those in the memory pool, spend one another in a
row that starts at the pool's coin, each with its change equal to what it spends
less what it pays. So a block lowers the coin by what it pays, and the sum over
the chain telescopes: `PoolIsConserved`.

*Keeping to the schedule.* `OnSchedule` says, not only at the tip but at every
height, that a demanded payout pays at most what is scheduled there and that what
is released and not yet paid is within the bound of `LagBounded`: the tip that a
disconnected block leaves behind is then covered as well. It also says that the
stakers made exactly the blocks from `nFirst` on, which is why the first
superblock demands nothing and every later one with a positive payout demands it
(`CyclesAreStaked`). A connected block takes from the coin at least what a
demanded payout pays, and that is the scheduled payout up to rounding, so that
stray payouts can only shorten the lag (`ConnectOnSchedule`). The demanded
payouts, summed over the chain, telescope to the schedule without its first cycle
(`DemandedBehind`). From these: `PoolLagIsBounded`, `DemandedPayoutCanBeBuilt`
(the coin holds at least what the schedule has still to release, less what the
stray payouts took beyond the reserve) and the action property `LeftoverIsKept`.
`StraysReturned` counts, for a positive relay fee: stray payouts on the chain and
payouts in the memory pool together are no more than the disconnected blocks. A block turns waiting
payouts into stray ones or carries the demanded one, and a disconnected block
returns at most one payout more than it had stray ones (`ConnectStrays`,
`StraysDisconnected`). With `OnSchedule` it gives
`PoolAheadOnlyByReorganisation`. None of the others has a condition on the relay
fee.

**SumTheorems.** `SumFunctionOnSet` of the community modules folds with a
recursive function over the subsets of its set. `FoldExists` shows that there is
one, by taking a smallest subset for which there is not; the other facts (taking
one element out, bounds, equal functions, a larger function, one more element, a
telescoping sum) are proved from it in the same way.

**Only model-checked.** The liveness properties (`InterruptedFlushIsFinished`,
`ActivationEnds`, `ValidBlocksAreActivated`, the fairness in
`AnswersForTheBlock`, `EveryCallbackRuns`, `ShutdownEndsOrStuck`), which the
proof system does not reach.

## What would come next

* Transactions within a block: `UpdateCoins` and `DisconnectBlock` transaction by
  transaction, implementing the block-level `Connect` and `Disconnect` of
  `ChainstateFlush`, with the invalid outpoints that are loaded after a replay.
* `cs_main` and `m_cs_chainstate` as variables, with `GetPrevIndex`, which calls
  `ActivateBestChain` with `cs_main` held, and with callbacks that need
  `cs_main`.

## Not modelled

* Network processing: peers, relay and timeouts. Its handlers reach the models
  as the arrival of headers and blocks in any order.
* Wallet, including its Sapling part: a separate system behind the validation
  signals.
* Script interpreter, signatures, Sapling proofs, BLS, the PoS kernel: pure
  functions of long byte strings. Their verdict is the constants `Malformed` and
  `Invalid`.
* Block and undo files: a block in the index can be read. `FlushBlockFile`
  syncs the last file only; what follows from that is listed as a hazard.
* Memory pool: only what a pool payout meets there. Its links, ancestor limits
  and expiry are local bookkeeping under one lock.
* Sporks: a map from a name to the newest signed value, with one rule. Premine
  and vesting: tables that are compared with block 1.
* RPC, GUI, REST, ZMQ, start-up options: input and output.
* Vendored libraries (LevelDB, secp256k1, UniValue). LevelDB is taken to write
  a batch as a whole and, after a power loss, to keep the batches of some
  earlier moment.

The models cover a small share of the repository's lines. Most of the rest is
the vendored libraries, the wallet and the GUI, the script and proof systems and
the test suites: pure functions of long byte strings, input and output, or
bookkeeping by a single thread, of which a model would repeat the code.
