# TLA+ models of the lithosphere indexer

Lithosphere indexes the bridge between an L1 chain and the Mantle L2 chain. It
copies block headers and contract events into Postgres. It correlates bridge
events into deposit (`l1_to_l2`) and withdrawal (`l2_to_l1`) records, and it
moves those records through their status state machines. This directory holds
the TLA+ modules that model its concurrent parts, the TLC configurations that
check them, and `PROJECT.json`. That file lists the components, runs, mutants,
findings and hazards, and maps every modelled definition to the source lines
it translates.

## 1. Inventory

### Components and how they interact

`lithosphere.go` starts four long-running parts. They talk to each other only
through the database.

| Component | Source | State | Operations |
|---|---|---|---|
| L1 / L2 synchronizer | `synchronizer/l1_sync.go`, `l2_sync.go` | persisted headers, contract events, L2 transactions | a producer fills a batch channel; `handleBatch` stores a batch in one transaction under `retry.Do(10)`; a final error is critical (`HandleCrit` shuts down) |
| Bridge event processor | `event/processors/event.go` and `bridge/`, `stateroot/`, `contracts/` | one in-memory cursor per sub-procedure (eight of them) | two 5 s tickers. `onL1Data`: initiated L1, finalized L2, Mantle DA, state root. `onL2Data`: initiated L2, proven L1, finalized L1. Each sub-procedure reads at most `blocksLimit` headers above its cursor, processes them in one transaction, then moves its cursor. Errors are joined, and the next sub-procedure still runs |
| Business processor | `business/run.go` | `l2_to_l1`, `l1_to_l2`, `state_root` statuses, `related` flags of event rows, `startDataStoreId` | six ticker goroutines: `onRollup` (5 s), `UpdateTimeLeft` (1 s), `onDepositTxStatus` (5 s), `onWithdrawTxStatus` (5 s), `syncTokenBalance` (6 h), `syncTokenList` (1 min) |
| API / cache / exporter | `api/`, `cache/`, `exporter/` | none of the indexer's | read-only views and metrics |

The withdrawal lifecycle crosses all of them:
1. The L2 synchronizer persists `MessagePassed`.
2. `processInitiatedL2Events` creates a Pending row.
3. The L1 synchronizer persists `OutputProposed`.
4. `processRollupStateRoot` stores a `state_root` row.
5. `syncL2ToL1StateRoot` moves the row to ReadyForProved.
6. `WithdrawalProven` is persisted, and `processProvenL1Events` stores a `withdraw_proven` row.
7. `markedL2ToL1Proven` moves the row to InChallengePeriod or ReadyForClaim and marks the event row related.
8. `UpdateTimeLeft` counts the challenge period down and flips the row to ReadyForClaim.
9. `WithdrawalFinalized` is persisted, and `markedL2ToL1Finalized` sets Claimed.

### What makes it hard

- **Independent cursors.** Each sub-procedure has its own cursor and fails alone, so events of one withdrawal are indexed in any relative order.
- **Updates with no status guard.** The business jobs update rows by hash with `Take` then `Save` and never check the row's current status.
- **Concurrent writers.** The business jobs run concurrently with the 1 s `UpdateTimeLeft` job, which is itself two statements.
- **Transactions that are not.** `markedL2ToL1Proven` and `markedL2ToL1Finalized` open `bp.db.Transaction(...)` but write through `bp.db`, so each `Save` commits on its own.
- **Arbitrary rows.** `Take` without `ORDER BY` returns any matching row. gorm drops zero-valued struct fields from `Where(&T{...})`, so a lookup by a hash that was never set matches any row (`run.go:264`, `l1_bridge_processor.go:298`).
- **Panics.** A panic in a processor reaches `tasks.Group`, whose `HandleCrit` stops the process (`event.go:89-93`); a panic that recurs on the same range after a restart is a crash loop.
- **Restarts.** On restart, cursors are rebuilt from the highest block of the rows each sub-procedure wrote (`event.go:49-80`).

The full list, each at the line where it bites, is `hazards` in `PROJECT.json`.

### Properties per component

- **Withdrawal lifecycle:**
  - statuses are backed by indexed chain events;
  - proofs are applied before they are marked related;
  - only the spec's transitions occur;
  - proven and finalized withdrawals eventually show so.
- **Processor cursors:** no event below a cursor is left unindexed; no block range is processed twice; the legacy/bedrock split matches the fork; every event is eventually indexed.
- **Deposit lifecycle:** a relay row is related only once its deposit is indexed and a deposit was claimed; only relayed deposits are Claimed; every indexed relay eventually has a related row (after a rescan, a duplicate row may stay unrelated).
- **Mantle DA:** no data store is stored twice or passed over, and each is eventually stored.
- **State root status:** a status is raised only behind the real L1 heads and is never lowered; every root below the finalized head is eventually marked finalized.
- **Synchronizer:** a batch is stored entirely or not at all; stored headers are contiguous.
- **Legacy withdrawals:** only a finalized withdrawal is Claimed; a proof of a listed legacy message is eventually applied.
- **Legacy bridge:** every legacy event is eventually processed, across crashes and restarts; a withdrawal's info lands on its own row; a legacy withdrawal is stored once.

## 2. Plan

| Module | Models | State |
|---|---|---|
| `WithdrawalLifecycle` | the four withdrawal sub-procedures, `onWithdrawTxStatus`, `UpdateTimeLeft` | done |
| `ProcessorCursor` | the `event.go` sub-procedure template: window, split, cursor update, restart from aggregates, the `processFinalizedL2Events` reset | done |
| `DepositLifecycle` | initiated L1 / finalized L2 processing, relay messages, `markedL1ToL2Finalized` with its zero-hash lookup | done |
| `MantleDA` | `processRollupMantleDA`, `syncMantleDaData`, restart | done |
| `StateRootStatus`, `StateRootIndex` | `processRollupStateRoot` with `StoreBatchStateRoots`, and `onRollup`: the outcome of `syncMantleDaData`, then `syncStateRootStatus`, refining the abstract state-root index | done (the legacy SCC path is never called) |
| `BridgeCheck` | `syncTokenBalance` and its checkpoint queries: the L1 bridge balance against the L2 supply, corrected by the deposits and withdrawals in flight | done for one token |
| `LegacyBridge` | the legacy (pre-bedrock) paths of the four bridge sub-procedures, the L2->L1 info update by a zero hash, crash and restart | done |
| `LegacyWithdrawal` | legacy withdrawal rows, `initV1Withdraw`'s hash migration at start, the version-0 branches of `markedL2ToL1Proven` and `markedL2ToL1Finalized` | done |
| `L2WithdrawalInfo` | the bedrock `L2ProcessInitiatedBridgeEvents`: rows per `MessagePassed`, then both `UpdateL2ToL1InfoByTxHash` loops | done (no run slot; two further configurations) |
| `Synchronizer`, `PersistedChain` | batch handoff, `handleBatch`, retry and critical shutdown (header traversal and `retry` are outside `src/`, so spec-modelled), refining the abstract persisted chain | done |

An abstract withdrawal state machine is planned, taken from the spec's status diagram. `WithdrawalLifecycle` cannot refine it as it stands: the `withdrawal_transitions` run shows that the code leaves it. The refinement will be stated for the fixed order.

## 3. `WithdrawalLifecycle.tla`

**Environment.** The chain is the environment, with no fairness.

| Action | Effect |
|---|---|
| `InitiateWithdrawal` | appends `MessagePassed` to `l2Log` |
| `ProposeOutput` | appends an output covering the current L2 height to `l1Log` |
| `ProveWithdrawal` | proves a withdrawal. It needs a covering output and no finalization; re-proofs are allowed up to `MaxProofs` |
| `FinalizeWithdrawal` | finalizes a withdrawal. It needs a proof |

`l2Log` and `l1Log` are the logs *as persisted by the synchronizers*: one event per block.

**Processor.** `ProcessInitiatedL2Events`, `ProcessRollupStateRoot`, `ProcessProvenL1Events` and `ProcessFinalizedL1Events` are the four sub-procedures.
- Each picks any `to` above its cursor, up to the persisted height. This covers the `blocksLimit` window, a synchronizer still persisting, and failed ticks: a failed transaction changes nothing, which is the same as a later `to`.
- The bridge functions they call are operators of the same names. `L2ProcessInitiatedBridgeEvents` creates Pending rows with time_left 0, `L2OutputEvent` sets the latest state root, and `L1Process*BridgeEvents` append unrelated event rows.

**Business job `onWithdrawTxStatus`.** `bw.pc` walks through one step per database statement:
1. `SyncL2ToL1StateRoot` (GetLatestStateRootL2BlockNumber, then UpdateReadyForProvedStatus).
2. `MarkedProvenList`, then per listed row `ProvenTake` and `ProvenSave` (the `Take` and `Save` of MarkL2ToL1TransactionWithdrawalProven), then `ProvenRelate` per row.
3. `MarkedFinalizedList`, `FinalSave`, `FinalRelate`.

`BusinessFail` is the failure of any statement. It ends the run of the job, and earlier statements stay committed. `bw.snap` is the row held between `Take` and `Save`. `MarkRelated` relates *any* row with the hash, because `Take` has no order.

**Business job `UpdateTimeLeft`.** `UpdateTimeLeftDecrement` and `UpdateTimeLeftFlip` are its two statements. `UpdateTimeLeftFail` is an error in either.

**Abstractions.**
- Hashes, amounts, addresses and token fields are dropped.
- Only `Version`-1 rows are modelled. Version-0 (legacy) rows go through different lists and functions: proofs matched by withdraw hash, and finalizations through `MarkL2ToL1TransactionWithdrawalFinalizedV0`, whose lookup by a zero `MessageHash` matches an arbitrary row (`l2_to_l1.go:261`). They are modelled in `LegacyWithdrawal` (section 9b).
- `MarkL2ToL1TransactionWithdrawalFinalized` is one step. Its `Take`/`Save` can only overwrite time_left of a row it sets Claimed, which no property reads.

### Runs

| Run | Config | Result | Shows |
|---|---|---|---|
| `withdrawal_safety` | `MC_WithdrawalLifecycle.cfg`: 2 withdrawals (symmetric), Window 1, 1 proof each, no faults | pass, about 6.8M states, under a minute | `ChainBacked`: Claimed / proven / ReadyForProved statuses are always backed by an indexed chain event of the same withdrawal. `RelatedProofApplied`: a related proof row always belongs to a withdrawal past ReadyForProved |
| `withdrawal_liveness` | `MC_WithdrawalLifecycle_live.cfg`: 1 withdrawal, Window 2, up to 2 proofs, 1 fault | pass | `TypeOK`, and `EventuallyProven`: a proof on L1 ends with the withdrawal in a proven status for good, despite a failed statement and a re-proof |
| `withdrawal_transitions` | 1 withdrawal | violation of `StatusTransitionsAllowed` | the proof is indexed before the state root; `ProvenSave` moves the row Pending → ReadyForClaim, skipping the challenge period (finding 1) |

Further configuration: `MC_WithdrawalLifecycle_claimed.cfg` (`EventuallyClaimed`, violated). The finalization is indexed and applied before the proof, and the late proof turns Claimed into ReadyForClaim for good (finding 2).

**Bounds.**
- Two withdrawals are enough for every cross-row effect the code has: list order, and a lookup hitting the wrong row (the `FinalSaveAnyRow` mutant).
- A Window of 1 or 2 ticks covers zero, one and several decrements.
- `MaxProofs = 2` in the liveness run covers a re-proof, that is, two event rows with one hash.
- One fault covers a failure between any two statements.

**Fairness.** Weak fairness on each sub-procedure, on the withdrawal job and on the `UpdateTimeLeft` job. Each runs on a ticker forever (`event.go:105-125`, `run.go:80-108`), and a failed tick is simply retried at the next one. The chain has no fairness. Symmetry is used only in the safety run.

**Mutants** (`PROJECT.json`). Each property is broken by a plausible bug:
- claiming whichever row a lookup finds;
- relating proofs before saving them;
- decrementing without the `time_left > 0` filter;
- saving a proof only onto ReadyForProved rows.

## 4. `ProcessorCursor.tla`

One module stands for the template that all eight sub-procedures of `event.go` share.
- **State:** the persisted height per chain, an in-memory cursor per sub-procedure (`NoHeader` for nil), rows per sub-procedure and block (0, 1 or `Many`), the event blocks processed on the legacy path, and a restart counter.
- **`WindowTop`** is the scope query: `MAX(number)` of the first `BlocksLimit` *persisted* headers above the cursor. L1 headers are stored only for blocks with logs (`LogBlocks`), so the window spans a variable number of blocks.
- **`LegacySplit`** is the split at the bedrock height for the sub-procedures with a legacy path. What the legacy part does differs per sub-procedure (`legacy_bridge_processor.go`):
  - `InitiatedL2` stores rows (`LegacyStores`), but without `l2_block_number`, so the restart aggregate `MAX(l2_block_number)` ignores them (`AggregateBlocks`, `l2_to_l1.go:346`);
  - `InitiatedL1` and `FinalizedL1` panic on their first legacy event (`LegacyPanics`): such a range is never committed;
  - `FinalizedL2` stores nothing.
- **`EventBlocks`** gives the event blocks per sub-procedure. **`Indexable`** is the events a sub-procedure can store: the bedrock ones, and the legacy ones of `InitiatedL2`.
- **`ProcessIdle`** is the early return when no header lies above the cursor. `processFinalizedL2Events` also assigns the nil header to its cursor there (`event.go:390`).
- **`ProcessRange`** stores the range's rows and moves the cursor.
- **`Restart`** rebuilds each cursor from its aggregate. Two aggregates read rows that another worker writes later, so they may yield an earlier block or nil: claimed deposits for `FinalizedL2`, and `data_store` rows for `RollupMantleDA`.

| Run | Config | Result | Shows |
|---|---|---|---|
| `cursor_exact` | `MC_ProcessorCursor.cfg`: `InitiatedL1`, `InitiatedL2`, `ProvenL1`; 5 blocks per chain, window 2, fork at 3, sparse L1 logs, 2 restarts | pass, 4,473 states | the window, split and restart from exact aggregates neither skip nor duplicate an event, every event is stored on the path of its block, and every event is indexed |
| `cursor_finalized_l2_reset` | `MC_ProcessorCursor_reset.cfg`: `FinalizedL2` alone | violation of `NoDuplicateRows` | an idle tick resets the cursor to nil, and the next tick rescans from the starting height and stores the relay rows of a bedrock block again (finding 3) |

In `cursor_exact` the two split sub-procedures have bedrock events only (blocks 3 and 5), while `ProvenL1`, which has no split, also has one at block 2. A legacy `InitiatedL1` event panics (finding 7, `legacy_deposit_crash`). A legacy `InitiatedL2` row is stored again after a restart: `MC_ProcessorCursor_legacyrestart.cfg` (`InitiatedL2` alone, one restart) shows `NoDuplicateRows` violated, as `MC_LegacyBridge_restart.cfg` does for the rows themselves.

Further configurations: `MC_ProcessorCursor_restart.cfg` shows that a `RollupMantleDA` restart rescans and duplicates rows (`NoDuplicateRows`). `MC_ProcessorCursor_lagging.cfg` checks `EventuallyIndexed` for the two lagging sub-procedures.

**Bounds.** Five blocks with a window of two and the fork at 3 give windows that end before, at and across the fork, and windows that skip missing L1 headers. Two restarts reach a restart after a restart.

**Fairness.** Weak fairness on `ProcessRange` of each sub-procedure, which runs on a 5 s ticker forever.

`SplitSubProcs` names the sub-procedures whose range is split at the bedrock height: `InitiatedL1`, `FinalizedL1`, `InitiatedL2` and `FinalizedL2` (`event.go:198-217`, `240-268`, `337-349`, `395-409`).

## 5. `DepositLifecycle.tla`

- **Chain.** `DepositTx(t)` puts the deposits of one L1 transaction in a block. `RelayMessage(d)` puts the L2 relay of a bridge or messenger deposit in an L2 block.
- **`ProcessInitiatedL1Events`** calls `L1ProcessInitiatedBridgeEvents`, which stores the rows. `MessageHashAssignments` then assigns message hashes as `UpdateMessageHashByTxHash` does: each `SentMessage` `Take`s a row of its L1 transaction.
- **`ProcessFinalizedL2Events`** stores a `relay_message` row per `BridgeFinalized` event (`StoreRelayMessage`). Only standard-bridge deposits have one; messenger-only deposits do not.
- **`ProcessFinalizedL2Idle`** is the tick that finds no L2 header above the cursor and sets the cursor to nil (`event.go:390-391`). The next ticks rescan from `L2StartingHeight` and store the relay rows again, with fresh GUIDs. `relay[d]` therefore counts the unrelated and related rows of a hash, and `MaxRescans` bounds the resets.
- **Business job `markedL1ToL2Finalized`** runs statement by statement under `bw.pc`:
  - `MarkedL1ToL2List` lists the unrelated relay rows whose hash is on a deposit row (`UnRelatedWithDeposit`), one entry per row, so `bw.list` and `bw.left` count entries per hash.
  - `MarkDepositFinalized` is run per entry. Its lookup by the zero message hash matches any row (`Stored`), and that row is set Claimed.
  - `RelateRelayMessage` is run per entry. Its `Take` matches any row with the hash, related or not, so after a rescan it may relate the same row twice and leave the duplicate unrelated.
  - `BusinessFail` is a failure between any two statements.

| Run | Config | Result | Shows |
|---|---|---|---|
| `deposit_relay` | `MC_DepositLifecycle.cfg`: two bridge deposits and one messenger deposit, one fault, one idle reset | pass, 242,471 states | `RelatedBacked` and `RelayEventuallyRelated` (some row of each indexed relay is eventually related) hold, also when relays are indexed before their deposits and after a rescan |

Further configurations:
- `MC_DepositLifecycle_claimed.cfg` (`OnlyRelayedClaimed`): with two bridge deposits, the relay of one marks the other Claimed (finding 4).
- `MC_DepositLifecycle_sametx.cfg` (`MessageHashIndexed`): two deposits in one L1 transaction lose a message hash, so one relay is never related.
- `MC_DepositLifecycle_messenger.cfg` (`EventuallyClaimed`): a messenger-only deposit is never Claimed.
- `MC_DepositLifecycle_rescan.cfg` (`EveryRelayRowRelated`): after the idle reset stores a relay's row again, each tick lists the duplicate, but `MarkedRelayMessageRelated` may `Take` the row already related, so the duplicate stays unrelated and a deposit row is claimed again on every tick.

**Bounds.** Three deposits give a deposit and a relay on each side of a lookup by the wrong row. One fault covers a failure between the two statements. One idle reset (`MaxRescans = 1`) gives two rows for one hash, which is where the `Take` of `MarkedRelayMessageRelated` can pick the wrong row. The violation configurations use `MaxRescans = 0`, except the rescan one.

**Fairness.** Weak fairness on both sub-procedures and on the business job, all of which run on tickers. The idle reset needs a tick that sees no new L2 header, so it has no fairness.

## 6. `MantleDA.tla`

- **`ProcessRollupMantleDA`** appends one batch of `data_store_event` ids. A batch's position orders its timestamps.
- **`Retrieved`** is `RetrievalDataStoreFromDa`: an id whose DA read times out yields no row. **`WithRows`** is `constructDataStore`: one row per listed event row, so an id listed twice is stored twice.
- **`SyncMantleDaData`** is the whole transaction of `syncMantleDaData`:
  - `ResumeFrom`: the highest stored id (`LatestDataStoreId`), or the in-memory start;
  - `ListedIn`: the ids listed in the window;
  - `LatestListed`: the last id in timestamp order, which is arbitrary within a batch;
  - the in-memory start is set to that id;
  - then the rows are committed, except for retrievals that timed out, or a failure rolls the rows back but not the start.
- **`Restart`** moves the processor cursor back to a lagging aggregate and resets the start to `cfg.StartDataStoreId`.
- A failed `StoreBatchDataStoreEvent` is logged and swallowed. Postgres has aborted the transaction, so the commit fails and nothing changes; that is the same as no step.

| Run | Config | Result | Shows |
|---|---|---|---|
| `da_safety` | `MC_MantleDA.cfg`: ids 1..3 confirmed in any order, window 3, a timeout, a fault | pass, 2,058 states | `TypeOK`: every path of both workers, the timeout and rollback paths included, is exercised and stays well formed. Without a restart no id has two event rows and the resume point is the highest stored id, so duplicates are checked only with a restart (below) |
| `da_liveness` | `MC_MantleDA_live.cfg`: in-order ids, a restart | pass, 1,172 states | on the happy path nothing is skipped and everything is stored |

Further configurations:
- `MC_MantleDA_skipped.cfg` (`NoIdSkipped`): with out-of-order confirmations and a timeout, a timed-out or late data store falls below the resume point for good (finding 5).
- `MC_MantleDA_restart.cfg` (`NoDuplicateDataStore`): a restart duplicates event rows, and then data stores.
- `MC_MantleDA_firstbatch.cfg` (`NoIdSkipped`): a failed first transaction leaves the in-memory start past data stores that were never stored.
- `MC_MantleDA_emptytick.cfg` (`EventuallyStored`): an empty first tick resets the start to 0, so with a configured start above the window nothing is ever stored.

**Bounds.** Three ids with a window of 3 (`maxEpochRange` scaled down) give windows that list one or two ids. Ids 4..5 with start 3 put the data beyond the window from 0.

## 7. `StateRootStatus.tla` and `StateRootIndex.tla`

- **Chain.** `NewBlock` may carry an `OutputProposed` that advances the L2 block number by 1 or 2. `AdvanceSafe` and `AdvanceFinal` move the safe and finalized heads, with finalized ≤ safe ≤ head.
- **`onRollup`** first runs `syncMantleDaData`, whose data is modelled in `MantleDA`. Here only its outcome counts: `SyncMantleDaData` lets the job go on to the status calls, and `SyncMantleDaDataFail` makes `onRollup` return before `syncStateRootStatus` (`run.go:162-172`).
- **`ProcessRollupStateRoot`** over `(cursor, to]` stores the outputs of the range with `StoreBatchStateRoots`. The first row's `BlockSize` is counted from an earlier row `Take`n with no order.
- **`syncStateRootStatus`** runs one step per call:
  - `LatestSafeBlockHeader` and `LatestFinalizedBlockHeader` are the two RPC reads;
  - `UpdateSafeStatus` sets 0 → 1 for `l1 < safe`;
  - `UpdateFinalizedStatus` sets any status to 2 for `l1 < finalized`;
  - `StatusFail` is a failure of any of these calls.

  L1 moves between the steps, so the heads the job uses may be stale.

**Abstract specification.** `StateRootIndex.tla` states what the `state_root` table promises, without cursors, batches or the job's RPC reads. L1 advances freely, with finalized ≤ safe ≤ head, and an output is proposed in the newest block. `IndexOutputs` appends the next outputs not yet indexed, in proposal order, as unsafe rows. `RaiseStatus` raises statuses, never lowers them, and raises one only as far as the current heads back it. `StateRootStatus` maps `roots` to the abstract `rows` by dropping `BlockSize` (`Index == INSTANCE StateRootIndex WITH rows <- ...`). `IndexRefinement` checks `Index!Spec` as a property. It fails if a batch range re-reads or skips a block (the mutant takes `[cursor, to]`). It also fails if an update lowers a finalized row to safe, or marks a row with a head that was never reached.

| Run | Config | Result | Shows |
|---|---|---|---|
| `stateroot_status` | `MC_StateRootStatus.cfg`: 4 L1 blocks, 3 outputs, steps {1, 2}, 1 fault of the DA sync or a status call | pass, 491,636 states, 1 min | `StatusBacked` and `EventuallyFinalizedStatus` hold, and `StateRootStatus` refines `StateRootIndex` (`IndexRefinement`), also when a failed DA sync skips a tick of the status sync |

Further configuration: `MC_StateRootStatus_blocksize.cfg` (`BlockSizeIsGap`). With three roots, the third one's `BlockSize` may be counted from the first root rather than the second.

**Fairness.** Weak fairness on the processor step and on the steps of `onRollup`; both run on tickers. The job's failures, DA sync included, are bounded. A DA sync that fails on every tick would stop status updates for good; that is outside this fairness.

`LegacyL1ProcessSCCEvent` and `LegacySCCBatchAppendedEvent` are never called in the repository, so the legacy state-root path has nothing to model.

## 8. `Synchronizer.tla` and `PersistedChain.tla`

`PersistedChain` is what the synchronizers promise the event processor: per chain, the latest persisted header only moves forward and never past the confirmed height (head less `ConfirmationDepth`).

`Synchronizer` models both chains of one process:
- **`NewHead`** grows a chain.
- **`Traverse`** is the producer: it fetches headers above the last one traversed, up to `BufferSize` and the confirmed height. `BlockHeadersByRange` (`client.go:177-219`) returns the prefix before the first failed answer, so any non-empty prefix may come back. The batch waits in a one-slot handoff.
- **`Accept`** takes the batch. **`FetchTxs`**/**`FetchTxsFail`** are L2's transaction fetch; it is not retried, and an error stops the process (`HandleCrit`).
- **`StoreBatch`**/**`StoreFail`** are the store transaction under `retry.Do`. L1 keeps only the headers with logs (`HeadersToStore`). A failure rolls everything back, and the last attempt stops the process.
- **`Restart`** resumes each chain from its latest stored header (`NewL1Sync`, `NewL2Sync`). **`Stop`** is a crash from outside.

`LatestStored` is the refinement mapping: `Persisted == INSTANCE PersistedChain WITH persisted <- ...`, and `PersistedSpec` is checked as a property.

| Run | Config | Result | Shows |
|---|---|---|---|
| `sync_pipeline` | `MC_Synchronizer.cfg`: both chains, 4 blocks, depth 1, batches of 2, 2 attempts, 2 DB faults, 1 RPC fault, 1 crash | pass, 27,626 states, 7 s | `NoEventMissed`, `EventsStoredOnce`, `EventuallySynced` hold, and the synchronizers refine `PersistedChain` |

Further configuration: `MC_Synchronizer_rpcfatal.cfg` (`FatalOnlyAfterRetries`, violated). Spec section 4.1 says only exhausted retries stop the process. The L2 transaction fetch is not retried, so one RPC error is fatal.

**Fairness.** Weak fairness on the producer and on each `handleBatch` step, which are goroutines that loop while the process is up. `Restart` and the faults have none: the process is restarted from outside, if at all. That is why `EventuallySynced` is stated only while the process stays up.

## 9. `BridgeCheck.tla`

`syncTokenBalance` (`run.go:412-637`) runs on the business ticker. It compares the L1 bridge balance of each token with its L2 total supply, and stores a `bridge_checkpoints` row with the difference and a `Checked` flag.
- **Chain.** `L1Block` and `L2Block` carry at most one bridge step: a deposit, its relay, a withdrawal, its claim. Each transfer is one unit, so `BalanceAt(n)` and `SupplyAt(n)` are counts of the steps up to block `n`.
- **Indexer.** `IndexDeposit`, `IndexRelay`, `IndexWithdrawal` and `IndexFinalized` are the processor's rows. `MarkedL1ToL2Finalized` and `MarkedL2ToL1Finalized` are the business jobs that relate them. The former Takes an arbitrary row through the zero-hash lookup, and stores a NULL `l2_block_number`.
- **Job.** `SyncTokenBalance` reads `GetLatestBridgeCheckpoint` once, before the token loop. Then come `ReadHeads` (both latest headers, balance and supply; a reverted call reads as 0) and `CheckBalance`, with `ReadHeadsFail`/`CheckBalanceFail` on any failed call. `CheckBalance` stores the first checkpoint with `Checked` true when the read was empty. Otherwise it compares the new difference with the stored one, directly and after `Corrected`. `Corrected` subtracts the relayed deposits and unclaimed withdrawals, and adds the unrelayed deposits and claimed withdrawals, as the code does. The SQL queries are `GetL1Deposit*`/`GetL2Withdraw*`, with `SqlGreater` giving SQL's NULL semantics.

| Run | Config | Result | Shows |
|---|---|---|---|
| `bridge_false_alarm` | `MC_BridgeCheck.cfg`: one token, two deposits, one withdrawal, 2 runs, no faults | violation of `NoFalseAlarm` | a deposit in flight makes an aligned bridge store `Checked` false (finding 6) |

The trace has one deposit and two ticks. The balance is read at the latest header, where the deposit is already counted, but no `l1_to_l2` row exists yet. Even once the row exists, `Corrected` adds the unrelayed deposit instead of subtracting it (`run.go:572`). `GetL1DepositRelayed` never matches, because the relayed rows carry NULL.

**Not checked yet** (hazards in `PROJECT.json`): a failure after the first token's checkpoint leaves the other tokens without a base for good. That needs a two-token configuration. A revert read as 0 is in the model but outside the run's fault budget.

## 9a. `LegacyBridge.tla`

Below the bedrock height, four sub-procedures of `event.go` call the legacy functions of `legacy_bridge_processor.go`. The module instantiates `ProcessorCursor` for the window (`WindowTop`, `Last`, `ChainOf`) with the bedrock height above every block, so every range is legacy.
- **State:** the persisted height per chain, a cursor per sub-procedure, whether the process is up, the redeploys so far, the `l2_to_l1` rows stored per legacy withdrawal (0, 1 or `Many`), and per row the bridge withdrawals whose info was Saved onto it.
- **`LegacyL1ProcessInitiatedBridgeEvents`** panics on a range with a `TransactionEnqueued` event: `l1ToL2s` is made with the length of a map that is still empty (line 33), so the assignment at line 42 indexes past its end.
- **`LegacyL1ProcessFinalizedBridgeEvents`** panics on a range with a legacy `RelayedMessage`: its records have no `L1BlockNumber`, and `MarkL2ToL1TransactionWithdrawalFinalized` calls `Uint64()` on the nil pointer (`l2_to_l1.go:231`).
- **`LegacyL2ProcessInitiatedBridgeEvents`** stores a row per `SentMessage` (`StoreL2ToL1Transactions`). `UpdateL2ToL1InfoByTxHash` then writes each `WithdrawalInitiated` onto the row that a zero `L2TransactionHash` finds, which is any stored row.
- **`LegacyL2ProcessFinalizedBridgeEvents`** looks `l1_to_l2` rows up by a zero hash. No legacy deposit row exists, so it finds none and commits.
- **`Panic`**: `tasks.Group` recovers the panic and `HandleCrit` stops the process; nothing of the transaction commits.
- **`Restart`** rebuilds every cursor from the aggregates. Legacy rows carry no block number that the aggregates read, so every cursor is nil and the scan starts again at the starting height. The insert of rows with a NULL `l2_block_number` is assumed to succeed, since the schema is not in the repository.

| Run | Config | Result | Shows |
|---|---|---|---|
| `legacy_deposit_crash` | `MC_LegacyBridge.cfg`: 3 blocks per chain, window 2, a deposit at L1 block 2, a relay at L1 block 3, two withdrawals, one redeploy | violation of `EventuallyProcessed` (7,950 states) | the process panics on the first legacy deposit, restarts from nil and panics again forever (finding 7) |

Further configurations:
- `MC_LegacyBridge_info.cfg` (`InfoOnOwnRow`): a bridge withdrawal's token and amounts are Saved onto the other withdrawal's row.
- `MC_LegacyBridge_restart.cfg` (`WithdrawalStoredOnce`): a redeploy rescans from the starting height and stores a legacy withdrawal twice.

**Bounds.** Three blocks with a window of two give a range before and a range containing each event. Two withdrawals in different blocks are needed for a wrong row, and one redeploy for a rescan.

**Fairness.** Weak fairness on each `ProcessLegacy(s)`, which runs on a ticker, and on `Restart` of a stopped process, since the deployment starts a crashed indexer again. Redeploys of a running process get no fairness.

## 9b. `LegacyWithdrawal.tla`

Legacy withdrawals, after the bedrock migration, on their way to a status.
- **`StoreLegacyRow`** is the row that `LegacyL2ProcessInitiatedBridgeEvents` stores. It has version 0 and no `l2_block_number`, and it is keyed by the legacy storage key `keccak(calldata ++ messenger)` (`LegacyKey`).
- **`Restart`** runs `initFromConfig`, whose `InitV1Withdraw` sets the migrated hash (`Migrated`) on the rows that exist then. It covers the messages of `l2_sent_message_events`; that table is filled outside this repository and is the constant `V1Sent`.
- **`IndexProven`** and **`IndexFinalized`** are the portal's events, which carry the migrated hash.
- **`MarkedL2ToL1Proven`** finds a row by that hash (`Found`), and version 0 sends it through the V0 list. There, `MarkL2ToL1TransactionWithdrawalProven` sets ReadyForClaim at once, because `TimeLeft` is 0. `UpdateReadyForProvedStatus` never selects a row without `l2_block_number`, so legacy rows skip ReadyForProved and the challenge period.
- **`MarkedL2ToL1Finalized`** sends version-0 rows to `MarkL2ToL1TransactionWithdrawalFinalizedV0`. That function looks the row up by a `MessageHash` the records never carry, so it `Take`s an arbitrary row and Saves it as Claimed.

The module has no run of its own; the run budget holds the findings above. Two configurations reproduce what it shows:
- `MC_LegacyWithdrawal_claimed.cfg` (`ClaimedOnlyWhenFinalized`, violated in 121 states): finalizing `w1` marks `w2` Claimed, and `w1` stays Pending.
- `MC_LegacyWithdrawal_unmigrated.cfg` (`ProofEventuallyApplied`, violated): a legacy row stored after the last start keeps the legacy key, so its proof is never applied until someone restarts the process.

**Fairness.** Weak fairness on storing each row and on both business jobs, which run on tickers. `Restart` has none, because nothing in the code restarts the process.

## 9c. `L2WithdrawalInfo.tla`

`L2ProcessInitiatedBridgeEvents` (`l2_bridge_processor.go:21-195`), the bedrock L2 withdrawal path, over one range and in one transaction:
- it stores a Pending row per `MessagePassed`;
- it runs `UpdateL2ToL1InfoByTxHash` over the `SentMessage`s, and then again over the `BridgeInitiated` events.

Each event `Take`s a row by L2 transaction hash (`l2_to_l1.go:115-137`), with no ORDER BY, and Saves its addresses and amounts onto it. `info` records, per row, the event whose values the row carries. The loop's order and the row `Take` returns are free choices. The not-found return and the log-offset errors do not fire: every `SentMessage` comes with its `MessagePassed`, and every `BridgeInitiated` with both.

`InfoOnOwnRow` says that each row ends up with its own event's values. No run slot is left, so two configurations show the result:
- `MC_L2WithdrawalInfo.cfg` passes, with a transaction per withdrawal.
- `MC_L2WithdrawalInfo_sametx.cfg` violates it in one step. With bridge withdrawals `x1` and `x2` in one L2 transaction, both loops `Take` the same row. `x2`'s row gets `x1`'s bridge values, and `x1`'s row keeps its `MessagePassed` values. This is the deposit side's `MC_DepositLifecycle_sametx.cfg`, on L2.

## 10. Findings

`PROJECT.json` lists each finding with its source line. In short:
1. A proof indexed before its state root skips the challenge period (`l2_to_l1.go:182`).
2. A late proof turns a Claimed withdrawal back into ReadyForClaim (`run.go:151`).
3. `processFinalizedL2Events` resets its cursor to nil when idle and rescans (`event.go:390`).
4. The zero-hash lookup claims an arbitrary deposit (`l1_to_l2.go:176`).
5. A timed-out or out-of-order data store is never stored (`run.go:177`).
6. The bridge balance check raises a false alarm while a deposit is in flight, and adds unrelayed deposits where it must subtract them (`run.go:572`).

7. Legacy deposits and legacy relays on L1 panic the processor, and after every restart it panics again on the same range (`legacy_bridge_processor.go:33`, `l2_to_l1.go:231`).

8. Finalizing a legacy withdrawal marks an arbitrary `l2_to_l1` row Claimed (`l2_to_l1.go:261`).
9. A legacy row stored after the process started never gets its migrated hash until the next restart, so its proof and finalization are not applied (`lithosphere.go:312`).
10. Two bridge withdrawals of one L2 transaction: one row gets the other's token, addresses and amounts, and the other none (`l2_to_l1.go:119`).

Findings 1, 3, 6 and 7 have a violation run in `PROJECT.json`. Findings 2, 4, 5, 8, 9 and 10, and the other counterexamples above, are reproduced by the further configurations named in their sections.

## 11. Not modelled, and why

- The API, cache, exporter and CLI/config/flags are I/O or read-only. Of the v1 tables, only `l2_sent_message_events` is read, by `initV1Withdraw` (`LegacyWithdrawal`). Of the RPC client, only what its callers rely on is modelled (the prefix of `BlockHeadersByRange`, balance and supply at a block).
- `syncTokenList` copies an HTTP token list into a table.
- Header traversal and `retry` live outside `src/`. They are modelled from the spec and marked `spec_modelled`.
- The legacy SCC state-root path is dead code (never called). So are `RelayedL1ToL2Transaction`, `FinalizedL1ToL2Transaction`, `UpdateL2ToL1InfoByMessageHash` and `MarkL2ToL1TransactionWithdrawalProvenV0`: nothing in the repository calls them. The amount and timestamp queries are read only by the exporter.
- The L1 deposit info update (`UpdateL1ToL2InfoByTxHash`) and the token columns of `withdraw_finalized` (`UpdateWithdrawFinalizedInfo`) are not modelled. They write token, address and amount columns that no status depends on. The bedrock L2 withdrawal info update, which has the same shape, is in `L2WithdrawalInfo`.
- `WithdrawalLifecycle` models version-1 withdrawals; version-0 rows are in `LegacyWithdrawal`.
- ABI decoding is data conversion; only its effect (events of one kind in a block range) is kept.
- The parts listed as planned in section 2 are not yet written. `PROJECT.json` marks them `not_modelled` or `partly`, and the hazards they carry have no property yet.
