-------------------------- MODULE ProcessorCursor --------------------------
(***************************************************************************)
(* The cursor template shared by the bridge event processor's eight       *)
(* sub-procedures (event/processors/event.go).  A sub-procedure            *)
(*   - starts from its in-memory cursor, or from the chain's starting      *)
(*     height when the cursor is nil;                                      *)
(*   - reads the highest of the first blocksLimit persisted headers above  *)
(*     it; with none, it returns (processFinalizedL2Events also sets its   *)
(*     cursor to nil there);                                               *)
(*   - processes (cursor, to] in one transaction, split at the bedrock     *)
(*     height into a legacy and a bedrock part where the sub-procedure has *)
(*     a legacy path, and stores one row per bedrock event; of the legacy  *)
(*     paths, LegacyL2ProcessInitiatedBridgeEvents stores rows (without an *)
(*     l2_block_number), LegacyL2ProcessFinalizedBridgeEvents stores none, *)
(*     and the two L1 ones panic on their first event (LegacyBridge models *)
(*     the crash loop that follows);                                       *)
(*   - moves its cursor to `to` after the commit.                          *)
(* NewBridgeProcessor rebuilds every cursor after a restart from an        *)
(* aggregate over the rows the sub-procedure's data ended in.              *)
(* A failed transaction changes nothing and is not a separate action.      *)
(***************************************************************************)
EXTENDS Integers, FiniteSets

CONSTANTS
  SubProcs,        \* the sub-procedures of this instance
  StartingHeight,  \* L1StartingHeight = L2StartingHeight
  BedrockHeight,   \* L1BedrockStartingHeight = L2BedrockStartingHeight
  BlocksLimit,     \* blocksLimit
  MaxHeight,       \* bound: highest block either chain reaches
  EventBlocks,     \* per sub-procedure: blocks holding an event of its kind
  LogBlocks,       \* L1 blocks with logs; the L1 synchronizer stores only these
  MaxRestarts      \* bound: restarts of the indexer

VARIABLES
  height,    \* highest header persisted, per chain
  cursor,    \* in-memory cursor per sub-procedure, NoHeader when nil
  rows,      \* rows stored per sub-procedure and event block: 0, 1 or Many
  legacy,    \* event blocks a sub-procedure processed on its legacy path
  restarts

vars == <<height, cursor, rows, legacy, restarts>>

NoHeader == -1
Many == 2
Blocks == 1..MaxHeight
L1SubProcs == {"InitiatedL1", "RollupMantleDA", "RollupStateRoot",
               "ProvenL1", "FinalizedL1"}
AllSubProcs == L1SubProcs \cup {"InitiatedL2", "FinalizedL2"}
\* Sub-procedures with a legacy path before the bedrock height.
SplitSubProcs == {"InitiatedL1", "FinalizedL1", "InitiatedL2", "FinalizedL2"}
\* Sub-procedures whose restart aggregate reads rows that another worker
\* writes later: claimed deposits (L1L2LatestFinalizedL2BlockHeader) and
\* business data_store rows (DataStoreL1BlockHeader).
LaggingSubProcs == {"FinalizedL2", "RollupMantleDA"}

\* Legacy paths that store rows, and legacy paths that panic on an event:
\* LegacyL1ProcessInitiatedBridgeEvents indexes a slice sized from an empty
\* map, and MarkL2ToL1TransactionWithdrawalFinalized reads a nil
\* L1BlockNumber.
LegacyStores == {"InitiatedL2"}
LegacyPanics == {"InitiatedL1", "FinalizedL1"}

ChainOf(s) == IF s \in L1SubProcs THEN "L1" ELSE "L2"

\* The events a sub-procedure stores a row for: its bedrock events, and its
\* legacy ones where the legacy path stores rows.
Indexable(s) ==
  {b \in EventBlocks[s] : b >= BedrockHeight \/ s \in LegacyStores}

-----------------------------------------------------------------------------

\* Headers the synchronizers persisted: every L2 header, and the L1 headers
\* with logs (HeadersWithLog in L1Sync.handleBatch).
Persisted(c) == {b \in 1..height[c] : c = "L2" \/ b \in LogBlocks}

\* Variant that counts the window in block numbers, as if every header
\* were persisted.
WindowTopByNumber(c, last) == last + BlocksLimit

\* Variant that waits for a full window of blocksLimit headers.
WindowTopFullOnly(c, last) ==
  LET above == {b \in Persisted(c) : b > last}
  IN IF Cardinality(above) < BlocksLimit THEN last
     ELSE CHOOSE t \in above : Cardinality({b \in above : b <= t}) = BlocksLimit

\* The scope query: MAX(number) of the first blocksLimit headers above last.
WindowTop(c, last) ==
  LET above == {b \in Persisted(c) : b > last}
      k == IF Cardinality(above) < BlocksLimit THEN Cardinality(above)
           ELSE BlocksLimit
  IN CHOOSE t \in above : Cardinality({b \in above : b <= t}) = k

\* Variant whose legacy part ends at the bedrock height itself.
LegacySplitThroughFork(from, to) ==
  IF BedrockHeight > from
    THEN LET legacyTo == IF BedrockHeight <= to THEN BedrockHeight ELSE to
         IN <<from..legacyTo, IF legacyTo = to THEN {} ELSE BedrockHeight..to>>
    ELSE <<{}, from..to>>

\* The legacy/bedrock split of the range [from, to]: the legacy part and
\* the bedrock part.
LegacySplit(from, to) ==
  IF BedrockHeight > from
    THEN LET legacyTo == IF BedrockHeight <= to THEN BedrockHeight - 1 ELSE to
         IN <<from..legacyTo, IF legacyTo = to THEN {} ELSE BedrockHeight..to>>
    ELSE <<{}, from..to>>

Last(s) == IF cursor[s] = NoHeader THEN StartingHeight ELSE cursor[s]

\* One more row for each event block in the range, saturating at Many.
StoreRows(s, range) ==
  [rows EXCEPT ![s] = [b \in Blocks |->
     IF b \in range /\ b \in EventBlocks[s] THEN IF @[b] = 0 THEN 1 ELSE Many
     ELSE @[b]]]

\* Variant in which every sub-procedure clears its cursor when idle.
ProcessIdleReset(s) ==
  /\ {b \in Persisted(ChainOf(s)) : b > Last(s)} = {}
  /\ cursor' = [cursor EXCEPT ![s] = NoHeader]
  /\ UNCHANGED <<height, rows, legacy, restarts>>

\* A sub-procedure finds no header above its cursor and returns.
ProcessIdle(s) ==
  /\ {b \in Persisted(ChainOf(s)) : b > Last(s)} = {}
  /\ cursor' = IF s = "FinalizedL2" THEN [cursor EXCEPT ![s] = NoHeader]
               ELSE cursor
  /\ UNCHANGED <<height, rows, legacy, restarts>>

\* A sub-procedure processes (Last(s), to] and moves its cursor to `to`.
ProcessRange(s) ==
  LET from == Last(s) + 1
      to == WindowTop(ChainOf(s), Last(s))
      parts == IF s \in SplitSubProcs THEN LegacySplit(from, to)
               ELSE <<{}, from..to>>
  IN /\ {b \in Persisted(ChainOf(s)) : b > Last(s)} # {}
     \* a panic rolls the transaction back and ends the process
     /\ ~(s \in LegacyPanics /\ parts[1] \cap EventBlocks[s] # {})
     /\ rows' = StoreRows(s, (IF s \in LegacyStores THEN parts[1] ELSE {})
                              \cup parts[2])
     /\ legacy' = [legacy EXCEPT ![s] = @ \cup (parts[1] \cap EventBlocks[s])]
     /\ cursor' = [cursor EXCEPT ![s] = to]
     /\ UNCHANGED <<height, restarts>>

Process(s) == ProcessIdle(s) \/ ProcessRange(s)

\* The synchronizers persist the next header of a chain.
SyncHeader(c) ==
  /\ height[c] < MaxHeight
  /\ height' = [height EXCEPT ![c] = @ + 1]
  /\ UNCHANGED <<cursor, rows, legacy, restarts>>

\* The blocks the restart aggregate sees: those of the sub-procedure's rows,
\* less legacy l2_to_l1 rows, which have no l2_block_number
\* (L2L1LatestBlockL2Header takes MAX(l2_block_number)).
AggregateBlocks(s) == {b \in Blocks : rows[s][b] > 0} \ legacy[s]

\* Highest block the aggregate sees.
RowsTop(s) ==
  LET stored == AggregateBlocks(s)
  IN IF stored = {} THEN NoHeader
     ELSE CHOOSE t \in stored : \A b \in stored : b <= t

\* Variant that resumes from the latest persisted header.
RestartPointsLatestHeader(s) ==
  IF height[ChainOf(s)] = 0 THEN {NoHeader} ELSE {height[ChainOf(s)]}

\* What a restart's aggregate can yield: the rows' own top block, or, for
\* a lagging aggregate, any earlier stored block or nil.
RestartPoints(s) ==
  IF s \in LaggingSubProcs
    THEN {NoHeader} \cup AggregateBlocks(s)
    ELSE {RowsTop(s)}

\* The indexer restarts; NewBridgeProcessor rebuilds the cursors.
Restart ==
  /\ restarts < MaxRestarts
  /\ \E c \in [SubProcs -> Blocks \cup {NoHeader}] :
       /\ \A s \in SubProcs : c[s] \in RestartPoints(s)
       /\ cursor' = c
  /\ restarts' = restarts + 1
  /\ UNCHANGED <<height, rows, legacy>>

Init ==
  /\ height = [c \in {"L1", "L2"} |-> 0]
  /\ cursor = [s \in SubProcs |-> NoHeader]
  /\ rows = [s \in SubProcs |-> [b \in Blocks |-> 0]]
  /\ legacy = [s \in SubProcs |-> {}]
  /\ restarts = 0

Next ==
  \/ \E c \in {"L1", "L2"} : SyncHeader(c)
  \/ \E s \in SubProcs : Process(s)
  \/ Restart

\* Each sub-procedure runs on its processor's 5 s ticker forever.
Fairness == \A s \in SubProcs : WF_vars(ProcessRange(s))

Spec == Init /\ [][Next]_vars /\ Fairness

-----------------------------------------------------------------------------
(* Properties.                                                             *)

TypeOK ==
  /\ height \in [{"L1", "L2"} -> 0..MaxHeight]
  /\ cursor \in [SubProcs -> {NoHeader} \cup 0..MaxHeight]
  /\ \A s \in SubProcs : cursor[s] <= height[ChainOf(s)]
  /\ rows \in [SubProcs -> [Blocks -> 0..Many]]
  /\ legacy \in [SubProcs -> SUBSET Blocks]
  /\ restarts \in 0..MaxRestarts

\* Nothing below a cursor is left unindexed: every event block at or below
\* the block a sub-procedure resumes from has its row, across windows of
\* blocksLimit sparse L1 headers, idle ticks and restarts from aggregates.
NoEventSkipped ==
  \A s \in SubProcs : \A b \in Indexable(s) :
    StartingHeight < b /\ b <= Last(s) => rows[s][b] > 0

\* Every event is stored once: no block range is processed twice by one
\* sub-procedure (StoreRelayMessage and the other Store functions insert
\* with fresh GUIDs, so a rescan duplicates rows).
NoDuplicateRows ==
  \A s \in SubProcs : \A b \in Blocks : rows[s][b] # Many

\* An event is processed on the legacy path exactly when its block is below
\* the bedrock starting height, also when one window spans the fork.
ModeMatchesFork ==
  \A s \in SubProcs \cap SplitSubProcs : \A b \in EventBlocks[s] :
    rows[s][b] > 0 => (b \in legacy[s] <=> b < BedrockHeight)

\* Every persisted event above the starting height that the code stores a
\* row for is eventually indexed.
EventuallyIndexed ==
  \A s \in SubProcs : \A b \in Indexable(s) \ 0..StartingHeight :
    height[ChainOf(s)] >= b ~> rows[s][b] > 0

=============================================================================
