---------------------------- MODULE LegacyBridge ----------------------------
(***************************************************************************)
(* The legacy (pre-bedrock) path of the bridge event processor            *)
(* (event/processors/bridge/legacy_bridge_processor.go), below the bedrock *)
(* starting height of both chains.  Four sub-procedures have a legacy      *)
(* part; each runs ProcessorCursor's window over persisted headers and     *)
(* processes (cursor, to] in one transaction:                              *)
(*   - InitiatedL1: LegacyL1ProcessInitiatedBridgeEvents.  Its l1ToL2s     *)
(*     slice is made with the length of a map that is still empty, so the *)
(*     first TransactionEnqueued event indexes past its end and panics;    *)
(*   - FinalizedL1: LegacyL1ProcessFinalizedBridgeEvents hands rows with   *)
(*     no L1BlockNumber to MarkL2ToL1TransactionWithdrawalFinalized,       *)
(*     whose L1BlockNumber.Uint64() on the nil pointer panics;             *)
(*   - InitiatedL2: LegacyL2ProcessInitiatedBridgeEvents stores an         *)
(*     l2_to_l1 row per SentMessage, then writes each WithdrawalInitiated  *)
(*     onto a row found by a zero L2TransactionHash, that is, any row;     *)
(*   - FinalizedL2: LegacyL2ProcessFinalizedBridgeEvents looks l1_to_l2    *)
(*     rows up by a zero L1TransactionHash; the legacy L1 path never       *)
(*     stores one, so the lookup finds none and returns.                   *)
(* A panic reaches tasks.Group, whose HandleCrit shuts the process down.   *)
(* NewBridgeProcessor rebuilds each cursor from an aggregate over rows     *)
(* that legacy rows never feed (their l2_block_number is unset), so every  *)
(* cursor restarts from the starting height.                               *)
(***************************************************************************)
EXTENDS Integers, FiniteSets

CONSTANTS
  StartingHeight,     \* L1StartingHeight = L2StartingHeight
  BlocksLimit,        \* blocksLimit
  MaxHeight,          \* bound: highest block; all below the bedrock height
  LogBlocks,          \* L1 blocks with logs; the L1 synchronizer stores only these
  DepositBlocks,      \* L1 blocks with a legacy deposit (TransactionEnqueued)
  RelayL1Blocks,      \* L1 blocks with a legacy RelayedMessage (withdrawal claim)
  Withdrawals,        \* legacy withdrawals (L2 SentMessage)
  SentBlock,          \* the L2 block of each withdrawal's SentMessage
  BridgeWithdrawals,  \* withdrawals that also emit WithdrawalInitiated
  RelayL2Blocks,      \* L2 blocks with a legacy RelayedMessage (deposit relay)
  MaxRestarts         \* bound: restarts of a running process

VARIABLES
  height,    \* highest header persisted, per chain
  cursor,    \* in-memory cursor per sub-procedure, NoHeader when nil
  up,        \* the process is running
  restarts,  \* restarts of a running process so far
  wdRows,    \* l2_to_l1 rows stored per withdrawal: 0, 1 or Many
  wdInfo     \* per withdrawal's row, the bridge withdrawals written onto it

vars == <<height, cursor, up, restarts, wdRows, wdInfo>>

LegacySubProcs == {"InitiatedL1", "FinalizedL1", "InitiatedL2", "FinalizedL2"}

\* The cursor template, with the bedrock height above every block.
PC == INSTANCE ProcessorCursor
        WITH SubProcs <- LegacySubProcs, BedrockHeight <- MaxHeight + 1,
             EventBlocks <- [s \in LegacySubProcs |-> {}], rows <- [s \in LegacySubProcs |-> [b \in 1..MaxHeight |-> 0]],
             legacy <- [s \in LegacySubProcs |-> {}]

NoHeader == PC!NoHeader
Many == PC!Many

\* The legacy events each sub-procedure reads.
EventsOf(s) ==
  CASE s = "InitiatedL1" -> DepositBlocks
    [] s = "FinalizedL1" -> RelayL1Blocks
    [] s = "InitiatedL2" -> {SentBlock[w] : w \in Withdrawals}
    [] s = "FinalizedL2" -> RelayL2Blocks

-----------------------------------------------------------------------------

\* A panic inside the transaction: nothing commits and the process stops.
Panic ==
  /\ up' = FALSE
  /\ UNCHANGED <<height, cursor, restarts, wdRows, wdInfo>>

\* The transaction commits and the cursor moves to `to`.
Commit(s, to) == cursor' = [cursor EXCEPT ![s] = to]

\* StoreL2ToL1Transactions: one more row per SentMessage in the range.
StoreL2ToL1Transactions(sent) ==
  [w \in Withdrawals |-> IF w \notin sent THEN wdRows[w]
                         ELSE IF wdRows[w] = 0 THEN 1 ELSE Many]

\* UpdateL2ToL1InfoByTxHash with a zero L2TransactionHash: gorm drops the
\* zero condition, so each bridge withdrawal's token fields are Saved onto
\* whichever row Take returns.
UpdateL2ToL1InfoByTxHash(bridges, stored) ==
  \E taken \in [bridges -> {w \in Withdrawals : stored[w] > 0}] :
    wdInfo' = [x \in Withdrawals |-> wdInfo[x] \cup {b \in bridges : taken[b] = x}]

LegacyL1ProcessInitiatedBridgeEvents(s, range) ==
  IF DepositBlocks \cap range # {} THEN Panic
  ELSE /\ Commit(s, PC!WindowTop("L1", PC!Last(s)))
       /\ UNCHANGED <<height, up, restarts, wdRows, wdInfo>>

LegacyL1ProcessFinalizedBridgeEvents(s, range) ==
  IF RelayL1Blocks \cap range # {} THEN Panic
  ELSE /\ Commit(s, PC!WindowTop("L1", PC!Last(s)))
       /\ UNCHANGED <<height, up, restarts, wdRows, wdInfo>>

LegacyL2ProcessInitiatedBridgeEvents(s, range) ==
  LET sent == {w \in Withdrawals : SentBlock[w] \in range}
      stored == StoreL2ToL1Transactions(sent)
  IN /\ wdRows' = stored
     /\ IF sent \cap BridgeWithdrawals = {} THEN UNCHANGED wdInfo
        ELSE UpdateL2ToL1InfoByTxHash(sent \cap BridgeWithdrawals, stored)
     /\ Commit(s, PC!WindowTop("L2", PC!Last(s)))
     /\ UNCHANGED <<height, up, restarts>>

LegacyL2ProcessFinalizedBridgeEvents(s, range) ==
  /\ Commit(s, PC!WindowTop("L2", PC!Last(s)))
  /\ UNCHANGED <<height, up, restarts, wdRows, wdInfo>>

\* One tick of sub-procedure s over (Last(s), to], all of it legacy.
ProcessLegacy(s) ==
  LET c == PC!ChainOf(s)
      range == PC!Last(s) + 1 .. PC!WindowTop(c, PC!Last(s))
  IN /\ up
     /\ {b \in PC!Persisted(c) : b > PC!Last(s)} # {}
     /\ CASE s = "InitiatedL1" -> LegacyL1ProcessInitiatedBridgeEvents(s, range)
          [] s = "FinalizedL1" -> LegacyL1ProcessFinalizedBridgeEvents(s, range)
          [] s = "InitiatedL2" -> LegacyL2ProcessInitiatedBridgeEvents(s, range)
          [] s = "FinalizedL2" -> LegacyL2ProcessFinalizedBridgeEvents(s, range)

\* The synchronizers persist the next header of a chain.
SyncHeader(c) ==
  /\ up
  /\ height[c] < MaxHeight
  /\ height' = [height EXCEPT ![c] = @ + 1]
  /\ UNCHANGED <<cursor, up, restarts, wdRows, wdInfo>>

\* The process starts again, after a crash or as a redeploy of a running
\* one.  The aggregates (L1L2LatestL1BlockHeader, L2L1LatestBlockL2Header,
\* L2L1LatestFinalizedBlockL1Header, L1L2LatestFinalizedL2BlockHeader)
\* find no row with the block number they read, so every cursor is nil.
Restart ==
  /\ up => restarts < MaxRestarts
  /\ restarts' = IF up THEN restarts + 1 ELSE restarts
  /\ up' = TRUE
  /\ cursor' = [s \in LegacySubProcs |-> NoHeader]
  /\ UNCHANGED <<height, wdRows, wdInfo>>

Init ==
  /\ height = [c \in {"L1", "L2"} |-> 0]
  /\ cursor = [s \in LegacySubProcs |-> NoHeader]
  /\ up = TRUE
  /\ restarts = 0
  /\ wdRows = [w \in Withdrawals |-> 0]
  /\ wdInfo = [w \in Withdrawals |-> {}]

Next ==
  \/ \E c \in {"L1", "L2"} : SyncHeader(c)
  \/ \E s \in LegacySubProcs : ProcessLegacy(s)
  \/ Restart

\* The sub-procedures run on the processors' 5 s tickers; a crashed
\* process is started again by its deployment.
Fairness ==
  /\ \A s \in LegacySubProcs : WF_vars(ProcessLegacy(s))
  /\ WF_vars(~up /\ Restart)

Spec == Init /\ [][Next]_vars /\ Fairness

-----------------------------------------------------------------------------
(* Properties.                                                             *)

TypeOK ==
  /\ height \in [{"L1", "L2"} -> 0..MaxHeight]
  /\ cursor \in [LegacySubProcs -> {NoHeader} \cup 0..MaxHeight]
  /\ up \in BOOLEAN
  /\ restarts \in 0..MaxRestarts
  /\ wdRows \in [Withdrawals -> 0..Many]
  /\ wdInfo \in [Withdrawals -> SUBSET BridgeWithdrawals]

\* The spec (4.x, correlation): a range the legacy rules cannot process is
\* retried on the next tick, and a persisted legacy event is eventually
\* processed by its sub-procedure, even if the deployment has to restart
\* the process.
EventuallyProcessed ==
  \A s \in LegacySubProcs : \A b \in EventsOf(s) \ 0..StartingHeight :
    height[PC!ChainOf(s)] >= b ~> PC!Last(s) >= b

\* A legacy withdrawal's token, addresses and amounts are written onto its
\* own l2_to_l1 row (LegacyL2ProcessInitiatedBridgeEvents).
InfoOnOwnRow == \A x \in Withdrawals : wdInfo[x] \subseteq {x}

\* Each legacy SentMessage is stored as one l2_to_l1 row, across restarts.
WithdrawalStoredOnce == \A w \in Withdrawals : wdRows[w] # Many

=============================================================================
