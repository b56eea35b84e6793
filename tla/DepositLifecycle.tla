-------------------------- MODULE DepositLifecycle --------------------------
(***************************************************************************)
(* The L1 -> L2 deposit flow of the indexer:                               *)
(*   - processInitiatedL1Events (L1ProcessInitiatedBridgeEvents) stores a  *)
(*     Pending l1_to_l2 row per portal TransactionDeposit, then writes the *)
(*     SentMessage hashes onto the rows it finds by L1 transaction hash;   *)
(*   - processFinalizedL2Events (L2ProcessFinalizedBridgeEvents) stores an *)
(*     unrelated relay_message row per BridgeFinalized event, carrying the *)
(*     hash of the RelayedMessage that follows it; on a tick with no new   *)
(*     L2 header it sets its cursor to nil, and the next tick rescans from *)
(*     L2StartingHeight and stores the rows again;                         *)
(*   - the business job markedL1ToL2Finalized lists the unrelated relay    *)
(*     rows whose message hash is on a deposit row, marks deposits Claimed *)
(*     and then marks the relay rows related.                              *)
(* A deposit is a model value; its message hash is the deposit itself.     *)
(* Rows are identified by the portal deposit that created them.            *)
(***************************************************************************)
EXTENDS Integers, Sequences, FiniteSets

CONSTANTS
  Deposits,   \* deposits made on L1
  TxOf,       \* the L1 transaction of each deposit
  Kind,       \* "bridge" (StandardBridge), "message" (messenger only), "portal"
  MaxFaults,  \* bound: failed statements of the business job
  MaxRescans  \* bound: idle resets of processFinalizedL2Events

VARIABLES
  l1Log,      \* persisted L1 blocks: the deposits of one transaction each
  l2Log,      \* persisted L2 relays, one per block
  cursor,     \* processInitiatedL1Events / processFinalizedL2Events cursors
  row,        \* l1_to_l2 rows, per deposit
  relay,      \* relay_message rows per message hash: how many unrelated, related
  bw,         \* markedL1ToL2Finalized: pc, listed rows and rows left, per hash
  faults,
  rescans

vars == <<l1Log, l2Log, cursor, row, relay, bw, faults, rescans>>

NoHash == "NoHash"
\* The absent row, so that rows compare with records only.
NoRow == [hash |-> NoHash, status |-> "NoRow"]
Status == {"Pending", "Claimed"}
Txs == {TxOf[d] : d \in Deposits}
\* The deposits of one L1 transaction, emitted in one block.
DepositsOf(t) == {d \in Deposits : TxOf[d] = t}
Deposited == UNION {l1Log[i] : i \in 1..Len(l1Log)}
Relayed == {l2Log[i] : i \in 1..Len(l2Log)}
\* Deposits whose SentMessage is on L1: all but plain portal deposits.
Messages == {d \in Deposits : Kind[d] # "portal"}
Stored == {d \in Deposits : row[d] # NoRow}
\* Message hashes written onto some l1_to_l2 row.
HashesOnRows == {row[d].hash : d \in Stored} \ {NoHash}
NoRelay == [unrelated |-> 0, related |-> 0]
\* A list of relay rows, counted per message hash.
NoEntries == [d \in Deposits |-> 0]
BwIdle == [pc |-> "Idle", list |-> NoEntries, left |-> NoEntries]
Listed(l) == {d \in Deposits : l[d] > 0}

-----------------------------------------------------------------------------
(* The chains.                                                             *)

\* An L1 transaction deposits through the portal; the synchronizer
\* persists its block.
DepositTx(t) ==
  /\ DepositsOf(t) \cap Deposited = {}
  /\ l1Log' = Append(l1Log, DepositsOf(t))
  /\ UNCHANGED <<l2Log, cursor, row, relay, bw, faults, rescans>>

\* The L2 cross-domain messenger relays a deposited message; the L2
\* synchronizer persists its block.
RelayMessage(d) ==
  /\ d \in Messages \cap Deposited
  /\ d \notin Relayed
  /\ l2Log' = Append(l2Log, d)
  /\ UNCHANGED <<l1Log, cursor, row, relay, bw, faults, rescans>>

-----------------------------------------------------------------------------
(* The event processor.                                                    *)

\* UpdateMessageHashByTxHash: each SentMessage Takes some row with its L1
\* transaction hash and Saves its hash there; a row Taken twice keeps the
\* hash of the later message.
MessageHashAssignments(new) ==
  { h \in [new -> Messages \cup {NoHash}] :
      \E pick \in [new \cap Messages -> new] :
        /\ \A m \in DOMAIN pick : TxOf[pick[m]] = TxOf[m]
        /\ \A r \in new :
             IF \E m \in DOMAIN pick : pick[m] = r
               THEN h[r] \in {m \in DOMAIN pick : pick[m] = r}
               ELSE h[r] = NoHash }

\* L1ProcessInitiatedBridgeEvents over the deposits of a block range:
\* StoreL1ToL2Transactions, then UpdateMessageHashByTxHash.  The third
\* phase, UpdateL1ToL2InfoByTxHash, writes token and address columns only.
L1ProcessInitiatedBridgeEvents(new) ==
  \E h \in MessageHashAssignments(new) :
    row' = [d \in Deposits |->
              IF d \in new THEN [hash |-> h[d], status |-> "Pending"]
              ELSE row[d]]

\* processInitiatedL1Events: one transaction over (cursor, to].
ProcessInitiatedL1Events ==
  \E to \in cursor["L1"] + 1 .. Len(l1Log) :
    /\ L1ProcessInitiatedBridgeEvents(
         UNION {l1Log[i] : i \in cursor["L1"] + 1 .. to})
    /\ cursor' = [cursor EXCEPT !["L1"] = to]
    /\ UNCHANGED <<l1Log, l2Log, relay, bw, faults, rescans>>

\* One more unrelated relay row for each bridge relay in the range.
StoreRelayMessage(relayed) ==
  [d \in Deposits |->
     IF d \in relayed /\ Kind[d] = "bridge"
       THEN [relay[d] EXCEPT !.unrelated = @ + 1] ELSE relay[d]]

\* Variant that moves the cursor one past the processed block.
ProcessFinalizedL2EventsPastTo ==
  \E to \in cursor["L2"] + 1 .. Len(l2Log) :
    /\ relay' = StoreRelayMessage({l2Log[i] : i \in cursor["L2"] + 1 .. to})
    /\ cursor' = [cursor EXCEPT !["L2"] = to + 1]
    /\ UNCHANGED <<l1Log, l2Log, row, bw, faults, rescans>>

\* processFinalizedL2Events: L2ProcessFinalizedBridgeEvents stores a relay
\* row for each BridgeFinalized, i.e. for relays of bridge deposits; the
\* lookup of a RelayedMessage's deposit only logs a warning when missing.
ProcessFinalizedL2Events ==
  \E to \in cursor["L2"] + 1 .. Len(l2Log) :
    /\ relay' = StoreRelayMessage({l2Log[i] : i \in cursor["L2"] + 1 .. to})
    /\ cursor' = [cursor EXCEPT !["L2"] = to]
    /\ UNCHANGED <<l1Log, l2Log, row, bw, faults, rescans>>

\* processFinalizedL2Events finds no L2 header above its cursor and sets
\* LatestL1L2FinalizedL2Header to the nil it read: the cursor is back at
\* L2StartingHeight.
ProcessFinalizedL2Idle ==
  /\ cursor["L2"] = Len(l2Log)
  /\ cursor["L2"] > 0
  /\ rescans < MaxRescans
  /\ cursor' = [cursor EXCEPT !["L2"] = 0]
  /\ rescans' = rescans + 1
  /\ UNCHANGED <<l1Log, l2Log, row, relay, bw, faults>>

-----------------------------------------------------------------------------
(* The business job markedL1ToL2Finalized, one statement per step.  Its    *)
(* list holds one entry per relay row, so bw.list and bw.left count the    *)
(* entries of each message hash.                                           *)

\* Variant of the list that skips the L1ToL2TransactionDeposit check.
UnRelatedListUnchecked == [d \in Deposits |-> relay[d].unrelated]

\* RelayMessageUnRelatedList, kept where L1ToL2TransactionDeposit finds a
\* deposit row with the relay's message hash.
UnRelatedWithDeposit ==
  [d \in Deposits |-> IF d \in HashesOnRows THEN relay[d].unrelated ELSE 0]

MarkedL1ToL2List ==
  /\ bw.pc = "Idle"
  /\ bw' = IF Listed(UnRelatedWithDeposit) = {} THEN BwIdle
           ELSE [pc |-> "Mark", list |-> UnRelatedWithDeposit,
                 left |-> UnRelatedWithDeposit]
  /\ UNCHANGED <<l1Log, l2Log, cursor, row, relay, faults, rescans>>

\* One entry of hash m done; after the last one the loop is over.
Done(m) == [bw.left EXCEPT ![m] = @ - 1]
LastEntry(m) == Listed(Done(m)) = {}

\* Variant whose job ends after the deposits are marked, without the call
\* to MarkedRelayMessageRelated.
MarkDepositFinalizedNoRelate ==
  /\ bw.pc = "Mark"
  /\ \E m \in Listed(bw.left), r \in Stored :
       /\ row' = [row EXCEPT ![r].status = "Claimed"]
       /\ bw' = IF LastEntry(m) THEN BwIdle ELSE [bw EXCEPT !.left = Done(m)]
  /\ UNCHANGED <<l1Log, l2Log, cursor, relay, faults, rescans>>

\* MarkL1ToL2TransactionDepositFinalized for one listed relay.  The list
\* entries carry no MessageHash, so Where(&L2ToL1{MessageHash}) has no
\* condition and Take returns any l1_to_l2 row; it is Saved as Claimed.
\* (L1BlockNumber is the relay's block, at least 1, so nothing is skipped.)
MarkDepositFinalized ==
  /\ bw.pc = "Mark"
  /\ \E m \in Listed(bw.left), r \in Stored :
       /\ row' = [row EXCEPT ![r].status = "Claimed"]
       /\ bw' = IF LastEntry(m) THEN [bw EXCEPT !.pc = "Relate", !.left = bw.list]
                ELSE [bw EXCEPT !.left = Done(m)]
  /\ UNCHANGED <<l1Log, l2Log, cursor, relay, faults, rescans>>

\* MarkedRelayMessageRelated for one listed relay: Take any relay row with
\* its message hash, unrelated or already related, and Save it related.
RelateRelayMessage ==
  /\ bw.pc = "Relate"
  /\ \E m \in Listed(bw.left) :
       /\ \/ /\ relay[m].unrelated > 0
             /\ relay' = [relay EXCEPT ![m] = [unrelated |-> @.unrelated - 1,
                                               related |-> @.related + 1]]
          \/ /\ relay[m].related > 0
             /\ UNCHANGED relay
       /\ bw' = IF LastEntry(m) THEN BwIdle ELSE [bw EXCEPT !.left = Done(m)]
  /\ UNCHANGED <<l1Log, l2Log, cursor, row, faults, rescans>>

\* A statement fails: the job returns its error, the statements before it
\* stay committed (they ran on bp.db, not on the callback's tx), and the
\* next tick starts over.
BusinessFail ==
  /\ bw.pc # "Idle"
  /\ faults < MaxFaults
  /\ bw' = BwIdle
  /\ faults' = faults + 1
  /\ UNCHANGED <<l1Log, l2Log, cursor, row, relay, rescans>>

DepositWorker == MarkedL1ToL2List \/ MarkDepositFinalized \/ RelateRelayMessage

-----------------------------------------------------------------------------

Init ==
  /\ l1Log = <<>>
  /\ l2Log = <<>>
  /\ cursor = [c \in {"L1", "L2"} |-> 0]
  /\ row = [d \in Deposits |-> NoRow]
  /\ relay = [d \in Deposits |-> NoRelay]
  /\ bw = BwIdle
  /\ faults = 0
  /\ rescans = 0

Next ==
  \/ \E t \in Txs : DepositTx(t)
  \/ \E d \in Deposits : RelayMessage(d)
  \/ ProcessInitiatedL1Events
  \/ ProcessFinalizedL2Events
  \/ ProcessFinalizedL2Idle
  \/ DepositWorker
  \/ BusinessFail

\* The processor's L1 and L2 tickers and the business job's 5 s ticker run
\* forever; the chains need not make progress, and the idle reset is left
\* to chance (it needs a tick that sees no new L2 header).
Fairness ==
  /\ WF_vars(ProcessInitiatedL1Events)
  /\ WF_vars(ProcessFinalizedL2Events)
  /\ WF_vars(DepositWorker)

Spec == Init /\ [][Next]_vars /\ Fairness

-----------------------------------------------------------------------------
(* Properties.                                                             *)

Counts == 0..MaxRescans + 1

TypeOK ==
  /\ l1Log \in Seq(SUBSET Deposits)
  /\ l2Log \in Seq(Messages)
  /\ cursor["L1"] \in 0..Len(l1Log) /\ cursor["L2"] \in 0..Len(l2Log)
  /\ row \in [Deposits -> {NoRow} \cup
                          [hash : Messages \cup {NoHash}, status : Status]]
  /\ relay \in [Deposits -> [unrelated : Counts, related : Counts]]
  /\ bw.pc \in {"Idle", "Mark", "Relate"}
  /\ bw.list \in [Deposits -> Counts] /\ bw.left \in [Deposits -> Counts]
  /\ \A d \in Deposits : bw.left[d] <= bw.list[d]
  /\ faults \in 0..MaxFaults
  /\ rescans \in 0..MaxRescans

\* markedL1ToL2Finalized only relates a relay row whose deposit the L1
\* side has indexed with the relay's message hash, and only after it has
\* claimed a deposit row: a relay stored by processFinalizedL2Events before
\* processInitiatedL1Events reached the deposit waits, and a failure between
\* the two statements leaves the relay unrelated, never the other way round.
RelatedBacked ==
  \A d \in Deposits :
    relay[d].related > 0 =>
      /\ d \in HashesOnRows
      /\ \E r \in Stored : row[r].status = "Claimed"

\* A deposit row is Claimed only if its own message was relayed on L2
\* (MarkL1ToL2TransactionDepositFinalized).
OnlyRelayedClaimed ==
  \A d \in Stored : row[d].status = "Claimed" => d \in Relayed

\* Once processInitiatedL1Events has stored a deposit, the hash of its
\* SentMessage is on some l1_to_l2 row, so that its relay can be matched
\* (UpdateMessageHashByTxHash).
MessageHashIndexed ==
  \A d \in Messages \cap Stored : d \in HashesOnRows

\* A relay whose deposit is indexed eventually shows a related relay row,
\* over failed statements, the relays listed with it and the rows a rescan
\* after the idle reset stores again.
RelayEventuallyRelated ==
  \A d \in Deposits :
    relay[d].unrelated > 0 /\ d \in HashesOnRows ~> relay[d].related > 0

\* Every relay row of an indexed deposit is eventually related: the rows
\* stored again by the rescan after processFinalizedL2Events' idle reset
\* are listed one by one, but MarkedRelayMessageRelated may Take the same
\* row of the hash for each of them.
EveryRelayRowRelated ==
  \A d \in Deposits :
    relay[d].unrelated > 0 /\ d \in HashesOnRows ~> relay[d].unrelated = 0

\* Every deposit relayed on L2 is eventually shown Claimed.
EventuallyClaimed ==
  \A d \in Messages :
    d \in Relayed ~> row[d] # NoRow /\ row[d].status = "Claimed"

====
