-------------------------- MODULE LegacyWithdrawal --------------------------
(***************************************************************************)
(* The status of legacy (pre-bedrock) withdrawals after the migration.     *)
(*   - LegacyL2ProcessInitiatedBridgeEvents stores an l2_to_l1 row per     *)
(*     legacy SentMessage, keyed by the legacy storage key                 *)
(*     keccak(calldata ++ messenger), with version 0 and no                *)
(*     l2_block_number;                                                    *)
(*   - at start, with WithdrawCalcEnable, initV1Withdraw rewrites the      *)
(*     withdraw_transaction_hash of the rows that exist then to the        *)
(*     migrated withdrawal hash, for the messages of the v1 table          *)
(*     l2_sent_message_events;                                             *)
(*   - the bedrock portal's WithdrawalProven and WithdrawalFinalized       *)
(*     events carry the migrated hash;                                     *)
(*   - markedL2ToL1Proven and markedL2ToL1Finalized find the row by that   *)
(*     hash and, for a version-0 row, apply the event through the V0       *)
(*     list: proofs by withdraw hash, finalizations by a MessageHash the   *)
(*     records never carry.                                                *)
(* UpdateReadyForProvedStatus filters on l2_block_number, which legacy     *)
(* rows lack, and their TimeLeft stays 0, so they never pass through       *)
(* ReadyForProved or InChallengePeriod.                                    *)
(***************************************************************************)
EXTENDS Integers, FiniteSets

CONSTANTS
  Withdrawals,  \* legacy withdrawals
  V1Sent,       \* those listed in l2_sent_message_events
  MaxRestarts   \* bound: restarts of the process

VARIABLES
  row,        \* per withdrawal: no row, or the key its row carries
  status,     \* per withdrawal: its row's status
  proven,     \* per withdrawal: its withdraw_proven row, and whether related
  finalized,  \* per withdrawal: its withdraw_finalized row, and whether related
  restarts

vars == <<row, status, proven, finalized, restarts>>

\* withdraw_transaction_hash of a row: none stored, the legacy storage key,
\* or the migrated hash that the portal's events carry.
NoRow == "None"
LegacyKey == "LegacyKey"
Migrated == "Migrated"

\* An event row of withdraw_proven or withdraw_finalized.
NoEvent == "None"
Unrelated == "Unrelated"
Related == "Related"

Stored == {w \in Withdrawals : row[w] # NoRow}

\* L2ToL1TransactionWithdrawal(hash): the row found for an event's hash.
Found(w) == row[w] = Migrated

-----------------------------------------------------------------------------

\* LegacyL2ProcessInitiatedBridgeEvents stores the row (version 0, Pending).
StoreLegacyRow(w) ==
  /\ row[w] = NoRow
  /\ row' = [row EXCEPT ![w] = LegacyKey]
  /\ UNCHANGED <<status, proven, finalized, restarts>>

\* initV1Withdraw: withdraw_transaction_hash := the migrated hash, WHERE
\* l2_transaction_hash matches a message of l2_sent_message_events.
InitV1Withdraw ==
  row' = [w \in Withdrawals |->
            IF row[w] # NoRow /\ w \in V1Sent THEN Migrated ELSE row[w]]

\* The process starts again; initFromConfig runs initV1Withdraw before the
\* processors start.
Restart ==
  /\ restarts < MaxRestarts
  /\ restarts' = restarts + 1
  /\ InitV1Withdraw
  /\ UNCHANGED <<status, proven, finalized>>

\* L1ProcessProvenBridgeEvents stores the proof's withdraw_proven row.
IndexProven(w) ==
  /\ proven[w] = NoEvent
  /\ proven' = [proven EXCEPT ![w] = Unrelated]
  /\ UNCHANGED <<row, status, finalized, restarts>>

\* L1ProcessFinalizedBridgeEvents stores the withdraw_finalized row; the
\* portal finalizes only a proven withdrawal.
IndexFinalized(w) ==
  /\ proven[w] # NoEvent
  /\ finalized[w] = NoEvent
  /\ finalized' = [finalized EXCEPT ![w] = Unrelated]
  /\ UNCHANGED <<row, status, proven, restarts>>

\* markedL2ToL1Proven: the unrelated proofs whose row is found go to the V0
\* list; MarkL2ToL1TransactionWithdrawalProven Takes each by withdraw hash
\* and, TimeLeft being 0, sets ReadyForClaim; the proofs are then related.
\* A proof whose row is not found is left for the next tick.
MarkedL2ToL1Proven ==
  LET listed == {w \in Withdrawals : proven[w] = Unrelated /\ Found(w)}
  IN /\ listed # {}
     /\ status' = [w \in Withdrawals |->
                     IF w \in listed THEN "ReadyForClaim" ELSE status[w]]
     /\ proven' = [w \in Withdrawals |->
                     IF w \in listed THEN Related ELSE proven[w]]
     /\ UNCHANGED <<row, finalized, restarts>>

\* MarkL2ToL1TransactionWithdrawalFinalizedV0: the records carry no
\* MessageHash, gorm drops the zero condition, and each record Takes
\* whichever row comes first and Saves it as Claimed.
MarkL2ToL1TransactionWithdrawalFinalizedV0(listed) ==
  \E taken \in [listed -> Stored] :
    status' = [w \in Withdrawals |->
                 IF \E l \in listed : taken[l] = w THEN "Claimed" ELSE status[w]]

\* markedL2ToL1Finalized: the unrelated finalizations whose row is found
\* go through the V0 list and are then related.
MarkedL2ToL1Finalized ==
  LET listed == {w \in Withdrawals : finalized[w] = Unrelated /\ Found(w)}
  IN /\ listed # {}
     /\ MarkL2ToL1TransactionWithdrawalFinalizedV0(listed)
     /\ finalized' = [w \in Withdrawals |->
                        IF w \in listed THEN Related ELSE finalized[w]]
     /\ UNCHANGED <<row, proven, restarts>>

Init ==
  /\ row = [w \in Withdrawals |-> NoRow]
  /\ status = [w \in Withdrawals |-> "Pending"]
  /\ proven = [w \in Withdrawals |-> NoEvent]
  /\ finalized = [w \in Withdrawals |-> NoEvent]
  /\ restarts = 0

Next ==
  \/ \E w \in Withdrawals : StoreLegacyRow(w) \/ IndexProven(w) \/ IndexFinalized(w)
  \/ MarkedL2ToL1Proven
  \/ MarkedL2ToL1Finalized
  \/ Restart

\* The processors and the business jobs run on tickers; nothing restarts
\* the process on its own.
Fairness ==
  /\ \A w \in Withdrawals : WF_vars(StoreLegacyRow(w))
  /\ WF_vars(MarkedL2ToL1Proven)
  /\ WF_vars(MarkedL2ToL1Finalized)

Spec == Init /\ [][Next]_vars /\ Fairness

-----------------------------------------------------------------------------
(* Properties.                                                             *)

TypeOK ==
  /\ row \in [Withdrawals -> {NoRow, LegacyKey, Migrated}]
  /\ status \in [Withdrawals -> {"Pending", "ReadyForClaim", "Claimed"}]
  /\ proven \in [Withdrawals -> {NoEvent, Unrelated, Related}]
  /\ finalized \in [Withdrawals -> {NoEvent, Unrelated, Related}]
  /\ restarts \in 0..MaxRestarts

\* The spec's withdrawal status: a withdrawal is Claimed only once its
\* finalization on L1 has been indexed (markedL2ToL1Finalized).
ClaimedOnlyWhenFinalized ==
  \A w \in Withdrawals : status[w] = "Claimed" => finalized[w] # NoEvent

\* A legacy withdrawal proven on L1 eventually shows the proof
\* (markedL2ToL1Proven), for every message the v1 table lists.
ProofEventuallyApplied ==
  \A w \in V1Sent : proven[w] # NoEvent ~> proven[w] = Related

====
