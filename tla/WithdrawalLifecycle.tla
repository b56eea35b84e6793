------------------------ MODULE WithdrawalLifecycle ------------------------
(***************************************************************************)
(* The L2->L1 withdrawal records (table l2_to_l1) and the workers that     *)
(* write them:                                                             *)
(*   - four sub-procedures of the bridge event processor, each with its    *)
(*     own cursor (event/processors/event.go): initiated L2 events, the    *)
(*     rollup state root, proven L1 events and finalized L1 events;        *)
(*   - the business processor's onWithdrawTxStatus job (business/run.go):  *)
(*     syncL2ToL1StateRoot, markedL2ToL1Proven, markedL2ToL1Finalized, run  *)
(*     in that order and abandoned at the first error;                     *)
(*   - the business processor's UpdateTimeLeft job, two UPDATE statements. *)
(* Every database statement is one step; the business jobs write through   *)
(* bp.db, outside the transaction they open, so each statement commits on *)
(* its own.  The chain is the environment: it emits MessagePassed on L2    *)
(* and OutputProposed, WithdrawalProven and WithdrawalFinalized on L1, in  *)
(* the order the contracts allow; the synchronizers persist them (l2Log,   *)
(* l1Log), one event per block.                                            *)
(***************************************************************************)
EXTENDS Naturals, Sequences, FiniteSets

CONSTANTS
  Withdrawals,  \* withdrawal hashes
  Window,       \* fraudProofWindows, counted in UpdateTimeLeft ticks
  MaxProofs,    \* bound: WithdrawalProven events per withdrawal (re-proofs)
  MaxFaults     \* bound: failed statements of the business workers

VARIABLES
  l2Log,          \* persisted L2 contract events, index = block number
  l1Log,          \* persisted L1 contract events, index = block number
  cursor,         \* highest block processed, per processor sub-procedure
  l2ToL1,         \* the l2_to_l1 row of each withdrawal
  stateRootL2,    \* l2_block_number of the latest state_root row, 0 if none
  provenRows,     \* withdraw_proven rows, in insertion order
  finalizedRows,  \* withdraw_finalized rows, in insertion order
  bw,             \* onWithdrawTxStatus worker: program counter and locals
  tlPc,           \* UpdateTimeLeft worker: next statement
  faults          \* failed statements so far

vars == <<l2Log, l1Log, cursor, l2ToL1, stateRootL2, provenRows,
          finalizedRows, bw, tlPc, faults>>
chain == <<l2Log, l1Log>>

Status == {"None", "Pending", "ReadyForProved", "InChallengePeriod",
           "ReadyForClaim", "Claimed"}
Row == [status : Status, timeLeft : 0..Window, l2Block : Nat]
NoRow == [status |-> "None", timeLeft |-> 0, l2Block |-> 0]
EventRow == [w : Withdrawals, related : BOOLEAN]
SubProcedures == {"InitiatedL2", "StateRoot", "ProvenL1", "FinalizedL1"}
WorkerPc == {"SyncRoot", "ProvenList", "ProvenTake", "ProvenSave",
             "ProvenRelate", "FinalList", "FinalSave", "FinalRelate"}

-----------------------------------------------------------------------------
(* The chain, as persisted by the synchronizers.                           *)

Initiated == {l2Log[i].w : i \in DOMAIN l2Log}
L2BlockOf(w) == CHOOSE i \in DOMAIN l2Log : l2Log[i].w = w
OnL1(kind, w) == {i \in DOMAIN l1Log : l1Log[i].kind = kind /\ l1Log[i].w = w}
ProposedUpTo ==
  LET roots == {l1Log[i].l2 : i \in {j \in DOMAIN l1Log :
                                      l1Log[j].kind = "OutputProposed"}}
  IN IF roots = {} THEN 0 ELSE CHOOSE n \in roots : \A m \in roots : m <= n

EmitL1(e) == /\ l1Log' = Append(l1Log, e)
             /\ UNCHANGED <<l2Log, cursor, l2ToL1, stateRootL2, provenRows,
                            finalizedRows, bw, tlPc, faults>>

InitiateWithdrawal(w) ==
  /\ w \notin Initiated
  /\ l2Log' = Append(l2Log, [kind |-> "MessagePassed", w |-> w])
  /\ UNCHANGED <<l1Log, cursor, l2ToL1, stateRootL2, provenRows,
                 finalizedRows, bw, tlPc, faults>>

ProposeOutput ==
  /\ Len(l2Log) > ProposedUpTo
  /\ EmitL1([kind |-> "OutputProposed", l2 |-> Len(l2Log)])

\* The portal proves against a proposed output that covers the withdrawal
\* and refuses to prove a finalized one; it accepts a re-proof.
ProveWithdrawal(w) ==
  /\ w \in Initiated
  /\ ProposedUpTo >= L2BlockOf(w)
  /\ Cardinality(OnL1("WithdrawalProven", w)) < MaxProofs
  /\ OnL1("WithdrawalFinalized", w) = {}
  /\ EmitL1([kind |-> "WithdrawalProven", w |-> w])

FinalizeWithdrawal(w) ==
  /\ OnL1("WithdrawalProven", w) # {}
  /\ OnL1("WithdrawalFinalized", w) = {}
  /\ EmitL1([kind |-> "WithdrawalFinalized", w |-> w])

-----------------------------------------------------------------------------
(* Bridge event processor.  A sub-procedure reads the highest persisted    *)
(* header above its cursor, processes (cursor, to] in one transaction and  *)
(* moves its cursor to `to`.  A failed transaction leaves everything as it *)
(* was, which is the same as the sub-procedure not having run yet.         *)

EventsIn(log, kind, from, to) ==
  SelectSeq(SubSeq(log, from, to), LAMBDA e : e.kind = kind)

\* New unrelated event rows for the events of one kind in a range.
EventRows(kind, from, to) ==
  LET evs == EventsIn(l1Log, kind, from, to)
  IN [j \in 1..Len(evs) |-> [w |-> evs[j].w, related |-> FALSE]]

\* MessagePassed events create Pending rows with time_left 0.
L2ProcessInitiatedBridgeEvents(from, to) ==
  [w \in Withdrawals |->
     IF \E i \in from..to : l2Log[i].w = w
       THEN [status |-> "Pending", timeLeft |-> 0, l2Block |-> L2BlockOf(w)]
       ELSE l2ToL1[w]]

ProcessInitiatedL2Events ==
  \E to \in cursor["InitiatedL2"] + 1 .. Len(l2Log) :
    /\ l2ToL1' = L2ProcessInitiatedBridgeEvents(cursor["InitiatedL2"] + 1, to)
    /\ cursor' = [cursor EXCEPT !["InitiatedL2"] = to]
    /\ UNCHANGED <<chain, stateRootL2, provenRows, finalizedRows, bw, tlPc,
                   faults>>

\* L2OutputProposed events become state_root rows; GetLatestStateRootL2-
\* BlockNumber reads the newest one.
L2OutputEvent(from, to) ==
  LET roots == EventsIn(l1Log, "OutputProposed", from, to)
  IN IF roots = <<>> THEN stateRootL2 ELSE roots[Len(roots)].l2

ProcessRollupStateRoot ==
  \E to \in cursor["StateRoot"] + 1 .. Len(l1Log) :
    /\ stateRootL2' = L2OutputEvent(cursor["StateRoot"] + 1, to)
    /\ cursor' = [cursor EXCEPT !["StateRoot"] = to]
    /\ UNCHANGED <<chain, l2ToL1, provenRows, finalizedRows, bw, tlPc, faults>>

L1ProcessProvenBridgeEvents(from, to) ==
  provenRows \o EventRows("WithdrawalProven", from, to)

ProcessProvenL1Events ==
  \E to \in cursor["ProvenL1"] + 1 .. Len(l1Log) :
    /\ provenRows' = L1ProcessProvenBridgeEvents(cursor["ProvenL1"] + 1, to)
    /\ cursor' = [cursor EXCEPT !["ProvenL1"] = to]
    /\ UNCHANGED <<chain, l2ToL1, stateRootL2, finalizedRows, bw, tlPc, faults>>

L1ProcessFinalizedBridgeEvents(from, to) ==
  finalizedRows \o EventRows("WithdrawalFinalized", from, to)

ProcessFinalizedL1Events ==
  \E to \in cursor["FinalizedL1"] + 1 .. Len(l1Log) :
    /\ finalizedRows' = L1ProcessFinalizedBridgeEvents(cursor["FinalizedL1"] + 1, to)
    /\ cursor' = [cursor EXCEPT !["FinalizedL1"] = to]
    /\ UNCHANGED <<chain, l2ToL1, stateRootL2, provenRows, bw, tlPc, faults>>

-----------------------------------------------------------------------------
(* Business processor, onWithdrawTxStatus (every 5 s).                     *)

BwIdle == [pc |-> "SyncRoot", todo |-> <<>>, k |-> 1, snap |-> NoRow]

\* status 0 -> ReadyForProved, time_left := fraudProofWindows, for every
\* row whose L2 block the latest state root covers.
UpdateReadyForProvedStatus(n) ==
  [w \in Withdrawals |->
     IF l2ToL1[w].status = "Pending" /\ l2ToL1[w].l2Block <= n
       THEN [l2ToL1[w] EXCEPT !.status = "ReadyForProved", !.timeLeft = Window]
       ELSE l2ToL1[w]]

SyncL2ToL1StateRoot ==
  /\ bw.pc = "SyncRoot"
  /\ l2ToL1' = IF stateRootL2 = 0 THEN l2ToL1
               ELSE UpdateReadyForProvedStatus(stateRootL2)
  /\ bw' = [bw EXCEPT !.pc = "ProvenList"]
  /\ UNCHANGED <<chain, cursor, stateRootL2, provenRows, finalizedRows, tlPc,
                 faults>>

\* The unrelated event rows whose withdrawal has an l2_to_l1 row, in order.
UnRelatedWithWithdrawal(rows) ==
  SelectSeq([i \in 1..Len(rows) |-> i],
            LAMBDA i : ~rows[i].related /\ l2ToL1[rows[i].w].status # "None")

\* Take by WithdrawHash returns one of the rows with that hash: the query
\* has no ORDER BY, so which one is the database's choice.
RowsWithHash(rows, w) == {j \in 1..Len(rows) : rows[j].w = w}

\* Variant that relates the listed proofs without saving them first.
MarkedProvenListRelateFirst ==
  /\ bw.pc = "ProvenList"
  /\ LET todo == UnRelatedWithWithdrawal(provenRows)
     IN bw' = IF todo = <<>> THEN [bw EXCEPT !.pc = "FinalList"]
              ELSE [bw EXCEPT !.pc = "ProvenRelate", !.todo = todo, !.k = 1]
  /\ UNCHANGED <<chain, cursor, l2ToL1, stateRootL2, provenRows,
                 finalizedRows, tlPc, faults>>

MarkedProvenList ==
  /\ bw.pc = "ProvenList"
  /\ LET todo == UnRelatedWithWithdrawal(provenRows)
     IN bw' = IF todo = <<>> THEN [bw EXCEPT !.pc = "FinalList"]
              ELSE [bw EXCEPT !.pc = "ProvenTake", !.todo = todo, !.k = 1]
  /\ UNCHANGED <<chain, cursor, l2ToL1, stateRootL2, provenRows,
                 finalizedRows, tlPc, faults>>

CurrentW(rows) == rows[bw.todo[bw.k]].w

\* MarkL2ToL1TransactionWithdrawalProven, first half: Take the row.
ProvenTake ==
  /\ bw.pc = "ProvenTake"
  /\ bw' = [bw EXCEPT !.pc = "ProvenSave", !.snap = l2ToL1[CurrentW(provenRows)]]
  /\ UNCHANGED <<chain, cursor, l2ToL1, stateRootL2, provenRows,
                 finalizedRows, tlPc, faults>>

\* Second half: Save the row read by Take, with the status chosen from the
\* time_left it read, whatever the row has become since.
ProvenStatus(snap) ==
  [snap EXCEPT !.status = IF snap.timeLeft > 0 THEN "InChallengePeriod"
                                               ELSE "ReadyForClaim"]

NextOrThen(pc, after) ==
  IF bw.k < Len(bw.todo) THEN [bw EXCEPT !.pc = pc, !.k = @ + 1]
  ELSE [bw EXCEPT !.pc = after, !.k = 1]

\* Variant whose Save only applies to rows already ReadyForProved.
ProvenSaveReadyOnly ==
  /\ bw.pc = "ProvenSave"
  /\ l2ToL1' = IF bw.snap.status = "ReadyForProved"
               THEN [l2ToL1 EXCEPT ![CurrentW(provenRows)] = ProvenStatus(bw.snap)]
               ELSE l2ToL1
  /\ bw' = NextOrThen("ProvenTake", "ProvenRelate")
  /\ UNCHANGED <<chain, cursor, stateRootL2, provenRows, finalizedRows, tlPc,
                 faults>>

ProvenSave ==
  /\ bw.pc = "ProvenSave"
  /\ l2ToL1' = [l2ToL1 EXCEPT ![CurrentW(provenRows)] = ProvenStatus(bw.snap)]
  /\ bw' = NextOrThen("ProvenTake", "ProvenRelate")
  /\ UNCHANGED <<chain, cursor, stateRootL2, provenRows, finalizedRows, tlPc,
                 faults>>

\* MarkedWithdraw{Proven,Finalized}Related / MarkedRelayMessageRelated:
\* Take a row with the hash, set related, Save.
MarkRelated(rows, w) ==
  {[rows EXCEPT ![j].related = TRUE] : j \in RowsWithHash(rows, w)}

ProvenRelate ==
  /\ bw.pc = "ProvenRelate"
  /\ provenRows' \in MarkRelated(provenRows, CurrentW(provenRows))
  /\ bw' = NextOrThen("ProvenRelate", "FinalList")
  /\ UNCHANGED <<chain, cursor, l2ToL1, stateRootL2, finalizedRows, tlPc,
                 faults>>

MarkedFinalizedList ==
  /\ bw.pc = "FinalList"
  /\ LET todo == UnRelatedWithWithdrawal(finalizedRows)
     IN bw' = IF todo = <<>> THEN BwIdle
              ELSE [bw EXCEPT !.pc = "FinalSave", !.todo = todo, !.k = 1]
  /\ UNCHANGED <<chain, cursor, l2ToL1, stateRootL2, provenRows,
                 finalizedRows, tlPc, faults>>

\* MarkL2ToL1TransactionWithdrawalFinalized: status := Claimed.
\* Variant that looks the row up by a hash it never set, as the version-0
\* finalization does with a zero MessageHash, and so claims whichever row
\* it finds.
FinalSaveAnyRow ==
  /\ bw.pc = "FinalSave"
  /\ \E v \in {u \in Withdrawals : l2ToL1[u].status # "None"} :
       l2ToL1' = [l2ToL1 EXCEPT ![v].status = "Claimed"]
  /\ bw' = NextOrThen("FinalSave", "FinalRelate")
  /\ UNCHANGED <<chain, cursor, stateRootL2, provenRows, finalizedRows, tlPc,
                 faults>>

FinalSave ==
  /\ bw.pc = "FinalSave"
  /\ l2ToL1' = [l2ToL1 EXCEPT ![CurrentW(finalizedRows)].status = "Claimed"]
  /\ bw' = NextOrThen("FinalSave", "FinalRelate")
  /\ UNCHANGED <<chain, cursor, stateRootL2, provenRows, finalizedRows, tlPc,
                 faults>>

FinalRelate ==
  /\ bw.pc = "FinalRelate"
  /\ finalizedRows' \in MarkRelated(finalizedRows, CurrentW(finalizedRows))
  /\ bw' = IF bw.k < Len(bw.todo) THEN [bw EXCEPT !.k = @ + 1] ELSE BwIdle
  /\ UNCHANGED <<chain, cursor, l2ToL1, stateRootL2, provenRows, tlPc, faults>>

\* A statement fails: the error ends this run of onWithdrawTxStatus; what
\* earlier statements wrote stays committed.
BusinessFail ==
  /\ faults < MaxFaults
  /\ bw' = BwIdle
  /\ faults' = faults + 1
  /\ UNCHANGED <<chain, cursor, l2ToL1, stateRootL2, provenRows,
                 finalizedRows, tlPc>>

-----------------------------------------------------------------------------
(* Business processor, UpdateTimeLeft (every second): two statements.      *)

\* Variant that decrements without the time_left > 0 filter or GREATEST.
UpdateTimeLeftDecrementUnguarded ==
  /\ tlPc = "Decrement"
  /\ l2ToL1' = [w \in Withdrawals |->
                  IF l2ToL1[w].status = "InChallengePeriod"
                    THEN [l2ToL1[w] EXCEPT !.timeLeft = @ - 1]
                    ELSE l2ToL1[w]]
  /\ tlPc' = "Flip"
  /\ UNCHANGED <<chain, cursor, stateRootL2, provenRows, finalizedRows, bw,
                 faults>>

UpdateTimeLeftDecrement ==
  /\ tlPc = "Decrement"
  /\ l2ToL1' = [w \in Withdrawals |->
                  IF l2ToL1[w].status = "InChallengePeriod" /\ l2ToL1[w].timeLeft > 0
                    THEN [l2ToL1[w] EXCEPT !.timeLeft = @ - 1]
                    ELSE l2ToL1[w]]
  /\ tlPc' = "Flip"
  /\ UNCHANGED <<chain, cursor, stateRootL2, provenRows, finalizedRows, bw,
                 faults>>

UpdateTimeLeftFlip ==
  /\ tlPc = "Flip"
  /\ l2ToL1' = [w \in Withdrawals |->
                  IF l2ToL1[w].status = "InChallengePeriod" /\ l2ToL1[w].timeLeft = 0
                    THEN [l2ToL1[w] EXCEPT !.status = "ReadyForClaim"]
                    ELSE l2ToL1[w]]
  /\ tlPc' = "Decrement"
  /\ UNCHANGED <<chain, cursor, stateRootL2, provenRows, finalizedRows, bw,
                 faults>>

UpdateTimeLeftFail ==
  /\ faults < MaxFaults
  /\ tlPc' = "Decrement"
  /\ faults' = faults + 1
  /\ UNCHANGED <<chain, cursor, l2ToL1, stateRootL2, provenRows,
                 finalizedRows, bw>>

-----------------------------------------------------------------------------

Init ==
  /\ l2Log = <<>>
  /\ l1Log = <<>>
  /\ cursor = [s \in SubProcedures |-> 0]
  /\ l2ToL1 = [w \in Withdrawals |-> NoRow]
  /\ stateRootL2 = 0
  /\ provenRows = <<>>
  /\ finalizedRows = <<>>
  /\ bw = BwIdle
  /\ tlPc = "Decrement"
  /\ faults = 0

Chain ==
  \/ \E w \in Withdrawals : InitiateWithdrawal(w)
  \/ ProposeOutput
  \/ \E w \in Withdrawals : ProveWithdrawal(w)
  \/ \E w \in Withdrawals : FinalizeWithdrawal(w)

Processor ==
  \/ ProcessInitiatedL2Events
  \/ ProcessRollupStateRoot
  \/ ProcessProvenL1Events
  \/ ProcessFinalizedL1Events

WithdrawWorker ==
  \/ SyncL2ToL1StateRoot
  \/ MarkedProvenList
  \/ ProvenTake
  \/ ProvenSave
  \/ ProvenRelate
  \/ MarkedFinalizedList
  \/ FinalSave
  \/ FinalRelate

TimeLeftWorker == UpdateTimeLeftDecrement \/ UpdateTimeLeftFlip

Next ==
  \/ Chain
  \/ Processor
  \/ WithdrawWorker \/ BusinessFail
  \/ TimeLeftWorker \/ UpdateTimeLeftFail

\* The processor's and the business processor's loops run on tickers and
\* retry every tick; the chain owes the indexer nothing.
Fairness ==
  /\ WF_vars(ProcessInitiatedL2Events)
  /\ WF_vars(ProcessRollupStateRoot)
  /\ WF_vars(ProcessProvenL1Events)
  /\ WF_vars(ProcessFinalizedL1Events)
  /\ WF_vars(WithdrawWorker)
  /\ WF_vars(TimeLeftWorker)

Spec == Init /\ [][Next]_vars /\ Fairness

-----------------------------------------------------------------------------
(* Properties.                                                             *)

TypeOK ==
  /\ l2Log \in Seq([kind : {"MessagePassed"}, w : Withdrawals])
  /\ \A i \in DOMAIN l1Log : l1Log[i].kind \in
       {"OutputProposed", "WithdrawalProven", "WithdrawalFinalized"}
  /\ cursor \in [SubProcedures -> Nat]
  /\ cursor["InitiatedL2"] <= Len(l2Log)
  /\ \A s \in SubProcedures \ {"InitiatedL2"} : cursor[s] <= Len(l1Log)
  /\ l2ToL1 \in [Withdrawals -> Row]
  /\ stateRootL2 \in 0..Len(l2Log)
  /\ provenRows \in Seq(EventRow)
  /\ finalizedRows \in Seq(EventRow)
  /\ bw.pc \in WorkerPc /\ bw.snap \in Row /\ bw.k \in Nat
  /\ tlPc \in {"Decrement", "Flip"}
  /\ faults \in 0..MaxFaults

\* The business processor never gets ahead of the chain: a withdrawal is
\* ReadyForProved only once an indexed state root covers its L2 block, in
\* the challenge period or claimable only once it was proven on L1, and
\* Claimed only once it was finalized on L1.  Broken if any status update
\* (UpdateReadyForProvedStatus, MarkL2ToL1TransactionWithdrawalProven,
\* MarkL2ToL1TransactionWithdrawalFinalized) lands on a row other than the
\* one its event names.
ChainBacked ==
  \A w \in Withdrawals :
    /\ l2ToL1[w].status = "ReadyForProved" =>
         stateRootL2 >= l2ToL1[w].l2Block
    /\ l2ToL1[w].status \in {"InChallengePeriod", "ReadyForClaim"} =>
         OnL1("WithdrawalProven", w) # {}
    /\ l2ToL1[w].status = "Claimed" => OnL1("WithdrawalFinalized", w) # {}

\* A withdraw_proven row is marked related only after its proof was applied
\* to the withdrawal: markedL2ToL1Proven saves every listed withdrawal
\* before it relates any row, so a related proof with a withdrawal still
\* Pending or ReadyForProved means a proof was consumed and lost.
RelatedProofApplied ==
  \A j \in 1..Len(provenRows) :
    provenRows[j].related =>
      l2ToL1[provenRows[j].w].status \notin {"None", "Pending", "ReadyForProved"}

\* Spec, withdrawal state machine: Pending -> ReadyForProved ->
\* {InChallengePeriod -> ReadyForClaim | ReadyForClaim} -> Claimed, and no
\* other change of status.
AllowedTransition ==
  {<<"None", "Pending">>, <<"Pending", "ReadyForProved">>,
   <<"ReadyForProved", "InChallengePeriod">>,
   <<"ReadyForProved", "ReadyForClaim">>,
   <<"InChallengePeriod", "ReadyForClaim">>,
   <<"InChallengePeriod", "Claimed">>, <<"ReadyForClaim", "Claimed">>}

StatusTransitionsAllowed ==
  [][\A w \in Withdrawals :
       l2ToL1'[w].status # l2ToL1[w].status =>
         <<l2ToL1[w].status, l2ToL1'[w].status>> \in AllowedTransition]_l2ToL1

\* Once a proof of the withdrawal is on L1 the indexer eventually shows it
\* proven (in the challenge period, claimable or claimed) for good:
\* processProvenL1Events indexes the event and markedL2ToL1Proven applies it.
EventuallyProven ==
  \A w \in Withdrawals :
    OnL1("WithdrawalProven", w) # {} ~>
      [](l2ToL1[w].status \in {"InChallengePeriod", "ReadyForClaim", "Claimed"})

\* Once the withdrawal is finalized on L1 the indexer eventually shows it
\* Claimed for good.
EventuallyClaimed ==
  \A w \in Withdrawals :
    OnL1("WithdrawalFinalized", w) # {} ~> [](l2ToL1[w].status = "Claimed")

=============================================================================
