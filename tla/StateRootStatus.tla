-------------------------- MODULE StateRootStatus --------------------------
(***************************************************************************)
(* State roots and their L1 status:                                        *)
(*   - the L2 output oracle proposes outputs on L1 (OutputProposed);       *)
(*   - processRollupStateRoot (L2OutputEvent) stores a state_root row per  *)
(*     output of its block range with StoreBatchStateRoots, which also     *)
(*     computes each row's BlockSize;                                      *)
(*   - the business job syncStateRootStatus reads the L1 safe and          *)
(*     finalized heads over RPC and raises the status of the rows below    *)
(*     them: 0 (unsafe) -> 1 (safe) -> 2 (finalized).                      *)
(* The business ticker runs onRollup, which calls syncMantleDaData first  *)
(* and returns on its error before syncStateRootStatus runs; the DA data   *)
(* it stores is modelled in MantleDA, here only its outcome.               *)
(* A row's timestamp is its L1 block's, so L1 block numbers order them.    *)
(***************************************************************************)
EXTENDS Integers, Sequences

CONSTANTS
  MaxL1,        \* bound: highest L1 block
  MaxOutputs,   \* bound: outputs proposed
  Steps,        \* L2 blocks an output may advance by
  MaxFaults     \* bound: failed RPC or database calls of the business job

VARIABLES
  head, safe, final,  \* L1 latest, safe and finalized block numbers
  outputs,            \* proposed outputs: [l1, l2], in L1 order
  cursor,             \* processRollupStateRoot cursor (L1 block)
  roots,              \* state_root rows in insertion order
  bs,                 \* syncStateRootStatus: pc and the heads it read
  faults

vars == <<head, safe, final, outputs, cursor, roots, bs, faults>>

Unsafe == 0
Safe == 1
Finalized == 2
Row == [l1 : 0..MaxL1, l2 : Nat, status : {Unsafe, Safe, Finalized},
        blockSize : Int]
BsIdle == [pc |-> "Idle", safe |-> 0, final |-> 0]
LastL2 == IF outputs = <<>> THEN 0 ELSE outputs[Len(outputs)].l2

-----------------------------------------------------------------------------
(* L1.                                                                     *)

\* A new L1 block, possibly with an OutputProposed event.
NewBlock ==
  /\ head < MaxL1
  /\ head' = head + 1
  /\ \/ UNCHANGED outputs
     \/ /\ Len(outputs) < MaxOutputs
        /\ \E s \in Steps : outputs' = Append(outputs, [l1 |-> head + 1, l2 |-> LastL2 + s])
  /\ UNCHANGED <<safe, final, cursor, roots, bs, faults>>

AdvanceSafe ==
  /\ safe < head
  /\ safe' = safe + 1
  /\ UNCHANGED <<head, final, outputs, cursor, roots, bs, faults>>

AdvanceFinal ==
  /\ final < safe
  /\ final' = final + 1
  /\ UNCHANGED <<head, safe, outputs, cursor, roots, bs, faults>>

-----------------------------------------------------------------------------
(* The event processor.                                                    *)

\* StoreBatchStateRoots: the first row's BlockSize is its L2 block number
\* minus that of a row Taken, with no order, among those with an earlier
\* timestamp (0 when there is none); each later row's is the gap to the
\* row before it in the batch.  New rows have status 0.
StoreBatchStateRoots(batch) ==
  \E firstBlockSize \in
        IF \E i \in DOMAIN roots : roots[i].l1 < batch[1].l1
          THEN {roots[i].l2 : i \in {j \in DOMAIN roots : roots[j].l1 < batch[1].l1}}
          ELSE {0} :
    roots' = roots \o
      [k \in 1..Len(batch) |->
         [l1 |-> batch[k].l1, l2 |-> batch[k].l2, status |-> Unsafe,
          blockSize |-> IF k = 1 THEN batch[1].l2 - firstBlockSize
                        ELSE batch[k].l2 - batch[k - 1].l2]]

\* Variant that moves the cursor one block past the range.
ProcessRollupStateRootPastTo ==
  \E to \in cursor + 1 .. head :
    LET batch == SelectSeq(outputs, LAMBDA o : cursor < o.l1 /\ o.l1 <= to)
    IN /\ IF batch = <<>> THEN UNCHANGED roots ELSE StoreBatchStateRoots(batch)
       /\ cursor' = to + 1
       /\ UNCHANGED <<head, safe, final, outputs, bs, faults>>

\* Variant that takes the range [cursor, to], the cursor's block included.
ProcessRollupStateRootInclusive ==
  \E to \in cursor + 1 .. head :
    LET batch == SelectSeq(outputs, LAMBDA o : cursor <= o.l1 /\ o.l1 <= to)
    IN /\ IF batch = <<>> THEN UNCHANGED roots ELSE StoreBatchStateRoots(batch)
       /\ cursor' = to
       /\ UNCHANGED <<head, safe, final, outputs, bs, faults>>

\* processRollupStateRoot over (cursor, to]: L2OutputEvent stores the
\* outputs of the range when there are any; the cursor moves after commit.
ProcessRollupStateRoot ==
  \E to \in cursor + 1 .. head :
    LET batch == SelectSeq(outputs, LAMBDA o : cursor < o.l1 /\ o.l1 <= to)
    IN /\ IF batch = <<>> THEN UNCHANGED roots ELSE StoreBatchStateRoots(batch)
       /\ cursor' = to
       /\ UNCHANGED <<head, safe, final, outputs, bs, faults>>

-----------------------------------------------------------------------------
(* The onRollup job: syncMantleDaData, then syncStateRootStatus, one call  *)
(* per step.                                                               *)

\* syncMantleDaData commits, and onRollup goes on to syncStateRootStatus.
SyncMantleDaData ==
  /\ bs.pc = "Idle"
  /\ bs' = [bs EXCEPT !.pc = "Safe"]
  /\ UNCHANGED <<head, safe, final, outputs, cursor, roots, faults>>

\* syncMantleDaData fails: onRollup logs the error and returns, and the
\* status is not synced on this tick.
SyncMantleDaDataFail ==
  /\ bs.pc = "Idle"
  /\ faults < MaxFaults
  /\ faults' = faults + 1
  /\ UNCHANGED <<head, safe, final, outputs, cursor, roots, bs>>

\* LatestSafeBlockHeader: the safe head an L1 node reports now.
LatestSafeBlockHeader ==
  /\ bs.pc = "Safe"
  /\ bs' = [bs EXCEPT !.pc = "Finalized", !.safe = safe]
  /\ UNCHANGED <<head, safe, final, outputs, cursor, roots, faults>>

LatestFinalizedBlockHeader ==
  /\ bs.pc = "Finalized"
  /\ bs' = [bs EXCEPT !.pc = "UpdateSafe", !.final = final]
  /\ UNCHANGED <<head, safe, final, outputs, cursor, roots, faults>>

\* Variant in which the job returns after UpdateSafeStatus.
UpdateSafeStatusThenReturn ==
  /\ bs.pc = "UpdateSafe"
  /\ roots' = [i \in DOMAIN roots |->
                 IF roots[i].l1 < bs.safe /\ roots[i].status = Unsafe
                   THEN [roots[i] EXCEPT !.status = Safe] ELSE roots[i]]
  /\ bs' = BsIdle
  /\ UNCHANGED <<head, safe, final, outputs, cursor, faults>>

\* UpdateSafeStatus: status 1 where l1_block_number < safe AND status = 0.
UpdateSafeStatus ==
  /\ bs.pc = "UpdateSafe"
  /\ roots' = [i \in DOMAIN roots |->
                 IF roots[i].l1 < bs.safe /\ roots[i].status = Unsafe
                   THEN [roots[i] EXCEPT !.status = Safe] ELSE roots[i]]
  /\ bs' = [bs EXCEPT !.pc = "UpdateFinalized"]
  /\ UNCHANGED <<head, safe, final, outputs, cursor, faults>>

\* Variant that also finalizes the row at the finalized block itself.
UpdateFinalizedStatusInclusive ==
  /\ bs.pc = "UpdateFinalized"
  /\ roots' = [i \in DOMAIN roots |->
                 IF roots[i].l1 <= bs.final THEN [roots[i] EXCEPT !.status = Finalized]
                 ELSE roots[i]]
  /\ bs' = BsIdle
  /\ UNCHANGED <<head, safe, final, outputs, cursor, faults>>

\* UpdateFinalizedStatus: status 2 where l1_block_number < finalized.
UpdateFinalizedStatus ==
  /\ bs.pc = "UpdateFinalized"
  /\ roots' = [i \in DOMAIN roots |->
                 IF roots[i].l1 < bs.final THEN [roots[i] EXCEPT !.status = Finalized]
                 ELSE roots[i]]
  /\ bs' = BsIdle
  /\ UNCHANGED <<head, safe, final, outputs, cursor, faults>>

\* An RPC call or an update fails: the job logs it, returns, and runs again
\* on the next onRollup tick.
StatusFail ==
  /\ bs.pc # "Idle"
  /\ faults < MaxFaults
  /\ bs' = BsIdle
  /\ faults' = faults + 1
  /\ UNCHANGED <<head, safe, final, outputs, cursor, roots>>

OnRollup ==
  \/ SyncMantleDaData
  \/ LatestSafeBlockHeader \/ LatestFinalizedBlockHeader
  \/ UpdateSafeStatus \/ UpdateFinalizedStatus

-----------------------------------------------------------------------------

Init ==
  /\ head = 0 /\ safe = 0 /\ final = 0
  /\ outputs = <<>>
  /\ cursor = 0
  /\ roots = <<>>
  /\ bs = BsIdle
  /\ faults = 0

Next ==
  \/ NewBlock \/ AdvanceSafe \/ AdvanceFinal
  \/ ProcessRollupStateRoot
  \/ OnRollup
  \/ SyncMantleDaDataFail
  \/ StatusFail

\* The processor's L1 ticker and the onRollup ticker run forever; the
\* failures of onRollup's calls are bounded by MaxFaults.
Fairness == WF_vars(ProcessRollupStateRoot) /\ WF_vars(OnRollup)

Spec == Init /\ [][Next]_vars /\ Fairness

-----------------------------------------------------------------------------
(* Properties.                                                             *)

TypeOK ==
  /\ head \in 0..MaxL1 /\ safe \in 0..head /\ final \in 0..safe
  /\ outputs \in Seq([l1 : 1..MaxL1, l2 : Nat])
  /\ cursor \in 0..head
  /\ roots \in Seq(Row)
  /\ bs \in [pc : {"Idle", "Safe", "Finalized", "UpdateSafe", "UpdateFinalized"},
             safe : 0..MaxL1, final : 0..MaxL1]
  /\ faults \in 0..MaxFaults

\* A state root is marked safe or finalized only when its L1 block really
\* is below the safe or finalized head, although syncStateRootStatus uses
\* heads read over RPC in earlier steps while L1 moves on.
StatusBacked ==
  \A i \in DOMAIN roots :
    /\ roots[i].status = Safe => roots[i].l1 < safe
    /\ roots[i].status = Finalized => roots[i].l1 < final

\* The state_root table implements StateRootIndex: processRollupStateRoot
\* stores every proposed output exactly once and in proposal order, though
\* it picks its block range freely and stores nothing for an empty batch,
\* and no update of UpdateSafeStatus or UpdateFinalizedStatus lowers a
\* status or raises one beyond what the heads back at that step, whatever
\* the order of the heads read in successive onRollup ticks.
Index == INSTANCE StateRootIndex
           WITH rows <- [i \in DOMAIN roots |->
                           [l1 |-> roots[i].l1, l2 |-> roots[i].l2,
                            status |-> roots[i].status]]

IndexRefinement == Index!Spec

\* Every state root whose L1 block falls below the finalized head is
\* eventually marked finalized by the onRollup job, although a failed
\* syncMantleDaData makes onRollup return before syncStateRootStatus.
EventuallyFinalizedStatus ==
  \A i \in 1..MaxOutputs :
    (i \in DOMAIN roots /\ roots[i].l1 < final)
      ~> (i \in DOMAIN roots /\ roots[i].status = Finalized)

\* StoreBatchStateRoots gives each state root the number of L2 blocks since
\* the previous state root as its BlockSize.
BlockSizeIsGap ==
  \A i \in DOMAIN roots :
    roots[i].blockSize = roots[i].l2 - (IF i = 1 THEN 0 ELSE roots[i - 1].l2)

====
