---------------------------- MODULE BridgeCheck ----------------------------
(***************************************************************************)
(* The bridge balance check:                                               *)
(*   - on L1, deposits raise the bridge's balance and claimed withdrawals  *)
(*     lower it; on L2, relayed deposits mint and initiated withdrawals    *)
(*     burn the token, so balance - totalSupply moves only while a        *)
(*     transfer is in flight;                                              *)
(*   - the indexer stores l1_to_l2 and l2_to_l1 rows for them and the      *)
(*     business jobs mark deposits relayed and withdrawals claimed;       *)
(*   - syncTokenBalance, every 6 hours, reads the bridge balance at the    *)
(*     latest L1 header and the total supply at the latest L2 header and   *)
(*     stores a bridge_checkpoints row.  The first one is Checked; later   *)
(*     ones compare balance - supply with the token's latest checkpoint,   *)
(*     correcting by the transfers in flight the checkpoint queries find.  *)
(* Every transfer moves one unit of the token Tokens[1]; the other tokens  *)
(* of the configured list see no transfers.                                *)
(***************************************************************************)
EXTENDS Integers, Sequences, FiniteSets

CONSTANTS
  Deposits,      \* deposits made on L1
  Withdrawals,   \* withdrawals initiated on L2
  Tokens,        \* L1AccountCheckingAddress, split on spaces (a sequence)
  MaxL1, MaxL2,  \* bound: highest L1 and L2 block
  MaxRuns,       \* bound: syncTokenBalance ticks
  MaxFaults,     \* bound: failed or reverted RPC calls and failed inserts
  Null,          \* SQL NULL
  None           \* no row yet

VARIABLES
  h1, h2,        \* latest L1 and L2 headers
  dep, wd,       \* chain: block of each step of each transfer, 0 = not yet
  depRow, relayRow, wdRow, finRow,  \* the indexer's rows
  cps,           \* bridge_checkpoints rows in id order
  job,           \* syncTokenBalance: pc, token index, checkpoints read, heads
  runs, faults

chain == <<h1, h2, dep, wd>>
rows == <<depRow, relayRow, wdRow, finRow>>
vars == <<chain, rows, cps, job, runs, faults>>

JobIdle == [pc |-> "Idle", i |-> 1, base |-> {}, l1 |-> 0, l2 |-> 0, diff |-> 0]

-----------------------------------------------------------------------------
(* Balances on the two chains.                                             *)

CountAt(f, step, n) == Cardinality({x \in DOMAIN f : f[x][step] # 0 /\ f[x][step] <= n})

\* The bridge's balance of Tokens[1] at L1 block n, and its total supply at
\* L2 block n.  Only differences matter: both start at 0.
BalanceAt(n) == CountAt(dep, "l1", n) - CountAt(wd, "l1", n)
SupplyAt(n) == CountAt(dep, "l2", n) - CountAt(wd, "l2", n)

Step(f, x, step, n) == [f EXCEPT ![x][step] = n]

\* A new L1 block, with a deposit or the claim of an initiated withdrawal.
L1Block ==
  /\ h1 < MaxL1
  /\ h1' = h1 + 1
  /\ \/ UNCHANGED <<dep, wd>>
     \/ \E d \in Deposits :
          dep[d].l1 = 0 /\ dep' = Step(dep, d, "l1", h1 + 1) /\ UNCHANGED wd
     \/ \E w \in Withdrawals :
          /\ wd[w].l2 # 0 /\ wd[w].l1 = 0
          /\ wd' = Step(wd, w, "l1", h1 + 1) /\ UNCHANGED dep
  /\ UNCHANGED <<h2, rows, cps, job, runs, faults>>

\* A new L2 block, with the relay of a deposit or a withdrawal.
L2Block ==
  /\ h2 < MaxL2
  /\ h2' = h2 + 1
  /\ \/ UNCHANGED <<dep, wd>>
     \/ \E d \in Deposits :
          /\ dep[d].l1 # 0 /\ dep[d].l2 = 0
          /\ dep' = Step(dep, d, "l2", h2 + 1) /\ UNCHANGED wd
     \/ \E w \in Withdrawals :
          wd[w].l2 = 0 /\ wd' = Step(wd, w, "l2", h2 + 1) /\ UNCHANGED dep
  /\ UNCHANGED <<h1, rows, cps, job, runs, faults>>

-----------------------------------------------------------------------------
(* The indexer's rows.                                                     *)

\* L1ProcessInitiatedBridgeEvents: an l1_to_l2 row with L2BlockNumber 0 and
\* a zero L2TransactionHash.
IndexDeposit(d) ==
  /\ depRow[d] = None /\ dep[d].l1 # 0
  /\ depRow' = [depRow EXCEPT ![d] = [l1 |-> dep[d].l1, l2Block |-> 0, l2Hash |-> FALSE]]
  /\ UNCHANGED <<chain, relayRow, wdRow, finRow, cps, job, runs, faults>>

\* L2ProcessFinalizedBridgeEvents: a relay_message row.
IndexRelay(d) ==
  /\ relayRow[d] = None /\ dep[d].l2 # 0
  /\ relayRow' = [relayRow EXCEPT ![d] = "UnRelated"]
  /\ UNCHANGED <<chain, depRow, wdRow, finRow, cps, job, runs, faults>>

\* RelayMessageUnRelatedList and WithdrawFinalizedUnRelatedList: the event
\* rows with related = false.
RelayMessageUnRelatedList == {d \in Deposits : relayRow[d] = "UnRelated"}
WithdrawFinalizedUnRelatedList == {w \in Withdrawals : finRow[w] = "UnRelated"}

\* L1ToL2TransactionDeposit and L2ToL1TransactionWithdrawal: the bridge row
\* a relay or a finalization belongs to, if it is indexed yet.
L1ToL2TransactionDeposit(d) == depRow[d] # None
L2ToL1TransactionWithdrawal(w) == wdRow[w] # None

\* markedL1ToL2Finalized: for each unrelated relay whose deposit row exists,
\* MarkL1ToL2TransactionDepositFinalized Takes a row with no condition (the
\* record it is given has a zero MessageHash), sets its L2TransactionHash
\* and its L2BlockNumber from a record that has none (NULL), and Saves it.
MarkedL1ToL2Finalized ==
  LET todo == {d \in RelayMessageUnRelatedList : L1ToL2TransactionDeposit(d)}
  IN /\ todo # {}
     /\ \E taken \in [todo -> {x \in Deposits : depRow[x] # None}] :
          depRow' = [x \in Deposits |->
                      IF \E d \in todo : taken[d] = x
                        THEN [depRow[x] EXCEPT !.l2Block = Null, !.l2Hash = TRUE]
                        ELSE depRow[x]]
     /\ relayRow' = [d \in Deposits |-> IF d \in todo THEN "Related" ELSE relayRow[d]]
     /\ UNCHANGED <<chain, wdRow, finRow, cps, job, runs, faults>>

\* L2ProcessInitiatedBridgeEvents: an l2_to_l1 row with L1BlockNumber 0.
IndexWithdrawal(w) ==
  /\ wdRow[w] = None /\ wd[w].l2 # 0
  /\ wdRow' = [wdRow EXCEPT ![w] = [l2 |-> wd[w].l2, l1 |-> 0, claimed |-> FALSE]]
  /\ UNCHANGED <<chain, depRow, relayRow, finRow, cps, job, runs, faults>>

\* L1ProcessFinalizedBridgeEvents: a withdraw_finalized row.
IndexFinalized(w) ==
  /\ finRow[w] = None /\ wd[w].l1 # 0
  /\ finRow' = [finRow EXCEPT ![w] = "UnRelated"]
  /\ UNCHANGED <<chain, depRow, relayRow, wdRow, cps, job, runs, faults>>

\* markedL2ToL1Finalized: MarkL2ToL1TransactionWithdrawalFinalized finds the
\* row by WithdrawTransactionHash and sets its L1 block and finalize hash.
MarkedL2ToL1Finalized ==
  LET todo == {w \in WithdrawFinalizedUnRelatedList : L2ToL1TransactionWithdrawal(w)}
  IN /\ todo # {}
     /\ wdRow' = [w \in Withdrawals |->
                   IF w \in todo THEN [wdRow[w] EXCEPT !.l1 = wd[w].l1, !.claimed = TRUE]
                   ELSE wdRow[w]]
     /\ finRow' = [w \in Withdrawals |-> IF w \in todo THEN "Related" ELSE finRow[w]]
     /\ UNCHANGED <<chain, depRow, relayRow, cps, job, runs, faults>>

-----------------------------------------------------------------------------
(* bridge_checkpoints and its queries.                                     *)

\* A comparison with NULL is never true.
SqlGreater(v, n) == v # Null /\ v > n

\* GetLatestBridgeCheckpoint: the rows WHERE id IN (SELECT MAX(id) ...
\* GROUP BY l1_token_address).
GetLatestBridgeCheckpoint ==
  {cps[k] : k \in {k \in DOMAIN cps :
                    \A j \in DOMAIN cps : cps[j].tok = cps[k].tok => j <= k}}

\* The four queries, for the bridged token; another token has no rows.
GetL1DepositUnrelay(c, l1n) ==
  {d \in Deposits : depRow[d] # None /\ c.l1 < depRow[d].l1 /\ depRow[d].l1 <= l1n
                     /\ ~depRow[d].l2Hash}
GetL2WithdrawUnclaimed(c, l2n) ==
  {w \in Withdrawals : wdRow[w] # None /\ c.l2 < wdRow[w].l2 /\ wdRow[w].l2 <= l2n
                        /\ ~wdRow[w].claimed}
GetL1DepositRelayed(c) ==
  {d \in Deposits : depRow[d] # None /\ depRow[d].l1 < c.l1
                     /\ SqlGreater(depRow[d].l2Block, c.l2) /\ depRow[d].l2Hash}
GetL2WithdrawClaimed(c, l1n) ==
  {w \in Withdrawals : wdRow[w] # None /\ c.l1 < wdRow[w].l1 /\ wdRow[w].l1 <= l1n
                        /\ wdRow[w].claimed}

\* latestDifferenceValue after the corrections: minus relayed deposits and
\* unclaimed withdrawals, plus unrelayed deposits and claimed withdrawals.
Corrected(c, l1n, l2n, diff) ==
  IF c.tok # Tokens[1] THEN diff
  ELSE diff - Cardinality(GetL1DepositRelayed(c))
            - Cardinality(GetL2WithdrawUnclaimed(c, l2n))
            + Cardinality(GetL1DepositUnrelay(c, l1n))
            + Cardinality(GetL2WithdrawClaimed(c, l1n))

-----------------------------------------------------------------------------
(* syncTokenBalance, one token of the list per step.                      *)

Fail ==
  /\ faults < MaxFaults
  /\ faults' = faults + 1
  /\ job' = JobIdle
  /\ UNCHANGED <<chain, rows, cps, runs>>

\* The 6-hour tick: the latest checkpoints are read once, before the loop.
SyncTokenBalance ==
  /\ job.pc = "Idle" /\ runs < MaxRuns
  /\ job' = [JobIdle EXCEPT !.pc = "Heads", !.base = GetLatestBridgeCheckpoint]
  /\ runs' = runs + 1
  /\ UNCHANGED <<chain, rows, cps, faults>>

\* L1LatestBlockHeader, L2LatestBlockHeader, then the bridge's balance at
\* the one and the token's totalSupply at the other.  Any of the calls may
\* fail, and the job returns; a reverted totalSupply call reads as 0.
ReadHeads ==
  LET bridged == Tokens[job.i] = Tokens[1]
      bal == IF bridged THEN BalanceAt(h1) ELSE 0
      sup == IF bridged THEN SupplyAt(h2) ELSE 0
  IN /\ job.pc = "Heads"
     /\ \/ /\ job' = [job EXCEPT !.pc = "Check", !.l1 = h1, !.l2 = h2, !.diff = bal - sup]
           /\ UNCHANGED faults
        \/ /\ faults < MaxFaults
           /\ job' = [job EXCEPT !.pc = "Check", !.l1 = h1, !.l2 = h2, !.diff = bal]
           /\ faults' = faults + 1
     /\ UNCHANGED <<chain, rows, cps, runs>>

ReadHeadsFail == job.pc = "Heads" /\ Fail

\* On to the next token, or done.
NextToken == IF job.i < Len(Tokens) THEN [job EXCEPT !.pc = "Heads", !.i = @ + 1]
             ELSE JobIdle

\* No checkpoints were read: this one is Checked, stored in a transaction.
\* Otherwise the token's latest checkpoint, if it has one, is compared:
\* equal differences, or equal after the corrections, store it Checked.
CheckBalance ==
  LET tok == Tokens[job.i]
      mine == {c \in job.base : c.tok = tok}
      row(checked) == [tok |-> tok, l1 |-> job.l1, l2 |-> job.l2,
                       diff |-> job.diff, checked |-> checked]
  IN /\ job.pc = "Check"
     /\ \/ /\ job.base = {}
           /\ cps' = Append(cps, row(TRUE))
        \/ /\ job.base # {} /\ mine = {}
           /\ UNCHANGED cps
        \/ \E c \in mine :
             cps' = Append(cps, row(job.diff = c.diff
                                    \/ Corrected(c, job.l1, job.l2, job.diff) = c.diff))
     /\ job' = NextToken
     /\ UNCHANGED <<chain, rows, runs, faults>>

\* StoreBridgeCheckpoint fails: the job returns.
CheckBalanceFail == job.pc = "Check" /\ (job.base = {} \/ \E c \in job.base : c.tok = Tokens[job.i]) /\ Fail

-----------------------------------------------------------------------------

Init ==
  /\ h1 = 0 /\ h2 = 0
  /\ dep = [d \in Deposits |-> [l1 |-> 0, l2 |-> 0]]
  /\ wd = [w \in Withdrawals |-> [l2 |-> 0, l1 |-> 0]]
  /\ depRow = [d \in Deposits |-> None]
  /\ relayRow = [d \in Deposits |-> None]
  /\ wdRow = [w \in Withdrawals |-> None]
  /\ finRow = [w \in Withdrawals |-> None]
  /\ cps = <<>>
  /\ job = JobIdle
  /\ runs = 0 /\ faults = 0

Next ==
  \/ L1Block \/ L2Block
  \/ \E d \in Deposits : IndexDeposit(d) \/ IndexRelay(d)
  \/ \E w \in Withdrawals : IndexWithdrawal(w) \/ IndexFinalized(w)
  \/ MarkedL1ToL2Finalized \/ MarkedL2ToL1Finalized
  \/ SyncTokenBalance \/ ReadHeads \/ ReadHeadsFail
  \/ CheckBalance \/ CheckBalanceFail

Spec == Init /\ [][Next]_vars

-----------------------------------------------------------------------------
(* Properties.                                                             *)

\* The modelled bridge neither loses nor creates funds: balance - supply
\* moves only with transfers in flight.  syncTokenBalance is meant to find
\* every such checkpoint aligned ("amounts aligned") and to store it with
\* Checked true.
NoFalseAlarm == \A k \in DOMAIN cps : cps[k].checked

====
