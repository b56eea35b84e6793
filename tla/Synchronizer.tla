---------------------------- MODULE Synchronizer ----------------------------
(***************************************************************************)
(* The L1 and L2 synchronizers of one indexer process.  Per chain:         *)
(*   - the producer (header traversal and the Synchronizer loop, outside   *)
(*     src/, so taken from the spec) fetches up to BufferSize confirmed    *)
(*     headers above the last one it traversed and blocks on the one-slot  *)
(*     handoff until the consumer takes the batch;                         *)
(*   - the consumer runs handleBatch: L1 keeps only the headers with logs  *)
(*     and returns when there are none; L2 fetches every block's           *)
(*     transactions over RPC; then headers and events are stored in one    *)
(*     transaction under retry.Do with MaxAttempts attempts.               *)
(* An error out of handleBatch ends the task, and HandleCrit shuts the     *)
(* whole process down; a restart resumes each chain from its latest        *)
(* stored header.                                                          *)
(***************************************************************************)
EXTENDS Integers, FiniteSets

CONSTANTS
  Chains,        \* {"L1", "L2"}
  MaxHeight,     \* bound: highest block of either chain
  Depth,         \* ConfirmationDepth
  BufferSize,    \* HeaderBufferSize
  EventBlocks,   \* per chain, the blocks with logs of watched contracts
  MaxAttempts,   \* attempts of retry.Do (10 in the code)
  MaxDbFaults,   \* bound: failed store transactions
  MaxRpcFaults,  \* bound: failed transaction fetches of L2 handleBatch
  MaxCrashes     \* bound: the process killed from outside

VARIABLES
  head,      \* chain head per chain
  trav,      \* last header the producer traversed
  handoff,   \* batch the producer holds at the handoff, {} when none
  work,      \* batch handleBatch is working on, {} when idle
  pc,        \* handleBatch step: "Idle", "Fetch" or "Store"
  attempts,  \* failed attempts of the current retry.Do
  stored,    \* stored header numbers per chain
  events,    \* per chain and event block, event rows stored: 0, 1 or Many
  up,        \* the process is running
  budget     \* faults used so far, per kind

vars == <<head, trav, handoff, work, pc, attempts, stored, events, up, budget>>

Many == 2
Blocks == 1..MaxHeight
Confirmed(c) == head[c] - Depth
Within(kind, bound) == budget[kind] < bound
MinOf(a, b) == IF a < b THEN a ELSE b

\* L1LatestBlockHeader / L2LatestBlockHeader: the highest stored header,
\* 0 when none (genesis).
LatestStored(c) ==
  IF stored[c] = {} THEN 0 ELSE CHOOSE b \in stored[c] : \A x \in stored[c] : x <= b

\* The headers handleBatch stores: HeadersWithLog on L1, every header on L2.
HeadersToStore(c, batch) ==
  IF c = "L1" THEN batch \cap EventBlocks[c] ELSE batch

\* The process stops: every task and its in-memory state is gone.
Stop ==
  /\ up' = FALSE
  /\ handoff' = [c \in Chains |-> {}]
  /\ work' = [c \in Chains |-> {}]
  /\ pc' = [c \in Chains |-> "Idle"]
  /\ attempts' = [c \in Chains |-> 0]

-----------------------------------------------------------------------------
(* Chains.                                                                 *)

NewHead(c) ==
  /\ head[c] < MaxHeight
  /\ head' = [head EXCEPT ![c] = @ + 1]
  /\ UNCHANGED <<trav, handoff, work, pc, attempts, stored, events, up, budget>>

-----------------------------------------------------------------------------
(* Producer (spec 4.1 steps 2-5).                                          *)

\* Variant that waits until a full buffer of headers is confirmed.
TraverseFullBatchesOnly(c) ==
  /\ up
  /\ handoff[c] = {}
  /\ trav[c] + BufferSize <= Confirmed(c)
  /\ handoff' = [handoff EXCEPT ![c] = trav[c] + 1 .. trav[c] + BufferSize]
  /\ trav' = [trav EXCEPT ![c] = trav[c] + BufferSize]
  /\ UNCHANGED <<head, work, pc, attempts, stored, events, up, budget>>

\* Variant that ignores the confirmation depth.
TraverseToHead(c) ==
  /\ up
  /\ handoff[c] = {}
  /\ trav[c] < head[c]
  /\ LET to == MinOf(trav[c] + BufferSize, head[c])
     IN /\ handoff' = [handoff EXCEPT ![c] = trav[c] + 1 .. to]
        /\ trav' = [trav EXCEPT ![c] = to]
  /\ UNCHANGED <<head, work, pc, attempts, stored, events, up, budget>>

\* The next headers up to the confirmed height, at most BufferSize of them,
\* with their logs; the producer then waits at the handoff.
\* BlockHeadersByRange batches the calls and keeps the headers before the
\* first failed or empty answer; when the first one fails, the error is
\* retried on the next tick and changes nothing.
Traverse(c) ==
  /\ up
  /\ handoff[c] = {}
  /\ trav[c] < Confirmed(c)
  /\ \E to \in trav[c] + 1 .. MinOf(trav[c] + BufferSize, Confirmed(c)) :
        /\ handoff' = [handoff EXCEPT ![c] = trav[c] + 1 .. to]
        /\ trav' = [trav EXCEPT ![c] = to]
  /\ UNCHANGED <<head, work, pc, attempts, stored, events, up, budget>>

\* A tick that finds nothing to traverse (safeHeight <= lastPersisted) is
\* a no-op.
TraverseIdle(c) ==
  /\ up
  /\ handoff[c] = {}
  /\ ~ENABLED Traverse(c)
  /\ UNCHANGED vars

-----------------------------------------------------------------------------
(* Consumer: handleBatch.                                                  *)

\* The consumer takes the batch.  L1 handleBatch returns at once when no
\* header of the batch has logs; L2 goes on to fetch transactions.
Accept(c) ==
  /\ up
  /\ pc[c] = "Idle"
  /\ handoff[c] # {}
  /\ handoff' = [handoff EXCEPT ![c] = {}]
  /\ IF HeadersToStore(c, handoff[c]) = {}
       THEN UNCHANGED <<work, pc>>
       ELSE /\ work' = [work EXCEPT ![c] = handoff[c]]
            /\ pc' = [pc EXCEPT ![c] = IF c = "L2" THEN "Fetch" ELSE "Store"]
  /\ UNCHANGED <<head, trav, attempts, stored, events, up, budget>>

\* L2: TxsByHash, TxDetailByHash and TxReceiptDetailByHash for every block
\* of the batch succeed.
FetchTxs(c) ==
  /\ up
  /\ pc[c] = "Fetch"
  /\ pc' = [pc EXCEPT ![c] = "Store"]
  /\ UNCHANGED <<head, trav, handoff, work, attempts, stored, events, up, budget>>

\* One of those calls fails: handleBatch returns the error, not retried,
\* and HandleCrit shuts the process down.
FetchTxsFail(c) ==
  /\ up
  /\ pc[c] = "Fetch"
  /\ Within("rpc", MaxRpcFaults)
  /\ budget' = [budget EXCEPT !.rpc = @ + 1]
  /\ Stop
  /\ UNCHANGED <<head, trav, stored, events>>

\* One more row per event block of the batch, saturating at Many.
StoreEvents(c, batch) ==
  [events EXCEPT ![c] = [b \in Blocks |->
     IF b \in batch \cap EventBlocks[c] THEN IF @[b] = 0 THEN 1 ELSE Many ELSE @[b]]]

\* An attempt of retry.Do commits: headers and events in one transaction.
StoreBatch(c) ==
  /\ up
  /\ pc[c] = "Store"
  /\ stored' = [stored EXCEPT ![c] = @ \cup HeadersToStore(c, work[c])]
  /\ events' = StoreEvents(c, work[c])
  /\ work' = [work EXCEPT ![c] = {}]
  /\ pc' = [pc EXCEPT ![c] = "Idle"]
  /\ attempts' = [attempts EXCEPT ![c] = 0]
  /\ UNCHANGED <<head, trav, handoff, up, budget>>

\* Variant in which the events of a failed attempt stay committed.
StoreFailPartial(c) ==
  /\ up
  /\ pc[c] = "Store"
  /\ Within("db", MaxDbFaults)
  /\ budget' = [budget EXCEPT !.db = @ + 1]
  /\ events' = StoreEvents(c, work[c])
  /\ IF attempts[c] + 1 < MaxAttempts
       THEN /\ attempts' = [attempts EXCEPT ![c] = @ + 1]
            /\ UNCHANGED <<handoff, work, pc, up>>
       ELSE Stop
  /\ UNCHANGED <<head, trav, stored>>

\* Variant that retries without a limit.
StoreFailNoLimit(c) ==
  /\ up
  /\ pc[c] = "Store"
  /\ Within("db", MaxDbFaults)
  /\ budget' = [budget EXCEPT !.db = @ + 1]
  /\ attempts' = [attempts EXCEPT ![c] = @ + 1]
  /\ UNCHANGED <<head, trav, handoff, work, pc, stored, events, up>>

\* An attempt fails and rolls back.  retry.Do tries again, and after the
\* last attempt handleBatch returns the error and the process shuts down.
StoreFail(c) ==
  /\ up
  /\ pc[c] = "Store"
  /\ Within("db", MaxDbFaults)
  /\ budget' = [budget EXCEPT !.db = @ + 1]
  /\ IF attempts[c] + 1 < MaxAttempts
       THEN /\ attempts' = [attempts EXCEPT ![c] = @ + 1]
            /\ UNCHANGED <<handoff, work, pc, up>>
       ELSE Stop
  /\ UNCHANGED <<head, trav, stored, events>>

-----------------------------------------------------------------------------
(* The process.                                                            *)

\* The process is killed between any two steps.
Crash ==
  /\ up
  /\ Within("crash", MaxCrashes)
  /\ budget' = [budget EXCEPT !.crash = @ + 1]
  /\ Stop
  /\ UNCHANGED <<head, trav, stored, events>>

\* Variant whose traversal starts one header past the latest stored one.
RestartSkipOne ==
  /\ ~up
  /\ up' = TRUE
  /\ trav' = [c \in Chains |-> LatestStored(c) + 1]
  /\ UNCHANGED <<head, handoff, work, pc, attempts, stored, events, budget>>

\* NewL1Sync / NewL2Sync: the traversal resumes after the latest stored
\* header, or from genesis.
Restart ==
  /\ ~up
  /\ up' = TRUE
  /\ trav' = [c \in Chains |-> LatestStored(c)]
  /\ UNCHANGED <<head, handoff, work, pc, attempts, stored, events, budget>>

Init ==
  /\ head = [c \in Chains |-> 0]
  /\ trav = [c \in Chains |-> 0]
  /\ handoff = [c \in Chains |-> {}]
  /\ work = [c \in Chains |-> {}]
  /\ pc = [c \in Chains |-> "Idle"]
  /\ attempts = [c \in Chains |-> 0]
  /\ stored = [c \in Chains |-> {}]
  /\ events = [c \in Chains |-> [b \in Blocks |-> 0]]
  /\ up = TRUE
  /\ budget = [db |-> 0, rpc |-> 0, crash |-> 0]

Next ==
  \/ \E c \in Chains :
       \/ NewHead(c) \/ Traverse(c) \/ TraverseIdle(c) \/ Accept(c) \/ FetchTxs(c)
       \/ FetchTxsFail(c) \/ StoreBatch(c) \/ StoreFail(c)
  \/ Crash
  \/ Restart

\* Each chain's producer loop and consumer task run while the process is
\* up.  No fairness restarts a stopped process.
Fairness ==
  \A c \in Chains :
    /\ WF_vars(Traverse(c)) /\ WF_vars(Accept(c))
    /\ WF_vars(FetchTxs(c)) /\ WF_vars(StoreBatch(c))

Spec == Init /\ [][Next]_vars /\ Fairness

-----------------------------------------------------------------------------
(* Properties.                                                             *)

TypeOK ==
  /\ head \in [Chains -> 0..MaxHeight]
  /\ trav \in [Chains -> 0..MaxHeight]
  /\ handoff \in [Chains -> SUBSET Blocks]
  /\ work \in [Chains -> SUBSET Blocks]
  /\ pc \in [Chains -> {"Idle", "Fetch", "Store"}]
  /\ attempts \in [Chains -> 0..MaxAttempts - 1]
  /\ stored \in [Chains -> SUBSET Blocks]
  /\ events \in [Chains -> [Blocks -> 0..Many]]
  /\ up \in BOOLEAN
  /\ budget \in [db : 0..MaxDbFaults, rpc : 0..MaxRpcFaults, crash : 0..MaxCrashes]

\* What the event processor relies on when it windows over persisted
\* headers: below a chain's latest stored header, every header handleBatch
\* keeps and every event is stored, across retries, fatal errors and
\* restarts from the latest stored header.
NoEventMissed ==
  \A c \in Chains : \A b \in 1..LatestStored(c) :
    /\ b \in HeadersToStore(c, Blocks) => b \in stored[c]
    /\ b \in EventBlocks[c] => events[c][b] > 0

\* Exactly-once persistence per batch: no block's events are stored twice,
\* whatever attempts failed and wherever the process stopped.
EventsStoredOnce ==
  \A c \in Chains : \A b \in Blocks : events[c][b] # Many

\* While the process keeps running, every confirmed event block is
\* eventually stored.
EventuallySynced ==
  \A c \in Chains : \A b \in EventBlocks[c] :
    (up /\ b <= Confirmed(c)) ~> (events[c][b] > 0 \/ ~up)

\* The synchronizers implement PersistedChain: the latest stored header
\* only moves forward and never past the confirmed height.
Persisted == INSTANCE PersistedChain WITH persisted <- [c \in Chains |-> LatestStored(c)]
PersistedSpec == Persisted!Spec

\* The spec (4.1): transient RPC and database errors are retried, and only
\* exhausted retries stop the process.  The L2 transaction fetch is not
\* retried.
FatalOnlyAfterRetries ==
  [][up /\ ~up' /\ budget'.crash = budget.crash =>
       \E c \in Chains : pc[c] = "Store" /\ attempts[c] = MaxAttempts - 1]_vars

====
