------------------------------ MODULE MantleDA ------------------------------
(***************************************************************************)
(* The Mantle DA pipeline:                                                 *)
(*   - the DataLayr service manager confirms data stores on L1, one        *)
(*     ConfirmDataStore event per block;                                   *)
(*   - processRollupMantleDA (L1ProcessMantleDAEvents) stores a            *)
(*     data_store_event row per confirmation in its block range;           *)
(*   - the business job syncMantleDaData reads the events with ids in      *)
(*     (start, start + maxEpochRange), retrieves each data store from the  *)
(*     DA service and stores data_store / data_store_block rows, all in    *)
(*     one transaction.  `start` is the highest stored data_store_id, or   *)
(*     the in-memory bp.startDataStoreId when data_store is empty.         *)
(* data_store and data_store_block rows are written together, so one      *)
(* count per id stands for both.                                           *)
(***************************************************************************)
EXTENDS Integers, Sequences, FiniteSets

CONSTANTS
  Ids,            \* data store ids the DA contract confirms
  StartId,        \* cfg.StartDataStoreId
  EpochRange,     \* maxEpochRange (2000 in the code)
  InOrder,        \* TRUE: stores are confirmed in id order
  MaxTimeouts,    \* bound: retrievals that time out
  MaxFaults,      \* bound: failed syncMantleDaData transactions
  MaxRestarts     \* bound: restarts of the indexer

VARIABLES
  l1Log,      \* persisted ConfirmDataStore events, one per block
  cursor,     \* processRollupMantleDA cursor (index into l1Log)
  evBatches,  \* data_store_event rows, one set per insert; the index orders timestamps
  ds,         \* data_store rows per id: 0, 1 or Many
  start,      \* bp.startDataStoreId
  budget      \* faults used so far, per kind

vars == <<l1Log, cursor, evBatches, ds, start, budget>>

Many == 2
Confirmed == {l1Log[i] : i \in 1..Len(l1Log)}
EventIds == UNION {evBatches[i] : i \in 1..Len(evBatches)}
Budgets == [timeout : 0..MaxTimeouts,
            fault : 0..MaxFaults, restart : 0..MaxRestarts]
Within(kind, bound) == budget[kind] < bound

-----------------------------------------------------------------------------

\* The DA contract confirms a data store; the L1 synchronizer persists the
\* block holding the event.
ConfirmDataStore(id) ==
  /\ id \notin Confirmed
  /\ InOrder => \A j \in Ids : j < id => j \in Confirmed
  /\ l1Log' = Append(l1Log, id)
  /\ UNCHANGED <<cursor, evBatches, ds, start, budget>>

\* Variant that moves the cursor one block past the range.
ProcessRollupMantleDAPastTo ==
  \E to \in cursor + 1 .. Len(l1Log) :
    /\ evBatches' = Append(evBatches, {l1Log[i] : i \in cursor + 1 .. to})
    /\ cursor' = to + 1
    /\ UNCHANGED <<l1Log, ds, start, budget>>

\* Variant whose range stops short of the latest persisted block.
ProcessRollupMantleDABeforeLast ==
  \E to \in cursor + 1 .. Len(l1Log) - 1 :
    /\ evBatches' = Append(evBatches, {l1Log[i] : i \in cursor + 1 .. to})
    /\ cursor' = to
    /\ UNCHANGED <<l1Log, ds, start, budget>>

\* processRollupMantleDA over (cursor, to]: L1ProcessMantleDAEvents parses
\* the DataLayr logs and stores them with one insert, and the cursor moves
\* after the commit.  A failed insert is logged and nil is returned, but
\* Postgres has aborted the transaction, so its COMMIT fails and nothing
\* changes: the same as no step.
ProcessRollupMantleDA ==
  \E to \in cursor + 1 .. Len(l1Log) :
    /\ evBatches' = Append(evBatches, {l1Log[i] : i \in cursor + 1 .. to})
    /\ cursor' = to
    /\ UNCHANGED <<l1Log, ds, start, budget>>

\* LatestDataStoreId: data_store_id of the row ordered first by
\* data_store_id desc, 0 when data_store is empty.
LatestDataStoreId ==
  IF \A id \in Ids : ds[id] = 0 THEN 0
  ELSE CHOOSE id \in Ids : ds[id] > 0 /\ \A j \in Ids : ds[j] > 0 => j <= id

\* Where the next syncMantleDaData resumes: strictly above this id.
ResumeFrom == IF LatestDataStoreId # 0 THEN LatestDataStoreId ELSE start

\* Variant whose lower bound also excludes the id after `from`.
ListedInAboveNext(from) ==
  [i \in 1..Len(evBatches) |->
     {id \in evBatches[i] : from + 1 < id /\ id < from + EpochRange}]

\* DataStoreEventListByRange(from, from + maxEpochRange): per insert, the
\* listed ids strictly between the bounds.
ListedIn(from) ==
  [i \in 1..Len(evBatches) |->
     {id \in evBatches[i] : from < id /\ id < from + EpochRange}]

\* DataFromMantleDa's latestDataStoreId: the id of the last row in
\* timestamp order (rows of one insert tie, in no defined order), or 0.
LatestListed(listed) ==
  LET last == {i \in DOMAIN listed : listed[i] # {}}
  IN IF last = {} THEN {0}
     ELSE listed[CHOOSE i \in last : \A j \in last : j <= i]

\* RetrievalDataStoreFromDa polls the DA graph for each listed id until a
\* read succeeds or the polling timer fires; DataFromMantleDa builds rows
\* only for the ids it got back and skips the ones that timed out.
Retrieved(listedIds, lost) == listedIds \ lost

\* constructDataStore builds one data_store row per retrieved event, so an
\* id listed by several inserts gets several rows.
WithRows(id, n) == IF ds[id] + n > 1 THEN Many ELSE 1

\* syncMantleDaData in one transaction.  Each listed row is retrieved from
\* DA; a retrieval that times out yields no rows for its id.  Storing may
\* fail and roll the transaction back, but bp.startDataStoreId was already
\* set to latestDataStoreId in memory.
SyncMantleDaData ==
  LET from == ResumeFrom
      listed == ListedIn(from)
      rowsOf(id) == Cardinality({i \in DOMAIN listed : id \in listed[i]})
      listedIds == UNION {listed[i] : i \in DOMAIN listed}
  IN \E latest \in LatestListed(listed), lost \in SUBSET listedIds :
       /\ budget.timeout + Cardinality(lost) <= MaxTimeouts
       /\ start' = latest
       /\ \/ /\ ds' = [id \in Ids |->
                        IF id \in Retrieved(listedIds, lost)
                          THEN WithRows(id, rowsOf(id)) ELSE ds[id]]
             /\ budget' = [budget EXCEPT !.timeout = @ + Cardinality(lost)]
          \/ /\ Within("fault", MaxFaults)
             /\ Retrieved(listedIds, lost) # {}
             /\ budget' = [budget EXCEPT !.fault = @ + 1]
             /\ UNCHANGED ds
       /\ UNCHANGED <<l1Log, cursor, evBatches>>

\* The indexer restarts.  NewBridgeProcessor resumes processRollupMantleDA
\* from the L1 header numbered MAX(data_store.from_store_number), a DA
\* reference block at or below the blocks already processed, or from the
\* starting height; the business processor starts again from
\* cfg.StartDataStoreId.
Restart ==
  /\ Within("restart", MaxRestarts)
  /\ \E c \in 0..cursor : cursor' = c
  /\ start' = StartId
  /\ budget' = [budget EXCEPT !.restart = @ + 1]
  /\ UNCHANGED <<l1Log, evBatches, ds>>

Init ==
  /\ l1Log = <<>>
  /\ cursor = 0
  /\ evBatches = <<>>
  /\ ds = [id \in Ids |-> 0]
  /\ start = StartId
  /\ budget = [timeout |-> 0, fault |-> 0, restart |-> 0]

Next ==
  \/ \E id \in Ids : ConfirmDataStore(id)
  \/ ProcessRollupMantleDA
  \/ SyncMantleDaData
  \/ Restart

\* The processor's L1 ticker and the business job's onRollup ticker run
\* forever; retrievals and inserts fail only within their bounds.
Fairness == WF_vars(ProcessRollupMantleDA) /\ WF_vars(SyncMantleDaData)

Spec == Init /\ [][Next]_vars /\ Fairness

-----------------------------------------------------------------------------
(* Properties.                                                             *)

TypeOK ==
  /\ l1Log \in Seq(Ids)
  /\ cursor \in 0..Len(l1Log)
  /\ evBatches \in Seq(SUBSET Ids)
  /\ ds \in [Ids -> 0..Many]
  /\ start \in {0, StartId} \cup Ids
  /\ budget \in Budgets

\* Each DA data store has at most one data_store row, also after a restart:
\* the processor's rescan stores a second data_store_event row for an id,
\* and syncMantleDaData must not retrieve and store that id twice.
NoDuplicateDataStore == \A id \in Ids : ds[id] # Many

\* No confirmed data store is passed over: every id with an event row
\* between cfg.StartDataStoreId and the point syncMantleDaData resumes from
\* has its data_store row.
NoIdSkipped ==
  \A id \in EventIds : StartId < id /\ id <= ResumeFrom => ds[id] > 0

\* Every data store confirmed on L1 above cfg.StartDataStoreId eventually
\* has its data_store row.
EventuallyStored ==
  \A id \in Ids : id > StartId => (id \in Confirmed ~> ds[id] > 0)

====

