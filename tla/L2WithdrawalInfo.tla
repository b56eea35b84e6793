-------------------------- MODULE L2WithdrawalInfo --------------------------
(***************************************************************************)
(* L2ProcessInitiatedBridgeEvents, the bedrock L2 withdrawal path, over    *)
(* one block range and in one database transaction:                        *)
(*   (1) a Pending l2_to_l1 row per MessagePassed (StoreL2ToL1Transactions);*)
(*   (2) per CrossDomainMessenger SentMessage, UpdateL2ToL1InfoByTxHash    *)
(*       Takes a row by L2 transaction hash and Saves the message's        *)
(*       addresses and amounts onto it;                                    *)
(*   (3) per StandardBridge BridgeInitiated, the same with the bridge's    *)
(*       addresses, amounts and token addresses.                           *)
(* Take has no ORDER BY: of the rows of one L2 transaction it returns any. *)
(* The row's info is abstracted to the event whose values it last took.    *)
(* Every SentMessage comes with a MessagePassed of its transaction, and    *)
(* every BridgeInitiated with both at the log offsets the code expects, so *)
(* neither the not-found return nor the offset errors fire here.           *)
(***************************************************************************)
EXTENDS Integers, FiniteSets, Functions

CONSTANTS
  Withdrawals,  \* MessagePassed events (withdrawal hashes)
  TxOf,         \* the L2 transaction of each withdrawal
  Sent,         \* withdrawals sent through L2CrossDomainMessenger
  Bridged       \* of those, the ones sent through L2StandardBridge

ASSUME Bridged \subseteq Sent /\ Sent \subseteq Withdrawals

VARIABLES
  stored,  \* withdrawals with an l2_to_l1 row
  info     \* per row: the event whose addresses and amounts it carries

vars == <<stored, info>>

NoInfo == <<"none", "none">>
Info == {NoInfo} \cup ({"message", "bridge"} \X Withdrawals)
Txs == {TxOf[w] : w \in Withdrawals}

\* One update loop of UpdateL2ToL1InfoByTxHash over the events evs, run in
\* the order ord (1..n -> evs): each event Takes a row of its transaction,
\* and a row keeps the values of the last event Saved onto it.
UpdateL2ToL1InfoByTxHash(kind, evs, rows, before) ==
  { [r \in Withdrawals |->
       LET onR == {i \in DOMAIN ord : taken[ord[i]] = r}
       IN IF onR = {} THEN before[r]
          ELSE <<kind, ord[CHOOSE i \in onR : \A j \in onR : j <= i]>>] :
    ord \in Bijection(1..Cardinality(evs), evs),
    taken \in {f \in [evs -> rows] : \A e \in evs : TxOf[f[e]] = TxOf[e]} }

\* L2ProcessInitiatedBridgeEvents over a range holding the transactions ts.
L2ProcessInitiatedBridgeEvents(ts) ==
  LET ws == {w \in Withdrawals : TxOf[w] \in ts}
      rows == stored \cup ws
  IN /\ ws \cap stored = {}
     /\ stored' = rows
     /\ \E afterMsgs \in UpdateL2ToL1InfoByTxHash("message", ws \cap Sent, rows, info) :
          info' \in UpdateL2ToL1InfoByTxHash("bridge", ws \cap Bridged, rows, afterMsgs)

Init ==
  /\ stored = {}
  /\ info = [w \in Withdrawals |-> NoInfo]

\* The processor takes the next range; a transaction lies in one block.
Next ==
  \E ts \in SUBSET Txs :
    /\ ts # {}
    /\ L2ProcessInitiatedBridgeEvents(ts)

Spec == Init /\ [][Next]_vars

-----------------------------------------------------------------------------
(* Properties.                                                             *)

TypeOK ==
  /\ stored \subseteq Withdrawals
  /\ info \in [Withdrawals -> Info]

\* Once its range is processed, the row of each withdrawal carries the
\* values of its own event: those of its BridgeInitiated for a bridge
\* withdrawal, of its SentMessage for a messenger one
\* (UpdateL2ToL1InfoByTxHash finds the row by L2 transaction hash).
InfoOnOwnRow ==
  \A w \in stored :
    /\ w \in Bridged => info[w] = <<"bridge", w>>
    /\ w \in Sent \ Bridged => info[w] = <<"message", w>>

====
