--------------------------- MODULE PersistedChain ---------------------------
(***************************************************************************)
(* What the two synchronizers promise the event processor: per chain, the  *)
(* highest persisted header only moves forward, and never past the         *)
(* confirmed height (the chain head less the confirmation depth).  This is *)
(* the `height` that ProcessorCursor's SyncHeader advances.                *)
(***************************************************************************)
EXTENDS Integers

CONSTANTS Chains, MaxHeight, Depth

VARIABLES head, persisted

Confirmed(c) == head[c] - Depth

NewHead(c) ==
  /\ head[c] < MaxHeight
  /\ head' = [head EXCEPT ![c] = @ + 1]
  /\ UNCHANGED persisted

Persist(c) ==
  /\ \E h \in persisted[c] + 1 .. Confirmed(c) :
       persisted' = [persisted EXCEPT ![c] = h]
  /\ UNCHANGED head

Init ==
  /\ head = [c \in Chains |-> 0]
  /\ persisted = [c \in Chains |-> 0]

Next == \E c \in Chains : NewHead(c) \/ Persist(c)

Spec == Init /\ [][Next]_<<head, persisted>>

====
