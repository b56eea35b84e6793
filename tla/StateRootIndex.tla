--------------------------- MODULE StateRootIndex ---------------------------
(***************************************************************************)
(* What the state_root table promises, above how it is filled: the rows    *)
(* are the outputs the L2 output oracle proposed, in proposal order, each  *)
(* exactly once, and a row's status only rises, to safe when its L1 block  *)
(* is below the safe head and to finalized when below the finalized head.  *)
(* The chain is left free: L1 heads advance, finalized <= safe <= head,    *)
(* and an output is proposed in the newest block with a higher L2 block.   *)
(***************************************************************************)
EXTENDS Integers, Sequences

VARIABLES
  head, safe, final,  \* L1 latest, safe and finalized block numbers
  outputs,            \* proposed outputs: [l1, l2], in L1 order
  rows                \* state_root rows: [l1, l2, status], in insertion order

vars == <<head, safe, final, outputs, rows>>

Unsafe == 0
Safe == 1
Finalized == 2

LastL2(os) == IF os = <<>> THEN 0 ELSE os[Len(os)].l2

Init ==
  /\ head = 0 /\ safe = 0 /\ final = 0
  /\ outputs = <<>>
  /\ rows = <<>>

\* L1 moves on; at most one output is proposed, in the newest block.
ChainAdvances ==
  /\ head <= head' /\ safe <= safe' /\ final <= final'
  /\ final' <= safe' /\ safe' <= head'
  /\ \/ outputs' = outputs
     \/ /\ Len(outputs') = Len(outputs) + 1
        /\ SubSeq(outputs', 1, Len(outputs)) = outputs
        /\ outputs'[Len(outputs')].l1 = head'
        /\ outputs'[Len(outputs')].l2 > LastL2(outputs)
  /\ UNCHANGED rows

\* The next outputs not yet indexed are appended, with status unsafe.
IndexOutputs ==
  /\ Len(rows) < Len(rows') /\ Len(rows') <= Len(outputs)
  /\ rows' = rows \o [k \in 1..Len(rows') - Len(rows) |->
                        [l1 |-> outputs[Len(rows) + k].l1,
                         l2 |-> outputs[Len(rows) + k].l2,
                         status |-> Unsafe]]
  /\ UNCHANGED <<head, safe, final, outputs>>

\* Statuses rise, each only as far as the current heads back it.
RaiseStatus ==
  /\ DOMAIN rows' = DOMAIN rows
  /\ \A i \in DOMAIN rows :
       /\ rows'[i].l1 = rows[i].l1 /\ rows'[i].l2 = rows[i].l2
       /\ rows'[i].status \in {Unsafe, Safe, Finalized}
       /\ rows'[i].status >= rows[i].status
       /\ rows'[i].status = Safe => rows[i].l1 < safe
       /\ rows'[i].status = Finalized => rows[i].l1 < final
  /\ UNCHANGED <<head, safe, final, outputs>>

Next == ChainAdvances \/ IndexOutputs \/ RaiseStatus

Spec == Init /\ [][Next]_vars

====
