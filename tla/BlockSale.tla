------------------------------- MODULE BlockSale -------------------------------
(***************************************************************************)
(* What a gateway and its mint promise about the blocks they sell: a sale  *)
(* is quoted once, for one block in one epoch, then paid once; receipts    *)
(* are signed for paid sales on the quoted terms alone; and one receipt of *)
(* a sale is credited to the host, at most.                                *)
(***************************************************************************)
CONSTANTS Invoice, Block, Epoch, Hash, NoSale

VARIABLES
  sale,       \* the terms of each quoted sale and whether it was paid
  signed,     \* receipts the mint has signed
  credited    \* receipts the coordinator has stored

sales == <<sale, signed, credited>>

Receipt == [invoice : Invoice, block : Block, epoch : Epoch, hash : Hash]

Init ==
  /\ sale = [i \in Invoice |-> NoSale]
  /\ signed = {}
  /\ credited = {}

Quote(i, b, e) ==
  /\ sale[i] = NoSale
  /\ sale' = [sale EXCEPT ![i] = [block |-> b, epoch |-> e, paid |-> FALSE]]
  /\ UNCHANGED <<signed, credited>>

Pay(i) ==
  /\ sale[i] # NoSale
  /\ ~sale[i].paid
  /\ sale' = [sale EXCEPT ![i].paid = TRUE]
  /\ UNCHANGED <<signed, credited>>

Sign(r) ==
  /\ sale[r.invoice] # NoSale
  /\ sale[r.invoice] = [block |-> r.block, epoch |-> r.epoch, paid |-> TRUE]
  /\ signed' = signed \cup {r}
  /\ UNCHANGED <<sale, credited>>

Credit(r) ==
  /\ r \in signed
  /\ \A s \in credited : s.invoice # r.invoice
  /\ credited' = credited \cup {r}
  /\ UNCHANGED <<sale, signed>>

Next ==
  \/ \E i \in Invoice :
       \/ \E b \in Block, e \in Epoch : Quote(i, b, e)
       \/ Pay(i)
  \/ \E r \in Receipt : Sign(r) \/ Credit(r)

Spec == Init /\ [][Next]_sales

===============================================================================
