------------------------------ MODULE EpochBooks ------------------------------
(***************************************************************************)
(* What settlement promises about the books of an epoch, whatever happens  *)
(* inside: the pool of a CID is charged at most once for an epoch, only    *)
(* while nothing of the epoch is booked, and what is booked for the hosts  *)
(* of a CID is covered by that charge.                                     *)
(***************************************************************************)
EXTENDS Totals

CONSTANTS Epoch, Cid

VARIABLES
  paid,    \* sats charged to each pool for each epoch
  booked   \* rows [epoch, host, cid, reward]

RowsOf(rows, e, c) == {r \in rows : r.epoch = e /\ r.cid = c}

Booked(rows, e, c) == Total([r \in RowsOf(rows, e, c) |-> r.reward])

Charge(e, c) ==
  /\ \A r \in booked : r.epoch # e
  /\ paid[e][c] = 0
  /\ paid'[e][c] > 0
  /\ paid' = [paid EXCEPT ![e][c] = paid'[e][c]]
  /\ UNCHANGED booked

Book(row) ==
  /\ \A r \in RowsOf(booked, row.epoch, row.cid) : r.host # row.host
  /\ booked' = booked \cup {row}
  /\ Booked(booked', row.epoch, row.cid) <= paid[row.epoch][row.cid]
  /\ UNCHANGED paid

Init ==
  /\ paid = [e \in Epoch |-> [c \in Cid |-> 0]]
  /\ booked = {}

Next ==
  \/ \E e \in Epoch, c \in Cid : Charge(e, c)
  \/ \E row \in booked' : Book(row)

Spec == Init /\ [][Next]_<<paid, booked>>

===============================================================================
