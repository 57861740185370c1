--------------------------- MODULE MCPaymentIntents ---------------------------
(***************************************************************************)
(* Small instances of PaymentIntents.  Requests may name the sats of the   *)
(* event or other sats, and time moves past the life of a request twice.   *)
(***************************************************************************)
EXTENDS PaymentIntents, TLC

CONSTANTS k1, e1, e2

MCRatePermille == [v \in 0..TaperEnd |-> IF v < 3 THEN 150 ELSE 100]
MCEventRef == [e \in Event |-> k1]
MCEventSats == [e \in Event |-> IF e = e1 THEN 2 ELSE 3]

Interchangeable == Permutations(Slot) \cup Permutations(Invoice)

===============================================================================
