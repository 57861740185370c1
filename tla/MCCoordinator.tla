---------------------------- MODULE MCCoordinator ----------------------------
(***************************************************************************)
(* Small instances of Coordinator.  The percentages of constants.ts are    *)
(* scaled up tenfold and the reward base down tenfold (the cancellation    *)
(* fee is the real one), so that a few sats reach the boundaries the real  *)
(* ones reach with thousands: a capped reward, a royalty larger than a     *)
(* pool, a fee that rounds to zero.                                        *)
(***************************************************************************)
EXTENDS Coordinator, TLC

CONSTANTS h1, h2, c1, c2, k1, k2, pinA, pinB, pinC

MCRatePermille == [v \in 0..TaperEnd |-> IF v < 8 THEN 150 ELSE 100]

MCAmount == 0..20

Rcpt(hash, e, h, c, cl, price) ==
  [hash |-> hash, epoch |-> e, host |-> h, cid |-> c, client |-> cl, price |-> price]

\* Two hosts compete for k1 in epoch 0; h2 serves k2 for nothing.
SeqReceipt == {Rcpt(1, 0, h1, k1, c1, 30), Rcpt(2, 0, h2, k1, c2, 10),
               Rcpt(3, 0, h2, k2, c1, 0), Rcpt(4, 1, h1, k1, c1, 40),
               Rcpt(5, 1, h1, k2, c1, 4)}
SeqTip == {[key |-> k1, amount |-> 20], [key |-> k2, amount |-> 4]}

\* One epoch of one pool, for the runs in which requests overlap.
OverlapReceipt == {Rcpt(1, 0, h1, k1, c1, 30), Rcpt(2, 0, h2, k1, c2, 10)}
OverlapTip == {[key |-> k1, amount |-> 20]}
OverlapPin == {pinA}

\* pinA is exhausted within two epochs; pinB asks for little per epoch, and its
\* pool pays out faster than its budget is drained; pinC is for more epochs than
\* sats, so that its drain rate is zero.
MCPin == {pinA, pinB, pinC}
MCPinCid == [i \in Pin |-> IF i = pinA THEN k1 ELSE k2]
MCPinBudget == [i \in Pin |-> CASE i = pinA -> 8 [] i = pinB -> 20 [] i = pinC -> 4]
MCPinDuration == [i \in Pin |-> CASE i = pinA -> 2 [] i = pinB -> 10 [] i = pinC -> 5]

Slots == Permutations(Slot)

=============================================================================
