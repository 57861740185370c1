---------------------------- MODULE MCBountyPool ----------------------------
(***************************************************************************)
(* A small instance of BountyPool: the most general caller restricted to a *)
(* few amounts, and to a bound on the sats ever moved through each pool.   *)
(***************************************************************************)
EXTENDS BountyPool, TLC

CONSTANT
  MaxTurnover   \* no call starts once this much has moved through its pool

\* A steep taper, so that amounts of a few sats see the rate change.
MCRatePermille == [v \in 0..TaperEnd |-> IF v < 2 THEN 500
                                         ELSE IF v < 4 THEN 250 ELSE 0]

MCCall(p, k, amount) ==
  /\ credited[k] + debited[k] <= MaxTurnover
  /\ Call(p, k, amount)

\* With no call in flight the pools stay as they are until a client comes.
Quiet ==
  /\ \A p \in Slot : call[p] = NoCall
  /\ UNCHANGED poolVars

MCNext ==
  \/ Quiet
  \/ \E p \in Slot :
       \/ PoolStep(p)
       \/ Drop(p)
       \/ \E k \in PoolKey, amount \in Amount : MCCall(p, k, amount)

MCSpec == PoolInit /\ [][MCNext]_poolVars

Interchangeable == Permutations(Slot) \cup Permutations(PoolKey)
=============================================================================
