------------------------------ MODULE Economics ------------------------------
(***************************************************************************)
(* The arithmetic of an epoch (packages/physics/src): receipts grouped by  *)
(* host and CID, the cap on what a pool pays in an epoch, its split among  *)
(* the hosts, the egress royalty and the auto-bid.  Pure operators.        *)
(*                                                                         *)
(* A receipt is a record [hash, epoch, host, cid, client, price], where    *)
(* cid is asset_root ?? file_root.  The percentages are whole numbers, and *)
(* floating-point products are computed exactly: caps in 1/100 sat.        *)
(***************************************************************************)
EXTENDS Totals

CONSTANTS
  EPOCH_REWARD_PCT,        \* of a pool paid per epoch, at most
  EPOCH_REWARD_BASE_SATS,  \* unit of the logarithmic cap
  AGGREGATOR_FEE_PCT,      \* of the cap
  EGRESS_ROYALTY_PCT,      \* of the proven egress
  AUTO_BID_PCT,            \* of the proven egress
  PIN_CANCEL_FEE_PCT       \* of what remains of a pin's budget

ASSUME EconomicsAssumption ==
  /\ {EPOCH_REWARD_PCT, AGGREGATOR_FEE_PCT, EGRESS_ROYALTY_PCT, AUTO_BID_PCT,
      PIN_CANCEL_FEE_PCT} \subseteq 0..100
  /\ EPOCH_REWARD_BASE_SATS \in Nat \ {0}

Percent(pct, amount) == (pct * amount) \div 100

Smaller(a, b) == IF a < b THEN a ELSE b

\* The logarithm to base 2 of a positive number, rounded down.
Lg(n) == Cardinality({k \in 1..n : 2^k <= n})

-------------------------------------------------------------------------------
(* Aggregation (epoch-aggregation.ts).                                     *)

Groups(batch) == {[host |-> r.host, cid |-> r.cid] : r \in batch}

GroupReceipts(batch, g) == {r \in batch : r.host = g.host /\ r.cid = g.cid}

ProvenSats(batch) == Total([r \in batch |-> r.price])

UniqueClients(batch) == Cardinality({r.client : r \in batch})

\* A group has at least RECEIPT_MIN_COUNT = 1 receipt by construction.
IsPayoutEligible(batch, g) == ProvenSats(GroupReceipts(batch, g)) > 0

EligibleGroups(batch) == {g \in Groups(batch) : IsPayoutEligible(batch, g)}

EligibleCids(batch) == {g.cid : g \in EligibleGroups(batch)}

EligibleHosts(batch, c) == {g.host : g \in {x \in EligibleGroups(batch) : x.cid = c}}

\* 1 + log2 of the number of clients: exact when that is a power of two.
PayoutWeight(batch) == ProvenSats(batch) * (1 + Lg(UniqueClients(batch)))

-------------------------------------------------------------------------------
(* Rewards (reward.ts).                                                    *)

\* cidEpochCap, in hundredths of a sat.
CidEpochCap(bounty) ==
  Smaller(EPOCH_REWARD_PCT * bounty,
          100 * EPOCH_REWARD_BASE_SATS
            * (1 + Lg((bounty + EPOCH_REWARD_BASE_SATS) \div EPOCH_REWARD_BASE_SATS)))

\* computeHostScore in hundredths, W_UPTIME = 0.6 and W_DIVERSITY = 0.4,
\* from an uptime ratio in tenths and a diversity contribution of 1.
HostScore(batch, uptime) == PayoutWeight(batch) * (6 * uptime + 40)

\* The scores of the eligible hosts of c, given the uptime of each host.
Scores(batch, c, uptime) ==
  [h \in EligibleHosts(batch, c) |->
     HostScore(GroupReceipts(batch, [host |-> h, cid |-> c]), uptime[h])]

\* Fault: the egress royalty is taken from each reward.
RewardsLessRoyalty(bounty, batch, c, uptime) ==
  LET scores == Scores(batch, c, uptime)
      total == Total(scores)
      payable == CidEpochCap(bounty) * (100 - AGGREGATOR_FEE_PCT)
  IN  [h \in DOMAIN scores |->
         (payable * scores[h]) \div (10000 * total)
         - Percent(EGRESS_ROYALTY_PCT,
                   ProvenSats(GroupReceipts(batch, [host |-> h, cid |-> c])))]

\* distributeRewards for the eligible hosts of c.
Rewards(bounty, batch, c, uptime) ==
  LET scores == Scores(batch, c, uptime)
      total == Total(scores)
      payable == CidEpochCap(bounty) * (100 - AGGREGATOR_FEE_PCT)
  IN  [h \in DOMAIN scores |->
         IF total <= 0 THEN 0 ELSE (payable * scores[h]) \div (10000 * total)]

AggregatorFee(bounty) == (CidEpochCap(bounty) * AGGREGATOR_FEE_PCT) \div 10000

-------------------------------------------------------------------------------
(* What settlement takes from a pool, and what it puts back.               *)

\* computeEgressRoyalty of the proven egress of the eligible hosts of c.  The
\* receipts of ineligible groups have price 0.
EgressRoyalty(batch, c) ==
  Percent(EGRESS_ROYALTY_PCT, ProvenSats({r \in batch : r.cid = c}))

TotalDrain(bounty, batch, c, rewards) ==
  Total(rewards) + AggregatorFee(bounty) + EgressRoyalty(batch, c)

\* computeEpochAutoBids (auto-bid.ts), for one CID.
AutoBid(batch, c) ==
  Percent(AUTO_BID_PCT, ProvenSats({r \in batch : r.cid = c}))

AutoBidCids(batch) == {c \in {r.cid : r \in batch} : AutoBid(batch, c) > 0}

PinCancelFee(remaining) == Percent(PIN_CANCEL_FEE_PCT, remaining)

===============================================================================
