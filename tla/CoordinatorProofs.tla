-------------------------- MODULE CoordinatorProofs --------------------------
(***************************************************************************)
(* The coordinator uses the bounty pools only as the general caller of     *)
(* BountyPool does, for every number of slots, keys, receipts and pins, so *)
(* what BountyPoolProofs proves of PoolSpec holds of the coordinator.      *)
(* Then what its settlement, its tips and its pins keep: the types, one    *)
(* summary an epoch, bounded charges, credits before the log, pins that    *)
(* ended for good and, with one request after the other, the duration of a *)
(* pin and the books of an epoch, by a refinement of EpochBooks.           *)
(***************************************************************************)
EXTENDS Coordinator, BountyPoolProofs, TotalsProofs

-------------------------------------------------------------------------------
(* Tips, receipts and pins.                                                *)

LEMMA RequestTip ==
  ASSUME IInv, NEW p \in Slot, NEW t \in Tip, ReceiveTip(p, t)
  PROVE  StepOK
  <1>1. t.key \in PoolKey /\ t.amount \in Amount
    BY CoordinatorAssumption
  <1>2. call[p] = NoCall
    BY FreeSlot DEF ReceiveTip
  <1> DEFINE h == [pc |-> "tip"]
  <1>3. "pc" \in DOMAIN h /\ h.pc \in AwaitsPool
    BY DEF AwaitsPool
  <1>4. Await(p, h, TipCall(t.key, t.amount)) /\ PoolUnchanged
    BY DEF ReceiveTip
  <1> HIDE DEF h
  <1>5. QED
    BY <1>1, <1>2, <1>3, <1>4, StepOnCall

LEMMA RequestReceipt ==
  ASSUME IInv, NEW p \in Slot, NEW r, ReceiveReceipt(p, r)
  PROVE  StepOK
  <1> DEFINE h == [pc |-> "receipt", receipt |-> r]
  <1>1. "pc" \in DOMAIN h
    OBVIOUS
  <1>2. Await(p, h, NoCall) /\ PoolUnchanged
    BY DEF ReceiveReceipt
  <1> HIDE DEF h
  <1>3. QED
    BY <1>1, <1>2, StepOnNothing

LEMMA RequestPin ==
  ASSUME IInv, NEW p \in Slot, NEW i \in Pin, CreatePin(p, i)
  PROVE  StepOK
  <1>1. PinCid[i] \in PoolKey /\ PinBudget[i] \in Amount
    BY PinAssumption
  <1>2. call[p] = NoCall
    BY FreeSlot DEF CreatePin
  <1> DEFINE h == [pc |-> "pinCredit", pin |-> i]
  <1>3. "pc" \in DOMAIN h /\ h.pc \in AwaitsPool
    BY DEF AwaitsPool
  <1>4. Await(p, h, DirectCall(PinCid[i], PinBudget[i])) /\ PoolUnchanged
    BY DEF CreatePin
  <1> HIDE DEF h
  <1>5. QED
    BY <1>1, <1>2, <1>3, <1>4, StepOnCall

LEMMA RequestCancel ==
  ASSUME IInv, NEW p \in Slot, NEW i \in Pin, ReadPin(p, i)
  PROVE  StepOK
  <1> DEFINE refund == pins[i].remaining - PinCancelFee(pins[i].remaining)
             h == [pc |-> "cancel", pin |-> i, refund |-> refund]
  <1>1. PinCid[i] \in PoolKey
    BY PinAssumption
  <1>2. call[p] = NoCall
    BY FreeSlot DEF ReadPin
  <1>3. "pc" \in DOMAIN h /\ h.pc \in AwaitsPool
    BY DEF AwaitsPool
  <1>4. /\ refund \in Amount
        /\ Await(p, h, IF refund > 0 THEN DebitCall(PinCid[i], refund) ELSE NoCall)
        /\ PoolUnchanged
    BY DEF ReadPin
  <1> HIDE DEF h, refund
  <1>5. QED
    BY <1>1, <1>2, <1>3, <1>4, StepOnCall, StepOnNothing

LEMMA ContinueCancel ==
  ASSUME IInv, NEW p \in Slot, CancelPin(p)
  PROVE  StepOK
  <1> DEFINE h == [task[p] EXCEPT !.pc = "cancelLog"]
  <1>1. "pc" \in DOMAIN h
    BY DEF IInv, TasksOK, HandlerOK
  <1>2. Await(p, h, NoCall) /\ PoolUnchanged
    BY DEF CancelPin
  <1> HIDE DEF h
  <1>3. QED
    BY <1>1, <1>2, StepOnNothing

LEMMA ContinuePin ==
  ASSUME IInv, NEW p \in Slot, PinStep(p)
  PROVE  StepOK
  <1>1. CASE AppendPinCreate(p) \/ AppendPinCancel(p)
    BY <1>1, StepReply DEF AppendPinCreate, AppendPinCancel
  <1>2. CASE CancelPin(p)
    BY <1>2, ContinueCancel
  <1>3. CASE ListActivePins(p) \/ \E i \in Pin : DrainPin(p, i)
    BY <1>3, StepElsewhere DEF ListActivePins, DrainPin
  <1>4. QED
    BY <1>1, <1>2, <1>3 DEF PinStep

-------------------------------------------------------------------------------
(* Settlement.                                                             *)

LEMMA RequestSettle ==
  ASSUME IInv, NEW p \in Slot, NEW e, StartSettle(p, e)
  PROVE  StepOK
  <1> DEFINE h == SettleTask("fetch", e, {}, {}, {}, <<>>, NothingLogged)
  <1>1. "pc" \in DOMAIN h
    BY DEF SettleTask
  <1>2. Await(p, h, NoCall) /\ PoolUnchanged
    BY DEF StartSettle
  <1> HIDE DEF h
  <1>3. QED
    BY <1>1, <1>2, StepOnNothing

LEMMA ContinueFetch ==
  ASSUME IInv, NEW p \in Slot, FetchReceipts(p)
  PROVE  StepOK
  <1> DEFINE e == task[p].epoch
             batch == {r \in receipts : r.epoch = e}
             h == SettleTask("cids", e, batch, EligibleCids(batch), AutoBidCids(batch),
                             IneligibleRows(e, batch), NothingLogged)
  <1>1. "pc" \in DOMAIN h
    BY DEF SettleTask
  <1>2. Reply(p) \/ Await(p, h, NoCall)
    BY DEF FetchReceipts
  <1>3. PoolUnchanged
    BY DEF FetchReceipts
  <1> HIDE DEF h
  <1>4. QED
    BY <1>1, <1>2, <1>3, StepReply, StepOnNothing

\* The steps between CIDs that issue no pool call.
LEMMA ContinueCids ==
  ASSUME IInv, NEW p \in Slot,
         \/ \E c \in PoolKey : SkipCid(p, c)
         \/ StartSweep(p) \/ EndAutoBid(p) \/ PersistSummary(p) \/ AppendSummary(p)
  PROVE  StepOK
  <1>1. "pc" \in DOMAIN task[p]
    BY DEF IInv, TasksOK, HandlerOK
  <1>2. ASSUME NEW c \in PoolKey, SkipCid(p, c)
        PROVE  StepOK
    <2> DEFINE t == task[p]
               nothing == [h \in EligibleHosts(t.batch, c) |-> 0]
               next == [t EXCEPT !.cids = @ \ {c},
                                 !.rows = @ \o CidRows(t.epoch, c, nothing)]
    <2>1. "pc" \in DOMAIN next
      BY <1>1
    <2>2. Await(p, next, NoCall) /\ PoolUnchanged
      BY <1>2 DEF SkipCid
    <2> HIDE DEF next
    <2>3. QED
      BY <2>1, <2>2, StepOnNothing
  <1>3. CASE StartSweep(p)
    <2> DEFINE next == [task[p] EXCEPT !.pc = "cids"]
    <2>1. "pc" \in DOMAIN next
      BY <1>1
    <2>2. Await(p, next, NoCall) /\ PoolUnchanged
      BY <1>3 DEF StartSweep
    <2> HIDE DEF next
    <2>3. QED
      BY <2>1, <2>2, StepOnNothing
  <1>4. CASE EndAutoBid(p)
    <2> DEFINE next == [task[p] EXCEPT !.pc = "cids",
                                       !.logged.credits = @ + ReturnedCredit(p)]
    <2>1. "pc" \in DOMAIN next
      BY <1>1
    <2>2. Await(p, next, NoCall) /\ PoolUnchanged
      BY <1>4 DEF EndAutoBid
    <2> HIDE DEF next
    <2>3. QED
      BY <2>1, <2>2, StepOnNothing
  <1>5. CASE PersistSummary(p)
    <2> DEFINE next == [task[p] EXCEPT !.rows = Tail(@)]
    <2>1. "pc" \in DOMAIN next
      BY <1>1
    <2>2. (Reply(p) \/ Await(p, next, NoCall)) /\ PoolUnchanged
      BY <1>5 DEF PersistSummary
    <2> HIDE DEF next
    <2>3. QED
      BY <2>1, <2>2, StepReply, StepOnNothing
  <1>6. CASE AppendSummary(p)
    BY <1>6, StepReply DEF AppendSummary
  <1>7. QED
    BY <1>2, <1>3, <1>4, <1>5, <1>6

LEMMA ContinuePay ==
  ASSUME IInv, NEW p \in Slot, NEW c \in PoolKey, NEW uptime, PayCid(p, c, uptime)
  PROVE  StepOK
  <1> DEFINE t == task[p]
             rewards == Rewards(balance[c], t.batch, c, uptime)
             drain == TotalDrain(balance[c], t.batch, c, rewards)
             actualDrain == Smaller(drain, balance[c])
             owed == [t EXCEPT !.cids = @ \ {c},
                               !.rows = @ \o CidRows(t.epoch, c, rewards),
                               !.logged.debits = @ + drain]
             next == [owed EXCEPT !.pc = "debit"]
  <1>1. "pc" \in DOMAIN owed
    BY DEF IInv, TasksOK, HandlerOK
  <1>2. /\ call[p] = NoCall
        /\ \/ Await(p, owed, NoCall)
           \/ actualDrain \in Amount /\ Await(p, next, DebitCall(c, actualDrain))
        /\ PoolUnchanged
    BY DEF PayCid, BetweenCids
  <1> HIDE DEF owed, actualDrain
  <1>3. "pc" \in DOMAIN next /\ next.pc \in AwaitsPool
    BY <1>1 DEF AwaitsPool
  <1> HIDE DEF next
  <1>4. QED
    BY <1>1, <1>2, <1>3, StepOnNothing, StepOnCall

LEMMA ContinueBid ==
  ASSUME IInv, NEW p \in Slot, NEW c \in PoolKey, StartAutoBid(p, c)
  PROVE  StepOK
  <1> DEFINE amount == AutoBid(task[p].batch, c)
             next == [task[p] EXCEPT !.pc = "bid", !.bids = @ \ {c}]
  <1>1. "pc" \in DOMAIN next /\ next.pc \in AwaitsPool
    BY DEF IInv, TasksOK, HandlerOK, AwaitsPool
  <1>2. /\ call[p] = NoCall
        /\ amount \in Amount /\ Await(p, next, TipCall(c, amount))
        /\ PoolUnchanged
    BY DEF StartAutoBid, BetweenCids
  <1> HIDE DEF next, amount
  <1>3. QED
    BY <1>1, <1>2, StepOnCall

LEMMA ContinueSettle ==
  ASSUME IInv, NEW p \in Slot, SettleStep(p)
  PROVE  StepOK
  <1>1. CASE RunPoolCall(p)
    BY <1>1, StepPoolCall DEF RunPoolCall, pinVars
  <1>2. QED
    BY <1>1, ContinueFetch, ContinueCids, ContinuePay, ContinueBid DEF SettleStep

-------------------------------------------------------------------------------
(* All steps.                                                              *)

LEMMA InvInit == Init => IInv
  <1> SUFFICES ASSUME Init
               PROVE  PoolTypeOK /\ TasksOK
    BY DEF IInv
  <1>1. PoolTypeOK
    BY PoolTypeInit DEF Init
  <1>2. task = [p \in Slot |-> Idle] /\ call = [p \in Slot |-> NoCall]
    BY DEF Init, PoolInit, PinInit
  <1>3. QED
    BY <1>1, <1>2, IdleHandler DEF TasksOK

LEMMA NextStep ==
  ASSUME IInv, [Next]_vars
  PROVE  StepOK
  <1>1. ASSUME NEW p \in Slot, Request(p)
        PROVE  StepOK
    BY <1>1, RequestTip, RequestReceipt, RequestPin, RequestCancel, RequestSettle
       DEF Request
  <1>2. ASSUME NEW p \in Slot, Continue(p)
        PROVE  StepOK
    <2>1. CASE AppendTip(p)
      BY <2>1, StepReply DEF AppendTip
    <2>2. CASE StoreReceipt(p)
      BY <2>2, StepReply DEF StoreReceipt
    <2>3. QED
      BY <1>2, <2>1, <2>2, ContinuePin, ContinueSettle DEF Continue
  <1>3. ASSUME NEW p \in Slot, Abort(p)
        PROVE  StepOK
    BY <1>3, StepReply DEF Abort
  <1>4. CASE Tick
    BY <1>4, StepElsewhere DEF Tick, pinVars
  <1>5. CASE Quiet \/ UNCHANGED vars
    BY <1>5, StepElsewhere DEF Quiet, vars, pinVars
  <1>6. QED
    BY <1>1, <1>2, <1>3, <1>4, <1>5 DEF Next

LEMMA InvStep == IInv /\ [Next]_vars => IInv'
  BY NextStep, PoolTypeStep DEF IInv, StepOK

\* The invariant, and that every step is a step of the pools or a stutter.
THEOREM Refinement == Spec => PoolsAsSpecified
  <1>1. Spec => []IInv
    BY InvInit, InvStep, PTL DEF Spec
  <1>2. IInv /\ [Next]_vars => [PoolNext]_poolVars
    BY NextStep DEF StepOK
  <1>3. Init => PoolInit
    BY DEF Init
  <1>4. QED
    BY <1>1, <1>2, <1>3, PTL DEF Spec, PoolsAsSpecified, PoolSpec

-------------------------------------------------------------------------------
(* What the coordinator inherits from the pools.                           *)

\* No handler loses an update of a balance.
THEOREM CoordinatorLedger == Spec => []PoolLedger
  BY Refinement, LedgerCorrect DEF PoolsAsSpecified

\* Serving one request at a time, the coordinator never overdraws a pool.
THEOREM CoordinatorNoOverdraft ==
  ASSUME \A p, q \in Slot : p = q
  PROVE  Spec => []NoOverdraft
  BY Refinement, SequentialNoOverdraft DEF PoolsAsSpecified

\* Serving them together, it overdraws one only by an overtaken debit.
THEOREM CoordinatorOverdraft == Spec => OverdraftNeedsRace
  BY Refinement, OverdraftCorrect DEF PoolsAsSpecified

\* Whatever handlers tip meanwhile, a stale volume never favours the tipper.
THEOREM CoordinatorRoyalty == Spec => StaleVolumeFavoursFounder
  BY Refinement, RoyaltyCorrect DEF PoolsAsSpecified

-------------------------------------------------------------------------------
(* The arithmetic of an epoch, and the rows of a settlement.               *)

LEMMA TimesNat == \A a, b \in Nat : a * b \in Nat
  OBVIOUS

LEMMA DivNat == \A a \in Nat, b \in Nat \ {0} : a \div b \in Nat
  OBVIOUS

LEMMA LgType == \A n \in Int : Lg(n) \in Nat
  <1> SUFFICES ASSUME NEW n \in Int
               PROVE  Lg(n) \in Nat
    OBVIOUS
  <1> DEFINE S == {k \in 1..n : 2^k <= n}
  <1>1. IsFiniteSet(1..n) /\ S \in SUBSET (1..n)
    BY FS_Interval
  <1> HIDE DEF S
  <1>2. IsFiniteSet(S)
    BY <1>1, FS_Subset
  <1>3. Cardinality(S) \in Nat
    BY <1>2, FS_CardinalityType
  <1>4. QED
    BY <1>3 DEF Lg, S

\* What is known of a set of receipts.
LEMMA BatchType ==
  ASSUME NEW batch \in SUBSET Receipt
  PROVE  /\ IsFiniteSet(batch)
         /\ \A r \in batch : r.price \in Nat /\ r.cid \in PoolKey /\ r.host \in Host
         /\ ProvenSats(batch) \in Nat
         /\ UniqueClients(batch) \in Nat
  <1>1. IsFiniteSet(batch)
    BY FS_Subset, ReceiptAssumption
  <1>2. \A r \in batch : r.price \in Nat /\ r.cid \in PoolKey /\ r.host \in Host
    BY ReceiptAssumption DEF Host
  <1>3. ProvenSats(batch) \in Nat
    <2> DEFINE f == [r \in batch |-> r.price]
    <2>1. f \in [batch -> Nat]
      BY <1>2
    <2> HIDE DEF f
    <2>2. Total(f) \in Nat
      BY <1>1, <2>1, TotalNat
    <2>3. QED
      BY <2>2 DEF ProvenSats, f
  <1>4. UniqueClients(batch) \in Nat
    <2> DEFINE C == {r.client : r \in batch}
    <2>1. IsFiniteSet(C)
      <3> DEFINE f == [r \in batch |-> r.client]
      <3>1. f = [r \in batch |-> f[r]] /\ {f[r] : r \in batch} = C
        OBVIOUS
      <3> HIDE DEF f, C
      <3>2. QED
        BY <1>1, <3>1, ImageFinite
    <2> HIDE DEF C
    <2>2. Cardinality(C) \in Nat
      BY <2>1, FS_CardinalityType
    <2>3. QED
      BY <2>2 DEF UniqueClients, C
  <1>5. QED
    BY <1>1, <1>2, <1>3, <1>4

LEMMA GroupTypes ==
  ASSUME NEW batch \in SUBSET Receipt
  PROVE  /\ IsFiniteSet(Groups(batch))
         /\ Groups(batch) \subseteq [host : Host, cid : PoolKey]
         /\ EligibleGroups(batch) \subseteq Groups(batch)
         /\ EligibleCids(batch) \subseteq PoolKey
         /\ AutoBidCids(batch) \subseteq PoolKey
         /\ \A c : IsFiniteSet(EligibleHosts(batch, c)) /\ EligibleHosts(batch, c) \subseteq Host
  <1>1. IsFiniteSet(batch)
    BY BatchType
  <1>2. IsFiniteSet(Groups(batch))
    <2> DEFINE f == [r \in batch |-> [host |-> r.host, cid |-> r.cid]]
    <2>1. f = [r \in batch |-> f[r]] /\ {f[r] : r \in batch} = Groups(batch)
      BY DEF Groups
    <2> HIDE DEF f
    <2>2. QED
      BY <1>1, <2>1, ImageFinite
  <1>3. Groups(batch) \subseteq [host : Host, cid : PoolKey]
    BY BatchType DEF Groups
  <1>4. EligibleGroups(batch) \subseteq Groups(batch)
    BY DEF EligibleGroups
  <1>5. EligibleCids(batch) \subseteq PoolKey
    BY <1>3, <1>4 DEF EligibleCids
  <1>6. AutoBidCids(batch) \subseteq PoolKey
    BY BatchType DEF AutoBidCids
  <1>7. ASSUME NEW c
        PROVE  IsFiniteSet(EligibleHosts(batch, c)) /\ EligibleHosts(batch, c) \subseteq Host
    <2> DEFINE G == {x \in EligibleGroups(batch) : x.cid = c}
    <2>1. IsFiniteSet(G)
      BY <1>2, <1>4, FS_Subset
    <2>2. IsFiniteSet({g.host : g \in G})
      <3> DEFINE f == [g \in G |-> g.host]
      <3>1. f = [g \in G |-> f[g]] /\ {f[g] : g \in G} = {g.host : g \in G}
        OBVIOUS
      <3> HIDE DEF f, G
      <3>2. QED
        BY <2>1, <3>1, ImageFinite
    <2>3. QED
      BY <1>3, <1>4, <2>2 DEF EligibleHosts
  <1>8. QED
    BY <1>2, <1>3, <1>4, <1>5, <1>6, <1>7

LEMMA PercentType == \A pct \in Nat, amount \in Nat : Percent(pct, amount) \in Nat
  <1> SUFFICES ASSUME NEW pct \in Nat, NEW amount \in Nat
               PROVE  Percent(pct, amount) \in Nat
    OBVIOUS
  <1>1. pct * amount \in Nat
    BY TimesNat
  <1>2. QED
    BY <1>1, DivNat DEF Percent

LEMMA CapType == \A bounty \in Nat : CidEpochCap(bounty) \in Nat
  <1> SUFFICES ASSUME NEW bounty \in Nat
               PROVE  CidEpochCap(bounty) \in Nat
    OBVIOUS
  <1> DEFINE steps == Lg((bounty + EPOCH_REWARD_BASE_SATS) \div EPOCH_REWARD_BASE_SATS)
  <1>1. EPOCH_REWARD_PCT \in Nat /\ EPOCH_REWARD_BASE_SATS \in Nat \ {0}
    BY EconomicsAssumption
  <1>2. steps \in Nat
    BY <1>1, DivNat, LgType
  <1>3. EPOCH_REWARD_PCT * bounty \in Nat
    BY <1>1, TimesNat
  <1> HIDE DEF steps
  <1>4. 100 * EPOCH_REWARD_BASE_SATS * (1 + steps) \in Nat
    BY <1>1, <1>2, TimesNat
  <1>5. QED
    BY <1>3, <1>4 DEF CidEpochCap, Smaller, steps

LEMMA UptimeType == \A u \in Uptime : u \in Nat
  <1>1. Uptime \subseteq 0..10
    BY ReceiptAssumption
  <1>2. QED
    BY <1>1

LEMMA ScoresType ==
  ASSUME NEW batch \in SUBSET Receipt, NEW c, NEW uptime \in [Host -> Uptime]
  PROVE  Scores(batch, c, uptime) \in [EligibleHosts(batch, c) -> Nat]
  <1>1. ASSUME NEW h \in EligibleHosts(batch, c)
        PROVE  HostScore(GroupReceipts(batch, [host |-> h, cid |-> c]), uptime[h]) \in Nat
    <2> DEFINE B == GroupReceipts(batch, [host |-> h, cid |-> c])
    <2>1. B \in SUBSET Receipt
      BY DEF GroupReceipts
    <2>2. uptime[h] \in Nat
      <3>1. h \in Host
        BY GroupTypes
      <3>2. uptime[h] \in Uptime
        BY <3>1
      <3>3. QED
        BY <3>2, UptimeType
    <2> HIDE DEF B
    <2>3. ProvenSats(B) \in Nat /\ Lg(UniqueClients(B)) \in Nat
      BY <2>1, BatchType, LgType
    <2>4. PayoutWeight(B) \in Nat
      BY <2>3, TimesNat DEF PayoutWeight
    <2>5. 6 * uptime[h] + 40 \in Nat
      BY <2>2
    <2>6. HostScore(B, uptime[h]) \in Nat
      BY <2>4, <2>5, TimesNat DEF HostScore
    <2>7. QED
      BY <2>6 DEF B
  <1>2. QED
    BY <1>1 DEF Scores

LEMMA RewardsType ==
  ASSUME NEW bounty \in Nat, NEW batch \in SUBSET Receipt, NEW c,
         NEW uptime \in [Host -> Uptime]
  PROVE  Rewards(bounty, batch, c, uptime) \in [EligibleHosts(batch, c) -> Nat]
  <1> DEFINE H == EligibleHosts(batch, c)
             scores == Scores(batch, c, uptime)
             total == Total(scores)
             payable == CidEpochCap(bounty) * (100 - AGGREGATOR_FEE_PCT)
  <1>1. scores \in [H -> Nat] /\ IsFiniteSet(H)
    BY ScoresType, GroupTypes
  <1>2. payable \in Nat
    <2>1. 100 - AGGREGATOR_FEE_PCT \in Nat
      BY EconomicsAssumption
    <2>2. QED
      BY <2>1, CapType, TimesNat
  <1>3. Rewards(bounty, batch, c, uptime)
          = [h \in DOMAIN scores |->
               IF total <= 0 THEN 0 ELSE (payable * scores[h]) \div (10000 * total)]
    BY DEF Rewards
  <1> HIDE DEF H, scores, payable
  <1>4. total \in Nat
    BY <1>1, TotalNat
  <1> HIDE DEF total
  <1>5. ASSUME NEW h \in H
        PROVE  (IF total <= 0 THEN 0 ELSE (payable * scores[h]) \div (10000 * total)) \in Nat
    <2>1. payable * scores[h] \in Nat
      BY <1>1, <1>2, TimesNat
    <2>2. total > 0 => 10000 * total \in Nat \ {0}
      BY <1>4
    <2>3. QED
      BY <1>4, <2>1, <2>2, DivNat
  <1>6. DOMAIN scores = H
    BY <1>1
  <1>7. QED
    BY <1>3, <1>5, <1>6 DEF H

LEMMA FeesType ==
  ASSUME NEW bounty \in Nat, NEW batch \in SUBSET Receipt, NEW c
  PROVE  AggregatorFee(bounty) \in Nat /\ EgressRoyalty(batch, c) \in Nat
  <1>1. AggregatorFee(bounty) \in Nat
    <2>1. CidEpochCap(bounty) * AGGREGATOR_FEE_PCT \in Nat
      BY CapType, EconomicsAssumption, TimesNat
    <2>2. QED
      BY <2>1, DivNat DEF AggregatorFee
  <1>2. EgressRoyalty(batch, c) \in Nat
    <2> DEFINE B == {r \in batch : r.cid = c}
    <2>1. ProvenSats(B) \in Nat
      BY BatchType
    <2> HIDE DEF B
    <2>2. EGRESS_ROYALTY_PCT \in Nat
      BY EconomicsAssumption
    <2>3. Percent(EGRESS_ROYALTY_PCT, ProvenSats(B)) \in Nat
      BY <2>1, <2>2, PercentType
    <2>4. QED
      BY <2>3 DEF EgressRoyalty, B
  <1>3. QED
    BY <1>1, <1>2

LEMMA DrainType ==
  ASSUME NEW bounty \in Nat, NEW batch \in SUBSET Receipt, NEW c,
         NEW uptime \in [Host -> Uptime]
  PROVE  TotalDrain(bounty, batch, c, Rewards(bounty, batch, c, uptime)) \in Nat
  <1>1. Total(Rewards(bounty, batch, c, uptime)) \in Nat
    BY RewardsType, GroupTypes, TotalNat
  <1>2. AggregatorFee(bounty) \in Nat /\ EgressRoyalty(batch, c) \in Nat
    BY FeesType
  <1>3. QED
    BY <1>1, <1>2 DEF TotalDrain

\* SetToSeq lists each element of a finite set once.
LEMMA SetToSeqLists ==
  ASSUME NEW S, IsFiniteSet(S)
  PROVE  /\ SetToSeq(S) \in [1..Cardinality(S) -> S]
         /\ Cardinality(S) \in Nat
         /\ Len(SetToSeq(S)) = Cardinality(S)
         /\ \A x \in S : \E n \in 1..Cardinality(S) : SetToSeq(S)[n] = x
  <1> DEFINE D == 1..Cardinality(S)
             s == SetToSeq(S)
  <1>1. Cardinality(S) \in Nat /\ ExistsBijection(D, S)
    BY FS_CardinalityType
  <1>2. PICK b \in [D -> S] : IsInjective(b)
    BY <1>1 DEF ExistsBijection, Bijection, Injection, IsInjective
  <1>3. s \in [D -> S] /\ IsInjective(s)
    BY <1>2 DEF SetToSeq
  <1>4. IsFiniteSet(D) /\ Cardinality(D) = Cardinality(S)
    BY <1>1, FS_Interval
  <1>5. s \in Injection(D, S)
    BY <1>3 DEF Injection, IsInjective
  <1> HIDE DEF s
  <1>6. s \in Surjection(D, S)
    <2> HIDE DEF D
    <2>1. QED
      BY <1>4, <1>5, FS_Injection
  <1>7. Len(s) = Cardinality(S)
    BY <1>1, <1>3
  <1>8. \A x \in S : \E n \in D : s[n] = x
    BY <1>6 DEF Surjection
  <1>9. QED
    BY <1>1, <1>3, <1>7, <1>8 DEF s

RowType == [epoch : Epoch, host : Host, cid : PoolKey, reward : Nat]

Key(row) == [host |-> row.host, cid |-> row.cid]

Keys(rows) == {Key(rows[n]) : n \in 1..Len(rows)}

LEMMA KeysJoin ==
  ASSUME NEW T, NEW a \in Seq(T), NEW b \in Seq(T)
  PROVE  Keys(a \o b) = Keys(a) \cup Keys(b)
  <1> DEFINE ab == a \o b
  <1>1. /\ Len(a) \in Nat /\ Len(b) \in Nat /\ Len(ab) = Len(a) + Len(b)
        /\ \A n \in 1..Len(a) : ab[n] = a[n]
        /\ \A n \in 1..Len(b) : ab[Len(a) + n] = b[n]
        /\ \A n \in 1..Len(ab) : n > Len(a) => n - Len(a) \in 1..Len(b) /\ ab[n] = b[n - Len(a)]
    OBVIOUS
  <1> HIDE DEF ab
  <1>2. Keys(ab) \subseteq Keys(a) \cup Keys(b)
    <2> SUFFICES ASSUME NEW n \in 1..Len(ab)
                 PROVE  Key(ab[n]) \in Keys(a) \cup Keys(b)
      BY DEF Keys
    <2>1. n \in 1..Len(a) \/ n > Len(a)
      BY <1>1
    <2>2. QED
      BY <1>1, <2>1 DEF Keys
  <1>3. Keys(a) \subseteq Keys(ab)
    <2> SUFFICES ASSUME NEW n \in 1..Len(a)
                 PROVE  Key(a[n]) \in Keys(ab)
      BY DEF Keys
    <2>1. n \in 1..Len(ab) /\ ab[n] = a[n]
      BY <1>1
    <2>2. QED
      BY <2>1 DEF Keys
  <1>4. Keys(b) \subseteq Keys(ab)
    <2> SUFFICES ASSUME NEW n \in 1..Len(b)
                 PROVE  Key(b[n]) \in Keys(ab)
      BY DEF Keys
    <2>1. Len(a) + n \in 1..Len(ab) /\ ab[Len(a) + n] = b[n]
      BY <1>1
    <2>2. QED
      BY <2>1 DEF Keys
  <1>5. QED
    BY <1>2, <1>3, <1>4 DEF ab

LEMMA KeysTail ==
  ASSUME NEW T, NEW rows \in Seq(T), rows # <<>>
  PROVE  /\ Head(rows) \in T /\ Tail(rows) \in Seq(T)
         /\ \E n \in 1..Len(rows) : rows[n] = Head(rows)
         /\ \A n \in 1..Len(Tail(rows)) : \E m \in 1..Len(rows) : Tail(rows)[n] = rows[m]
         /\ Keys(rows) = {Key(Head(rows))} \cup Keys(Tail(rows))
  <1> DEFINE tail == Tail(rows)
  <1>1. /\ Len(rows) \in Nat \ {0} /\ rows[1] = Head(rows) /\ Head(rows) \in T
        /\ tail \in Seq(T) /\ Len(tail) = Len(rows) - 1
        /\ \A n \in 1..Len(tail) : n + 1 \in 1..Len(rows) /\ tail[n] = rows[n + 1]
        /\ \A n \in 2..Len(rows) : n - 1 \in 1..Len(tail) /\ tail[n - 1] = rows[n]
    OBVIOUS
  <1> HIDE DEF tail
  <1>2. Keys(rows) \subseteq {Key(Head(rows))} \cup Keys(tail)
    <2> SUFFICES ASSUME NEW n \in 1..Len(rows)
                 PROVE  Key(rows[n]) \in {Key(Head(rows))} \cup Keys(tail)
      BY DEF Keys
    <2>1. n = 1 \/ n \in 2..Len(rows)
      BY <1>1
    <2>2. QED
      BY <1>1, <2>1 DEF Keys
  <1>3. 1 \in 1..Len(rows)
    BY <1>1
  <1>4. Key(Head(rows)) \in Keys(rows)
    BY <1>1, <1>3 DEF Keys
  <1>5. Keys(tail) \subseteq Keys(rows)
    <2> SUFFICES ASSUME NEW n \in 1..Len(tail)
                 PROVE  Key(tail[n]) \in Keys(rows)
      BY DEF Keys
    <2>1. n + 1 \in 1..Len(rows) /\ tail[n] = rows[n + 1]
      BY <1>1
    <2>2. QED
      BY <2>1 DEF Keys
  <1>6. \A n \in 1..Len(tail) : \E m \in 1..Len(rows) : tail[n] = rows[m]
    BY <1>1
  <1>7. QED
    BY <1>1, <1>2, <1>3, <1>4, <1>5, <1>6 DEF tail

\* A list of rows of an epoch with the groups they are of.
Lists(rows, e, groups) ==
  /\ rows \in Seq(RowType)
  /\ \A n \in 1..Len(rows) : rows[n].epoch = e
  /\ Keys(rows) = groups

GroupsOf(batch, c) == {g \in EligibleGroups(batch) : g.cid = c}

LEMMA CidRowsList ==
  ASSUME NEW e \in Epoch, NEW c \in PoolKey, NEW batch \in SUBSET Receipt,
         NEW rewards \in [EligibleHosts(batch, c) -> Nat]
  PROVE  Lists(CidRows(e, c, rewards), e, GroupsOf(batch, c))
  <1> DEFINE H == EligibleHosts(batch, c)
             hosts == SetToSeq(H)
             rows == [n \in 1..Len(hosts) |->
                        Row(e, [host |-> hosts[n], cid |-> c], rewards[hosts[n]])]
             G == GroupsOf(batch, c)
  <1>1. IsFiniteSet(H) /\ H \subseteq Host /\ EligibleGroups(batch) \subseteq [host : Host, cid : PoolKey]
    BY GroupTypes
  <1>2. rows = CidRows(e, c, rewards)
    BY DEF CidRows
  <1>3. /\ Len(hosts) \in Nat /\ \A n \in 1..Len(hosts) : hosts[n] \in H
        /\ \A h \in H : \E n \in 1..Len(hosts) : hosts[n] = h
    <2> HIDE DEF H
    <2>1. QED
      BY <1>1, SetToSeqLists
  <1>4. \A h : h \in H <=> [host |-> h, cid |-> c] \in G
    <2>1. \A g \in EligibleGroups(batch) : g = [host |-> g.host, cid |-> g.cid]
      BY <1>1
    <2>2. QED
      BY <2>1 DEF EligibleHosts, GroupsOf
  <1>5. \A g \in G : g = [host |-> g.host, cid |-> c]
    BY <1>1 DEF GroupsOf
  <1> HIDE DEF H, hosts, G
  <1>6. \A n \in 1..Len(hosts) : /\ rows[n] \in RowType /\ rows[n].epoch = e
                                 /\ Key(rows[n]) = [host |-> hosts[n], cid |-> c]
    BY <1>1, <1>3 DEF Row, RowType, Key, H
  <1>7. rows \in Seq(RowType) /\ Len(rows) = Len(hosts)
    BY <1>3, <1>6
  <1> HIDE DEF rows
  <1>8. Keys(rows) \subseteq G
    <2> SUFFICES ASSUME NEW n \in 1..Len(hosts)
                 PROVE  Key(rows[n]) \in G
      BY <1>7 DEF Keys
    <2>1. hosts[n] \in H
      BY <1>3
    <2>2. QED
      BY <1>4, <1>6, <2>1
  <1>9. G \subseteq Keys(rows)
    <2> SUFFICES ASSUME NEW g \in G
                 PROVE  g \in Keys(rows)
      OBVIOUS
    <2>1. g = [host |-> g.host, cid |-> c] /\ g.host \in H
      BY <1>4, <1>5
    <2>2. PICK n \in 1..Len(hosts) : hosts[n] = g.host
      BY <1>3, <2>1
    <2>3. Key(rows[n]) = g
      BY <1>6, <2>1, <2>2
    <2>4. QED
      BY <1>7, <2>3 DEF Keys
  <1>10. QED
    BY <1>2, <1>6, <1>7, <1>8, <1>9 DEF Lists, G

LEMMA IneligibleRowsList ==
  ASSUME NEW e \in Epoch, NEW batch \in SUBSET Receipt
  PROVE  Lists(IneligibleRows(e, batch), e, Groups(batch) \ EligibleGroups(batch))
  <1> DEFINE G == Groups(batch) \ EligibleGroups(batch)
             groups == SetToSeq(G)
             rows == [n \in 1..Len(groups) |-> Row(e, groups[n], 0)]
  <1>1. IsFiniteSet(G) /\ G \subseteq [host : Host, cid : PoolKey]
    BY GroupTypes, FS_Difference
  <1>2. rows = IneligibleRows(e, batch)
    BY DEF IneligibleRows
  <1>3. /\ Len(groups) \in Nat /\ \A n \in 1..Len(groups) : groups[n] \in G
        /\ \A g \in G : \E n \in 1..Len(groups) : groups[n] = g
    <2> HIDE DEF G
    <2>1. QED
      BY <1>1, SetToSeqLists
  <1> HIDE DEF G, groups
  <1>4. \A n \in 1..Len(groups) : /\ rows[n] \in RowType /\ rows[n].epoch = e
                                  /\ Key(rows[n]) = groups[n]
    BY <1>1, <1>3 DEF Row, RowType, Key
  <1>5. rows \in Seq(RowType) /\ Len(rows) = Len(groups)
    BY <1>3, <1>4
  <1> HIDE DEF rows
  <1>6. Keys(rows) = G
    BY <1>3, <1>4, <1>5 DEF Keys
  <1>7. QED
    BY <1>2, <1>4, <1>5, <1>6 DEF Lists, G

-------------------------------------------------------------------------------
(* The types of the tables and of the handlers' local variables.           *)

Run ==
  [pc : {"fetch", "cids", "debit", "bid"}, epoch : Epoch, batch : SUBSET Receipt,
   cids : SUBSET PoolKey, bids : SUBSET PoolKey, rows : Seq(RowType),
   logged : [credits : Nat, debits : Nat]]

HandlerType ==
  {Idle} \cup [pc : {"tip"}] \cup [pc : {"receipt"}, receipt : Receipt]
    \cup [pc : {"pinCredit"}, pin : Pin]
    \cup [pc : {"cancel", "cancelLog"}, pin : Pin, refund : Nat] \cup Run

PinType ==
  [status : {"NONE", "ACTIVE", "EXHAUSTED", "CANCELLED"}, remaining : Nat]

SweepType ==
  [op : {"none", "list", "write"}, cid : PoolKey \cup {NoKey}, drain : Nat,
   left : SUBSET Pin, seen : [Pin -> Nat]]

SlotTypes ==
  /\ task \in [Slot -> HandlerType]
  /\ sweep \in [Slot -> SweepType]
  /\ \A p \in Slot, i \in Pin : sweep[p].seen[i] <= PinBudget[i]

TableTypes ==
  /\ pins \in [Pin -> PinType]
  /\ \A i \in Pin : pins[i].remaining <= PinBudget[i]
  /\ log \in [credits : Nat, debits : Nat, summaries : [Epoch -> Nat]]
  /\ now \in Epoch /\ receipts \subseteq Receipt /\ summaries \subseteq RowType
  /\ charges \in [Epoch -> [PoolKey -> [times : Nat, sats : Nat]]]
  /\ aborts \in Nat

\* A settlement that has fetched its receipts.
Batched(t) == t.pc \in {"cids", "debit", "bid"}

\* What a handler in state t, awaiting pool call c and sweep w, has done so far:
\* a sweep runs, and a debit is awaited, once there are rows of that CID.
Local(t, c, w) ==
  /\ w.op # "none" => t.pc = "cids" /\ t.rows # <<>>
  /\ t.pc = "debit" => /\ t.rows # <<>> /\ c.key \in PoolKey \ t.cids
                       /\ c.op \in {"check", "decrement", "done", "refused"}
  /\ t.pc \in {"tip", "bid"} => c.op \in {"volume", "credit", "done"}
  /\ t.pc = "pinCredit" => c.op \in {"direct", "done"} /\ c.amount = PinBudget[t.pin]
  /\ Batched(t) => /\ t.batch # {} /\ \A r \in t.batch : r.epoch = t.epoch
                   /\ t.cids \subseteq EligibleCids(t.batch)
                   /\ \A n \in 1..Len(t.rows) : t.rows[n].epoch = t.epoch

Locals ==
  /\ \A p \in Slot : Local(task[p], call[p], sweep[p])
  /\ \A p \in Slot : Batched(task[p]) => task[p].batch \subseteq receipts

TypeInv == IInv /\ SlotTypes /\ TableTypes /\ Locals

LEMMA BudgetType ==
  \A i \in Pin : PinBudget[i] \in Nat /\ PinCid[i] \in PoolKey /\ DrainRate(i) \in Nat
  <1> SUFFICES ASSUME NEW i \in Pin
               PROVE  PinBudget[i] \in Nat /\ PinCid[i] \in PoolKey /\ DrainRate(i) \in Nat
    OBVIOUS
  <1>1. PinBudget[i] \in Nat /\ PinCid[i] \in PoolKey /\ PinDuration[i] \in Nat \ {0}
    BY PinAssumption, AmountAssumption
  <1>2. QED
    BY <1>1, DivNat DEF DrainRate

LEMMA TypeInit == Init => TypeInv
  <1> SUFFICES ASSUME Init
               PROVE  SlotTypes /\ TableTypes /\ Locals
    BY InvInit DEF TypeInv
  <1>1. task = [p \in Slot |-> Idle] /\ sweep = [p \in Slot |-> NoSweep] /\ pins = [i \in Pin |-> [status |-> "NONE", remaining |-> 0]]
    BY DEF Init, PinInit
  <1>2. NoSweep \in SweepType /\ \A i \in Pin : NoSweep.seen[i] = 0
    BY DEF NoSweep, SweepType, NoBudget
  <1>3. \A i \in Pin : PinBudget[i] \in Nat
    BY PinAssumption, AmountAssumption
  <1>4. SlotTypes /\ TableTypes
    <2>1. task \in [Slot -> HandlerType]
      BY <1>1 DEF HandlerType
    <2>2. sweep \in [Slot -> SweepType] /\ \A p \in Slot, i \in Pin : sweep[p].seen[i] <= PinBudget[i]
      BY <1>1, <1>2, <1>3
    <2>3. pins \in [Pin -> PinType] /\ \A i \in Pin : pins[i].remaining <= PinBudget[i]
      BY <1>1, <1>3 DEF PinType
    <2>4. log \in [credits : Nat, debits : Nat, summaries : [Epoch -> Nat]]
      BY DEF Init, SettleInit
    <2>5. now \in Epoch /\ receipts \subseteq Receipt /\ summaries \subseteq RowType
      BY ReceiptAssumption DEF Init, SettleInit, Epoch
    <2>6. charges \in [Epoch -> [PoolKey -> [times : Nat, sats : Nat]]] /\ aborts \in Nat
      BY DEF Init, SettleInit
    <2>7. QED
      BY <2>1, <2>2, <2>3, <2>4, <2>5, <2>6 DEF SlotTypes, TableTypes
  <1>5. Locals
    BY <1>1 DEF Locals, Local, Batched, Idle, NoSweep
  <1>6. QED
    BY <1>4, <1>5

LEMMA RunTask ==
  ASSUME TypeInv, NEW p \in Slot, task[p].pc \in {"fetch", "cids", "debit", "bid"}
  PROVE  task[p] \in Run
  BY DEF TypeInv, SlotTypes, HandlerType, Idle

LEMMA PinTask ==
  ASSUME TypeInv, NEW p \in Slot
  PROVE  /\ task[p].pc = "pinCredit" => task[p].pin \in Pin
         /\ task[p].pc \in {"cancel", "cancelLog"}
              => task[p] \in [pc : {"cancel", "cancelLog"}, pin : Pin, refund : Nat]
         /\ task[p].pc = "receipt" => task[p].receipt \in Receipt
  <1>1. task[p] \in HandlerType
    BY DEF TypeInv, SlotTypes
  <1>2. task[p].pc = "pinCredit" => task[p].pin \in Pin
    BY <1>1 DEF HandlerType, Idle, Run
  <1>3. task[p].pc \in {"cancel", "cancelLog"}
          => task[p] \in [pc : {"cancel", "cancelLog"}, pin : Pin, refund : Nat]
    BY <1>1 DEF HandlerType, Idle, Run
  <1>4. task[p].pc = "receipt" => task[p].receipt \in Receipt
    BY <1>1 DEF HandlerType, Idle, Run
  <1>5. QED
    BY <1>2, <1>3, <1>4

\* The handler in slot p goes on to t, awaiting pool call c and sweep w.
LEMMA SlotMoves ==
  ASSUME TypeInv, NEW p \in Slot, NEW t \in HandlerType, NEW c, NEW w \in SweepType,
         Await(p, t, c), sweep' = [sweep EXCEPT ![p] = w],
         Local(t, c, w), \A i \in Pin : w.seen[i] <= PinBudget[i],
         Batched(t) => t.batch \subseteq receipts', receipts \subseteq receipts'
  PROVE  SlotTypes' /\ Locals'
  <1>1. task \in [Slot -> HandlerType] /\ sweep \in [Slot -> SweepType]
    BY DEF TypeInv, SlotTypes
  <1>2. call = [q \in Slot |-> call[q]]
    BY DEF TypeInv, IInv, PoolTypeOK
  <1>3. /\ task' = [q \in Slot |-> IF q = p THEN t ELSE task[q]]
        /\ call' = [q \in Slot |-> IF q = p THEN c ELSE call[q]]
        /\ sweep' = [q \in Slot |-> IF q = p THEN w ELSE sweep[q]]
    BY <1>1, <1>2 DEF Await
  <1>4. task' \in [Slot -> HandlerType] /\ sweep' \in [Slot -> SweepType]
    BY <1>1, <1>3
  <1>5. \A q \in Slot, i \in Pin : sweep'[q].seen[i] <= PinBudget[i]
    BY <1>3 DEF TypeInv, SlotTypes
  <1>6. ASSUME NEW q \in Slot
        PROVE  /\ Local(task'[q], call'[q], sweep'[q])
               /\ Batched(task'[q]) => task'[q].batch \subseteq receipts'
    <2>1. CASE q = p
      BY <1>3, <2>1
    <2>2. CASE q # p
      <3>1. task'[q] = task[q] /\ call'[q] = call[q] /\ sweep'[q] = sweep[q]
        BY <1>3, <2>2
      <3>2. Local(task[q], call[q], sweep[q]) /\ (Batched(task[q]) => task[q].batch \subseteq receipts)
        BY DEF TypeInv, Locals
      <3>3. QED
        BY <3>1, <3>2
    <2>3. QED
      BY <2>1, <2>2
  <1>7. Locals'
    <2>1. Locals' <=> /\ \A q \in Slot : Local(task'[q], call'[q], sweep'[q])
                      /\ \A q \in Slot : Batched(task'[q]) => task'[q].batch \subseteq receipts'
      BY DEF Locals, Local, Batched
    <2>2. QED
      BY <1>6, <2>1
  <1>8. QED
    BY <1>4, <1>5, <1>7 DEF SlotTypes

LEMMA NoSweepType ==
  NoSweep \in SweepType /\ NoSweep.op = "none" /\ \A i \in Pin : NoSweep.seen[i] <= PinBudget[i]
  <1>1. NoSweep.op = "none" /\ NoSweep.seen = [i \in Pin |-> 0]
    BY DEF NoSweep, NoBudget
  <1>2. NoSweep \in SweepType
    BY DEF NoSweep, SweepType, NoBudget
  <1>3. QED
    BY <1>1, <1>2, BudgetType

\* The same without a sweep, before and after.
LEMMA SlotGoesOn ==
  ASSUME TypeInv, NEW p \in Slot, NEW t \in HandlerType, NEW c,
         Await(p, t, c), sweep' = sweep, Local(t, c, sweep[p]),
         Batched(t) => t.batch \subseteq receipts', receipts \subseteq receipts'
  PROVE  SlotTypes' /\ Locals'
  <1>1. sweep[p] \in SweepType /\ sweep' = [sweep EXCEPT ![p] = sweep[p]]
    BY DEF TypeInv, SlotTypes
  <1>2. \A i \in Pin : sweep[p].seen[i] <= PinBudget[i]
    BY DEF TypeInv, SlotTypes
  <1>3. QED
    BY <1>1, <1>2, SlotMoves

LEMMA SlotReplies ==
  ASSUME TypeInv, NEW p \in Slot, Reply(p), receipts \subseteq receipts',
         \/ sweep' = [sweep EXCEPT ![p] = NoSweep]
         \/ sweep' = sweep /\ sweep[p].op = "none"
  PROVE  SlotTypes' /\ Locals'
  <1>1. Idle \in HandlerType /\ ~ Batched(Idle)
    BY DEF HandlerType, Idle, Batched
  <1>2. \A w : w.op = "none" => Local(Idle, NoCall, w)
    BY <1>1 DEF Local, Idle
  <1>3. QED
    BY <1>1, <1>2, NoSweepType, SlotMoves, SlotGoesOn DEF Reply

LEMMA ReturnedType ==
  ASSUME TypeInv, NEW p \in Slot
  PROVE  ReturnedCredit(p) \in Nat
  <1>1. call[p].amount \in Nat /\ call[p].seen \in Nat
    BY DEF TypeInv, IInv, PoolTypeOK, CallRecord
  <1>2. PoolCredit(call[p].amount, call[p].seen) \in 0..call[p].amount
    BY <1>1, CreditBounds
  <1>3. QED
    BY <1>1, <1>2 DEF ReturnedCredit

LEMMA SweepsOnly ==
  ASSUME TypeInv, NEW p \in Slot
  PROVE  task[p].pc # "cids" => sweep[p].op = "none"
  BY DEF TypeInv, Locals, Local

LEMMA TablesSame ==
  ASSUME TypeInv, UNCHANGED <<pins, log, settleVars, aborts>>
  PROVE  TableTypes'
  BY DEF TypeInv, TableTypes, settleVars

TypesKept == SlotTypes' /\ TableTypes' /\ Locals'

LEMMA TypeElsewhere ==
  ASSUME TypeInv, UNCHANGED <<task, sweep, call, receipts>>
  PROVE  SlotTypes' /\ Locals'
  BY DEF TypeInv, SlotTypes, Locals, Local, Batched

-------------------------------------------------------------------------------
(* What each step leaves of the types: tips, receipts and pins.            *)

LEMMA TypeTip ==
  ASSUME TypeInv, NEW p \in Slot, NEW t \in Tip, ReceiveTip(p, t)
  PROVE  TypesKept
  <1> DEFINE h == [pc |-> "tip"]
             c == TipCall(t.key, t.amount)
  <1>1. h \in HandlerType /\ h.pc = "tip" /\ ~ Batched(h)
    BY DEF HandlerType, Batched
  <1>2. c.op = "volume"
    BY DEF TipCall, NewCall
  <1>3. sweep[p].op = "none"
    BY SweepsOnly DEF ReceiveTip, Free, Idle
  <1>4. Await(p, h, c) /\ UNCHANGED <<sweep, pins, log, settleVars, aborts, receipts>>
    BY DEF ReceiveTip, settleVars
  <1> HIDE DEF h, c
  <1>5. Local(h, c, sweep[p])
    BY <1>1, <1>2, <1>3 DEF Local
  <1>6. QED
    BY <1>1, <1>4, <1>5, SlotGoesOn, TablesSame DEF TypesKept

LEMMA TypeReceipt ==
  ASSUME TypeInv, NEW p \in Slot, NEW r \in Receipt, ReceiveReceipt(p, r)
  PROVE  TypesKept
  <1> DEFINE h == [pc |-> "receipt", receipt |-> r]
  <1>1. h \in HandlerType /\ h.pc = "receipt" /\ ~ Batched(h)
    BY DEF HandlerType, Batched
  <1>2. sweep[p].op = "none"
    BY SweepsOnly DEF ReceiveReceipt, Free, Idle
  <1>3. Await(p, h, NoCall) /\ UNCHANGED <<sweep, pins, log, settleVars, aborts, receipts>>
    BY DEF ReceiveReceipt, settleVars
  <1> HIDE DEF h
  <1>4. Local(h, NoCall, sweep[p])
    BY <1>1, <1>2 DEF Local
  <1>5. QED
    BY <1>1, <1>3, <1>4, SlotGoesOn, TablesSame DEF TypesKept

LEMMA TypePin ==
  ASSUME TypeInv, NEW p \in Slot, NEW i \in Pin, CreatePin(p, i),
         UNCHANGED <<settleVars, aborts>>
  PROVE  TypesKept
  <1> DEFINE h == [pc |-> "pinCredit", pin |-> i]
             c == DirectCall(PinCid[i], PinBudget[i])
  <1>1. h \in HandlerType /\ h.pc = "pinCredit" /\ h.pin = i /\ ~ Batched(h)
    BY DEF HandlerType, Batched
  <1>2. c.op = "direct" /\ c.amount = PinBudget[i]
    BY DEF DirectCall, NewCall
  <1>3. sweep[p].op = "none"
    BY SweepsOnly DEF CreatePin, Free, Idle
  <1>4. /\ Await(p, h, c) /\ UNCHANGED <<sweep, log, settleVars, aborts, receipts>>
        /\ pins' = [pins EXCEPT ![i] = [status |-> "ACTIVE", remaining |-> PinBudget[i]]]
    BY DEF CreatePin, settleVars
  <1> HIDE DEF h, c
  <1>5. Local(h, c, sweep[p])
    BY <1>1, <1>2, <1>3 DEF Local
  <1>6. TableTypes'
    BY <1>4, BudgetType DEF TypeInv, TableTypes, PinType, settleVars
  <1>7. QED
    BY <1>1, <1>4, <1>5, <1>6, SlotGoesOn DEF TypesKept

LEMMA TypeReadPin ==
  ASSUME TypeInv, NEW p \in Slot, NEW i \in Pin, ReadPin(p, i),
         UNCHANGED <<settleVars, aborts>>
  PROVE  TypesKept
  <1> DEFINE refund == pins[i].remaining - PinCancelFee(pins[i].remaining)
             h == [pc |-> "cancel", pin |-> i, refund |-> refund]
             c == IF refund > 0 THEN DebitCall(PinCid[i], refund) ELSE NoCall
  <1>1. refund \in Nat
    BY AmountAssumption DEF ReadPin
  <1>2. Await(p, h, c) /\ UNCHANGED <<sweep, pins, log, settleVars, aborts, receipts>>
    BY DEF ReadPin, settleVars
  <1>3. sweep[p].op = "none"
    BY SweepsOnly DEF ReadPin, Free, Idle
  <1> HIDE DEF refund, c
  <1>4. h \in HandlerType /\ h.pc = "cancel" /\ ~ Batched(h)
    BY <1>1 DEF HandlerType, Batched
  <1> HIDE DEF h
  <1>5. Local(h, c, sweep[p])
    BY <1>3, <1>4 DEF Local
  <1>6. QED
    BY <1>2, <1>4, <1>5, SlotGoesOn, TablesSame DEF TypesKept

LEMMA TypeCancelPin ==
  ASSUME TypeInv, NEW p \in Slot, CancelPin(p), UNCHANGED <<settleVars, aborts>>
  PROVE  TypesKept
  <1> DEFINE h == [task[p] EXCEPT !.pc = "cancelLog"]
  <1>1. /\ Await(p, h, NoCall) /\ UNCHANGED <<sweep, log, settleVars, aborts, receipts>>
        /\ pins' = [pins EXCEPT ![task[p].pin] = [status |-> "CANCELLED", remaining |-> 0]]
    BY DEF CancelPin, settleVars
  <1>2. task[p] \in [pc : {"cancel", "cancelLog"}, pin : Pin, refund : Nat]
    BY PinTask DEF CancelPin
  <1>3. h \in HandlerType /\ h.pc = "cancelLog" /\ ~ Batched(h)
    BY <1>2 DEF HandlerType, Batched
  <1>4. sweep[p].op = "none"
    BY SweepsOnly DEF CancelPin
  <1> HIDE DEF h
  <1>5. Local(h, NoCall, sweep[p])
    BY <1>3, <1>4 DEF Local
  <1>6. TableTypes'
    <2>1. pins \in [Pin -> PinType] /\ \A i \in Pin : pins[i].remaining <= PinBudget[i]
      BY DEF TypeInv, TableTypes
    <2>2. pins' \in [Pin -> PinType]
      BY <1>1, <2>1 DEF PinType
    <2>3. \A i \in Pin : pins'[i].remaining <= PinBudget[i]
      BY <1>1, <2>1, BudgetType
    <2>4. QED
      BY <1>1, <2>2, <2>3 DEF TypeInv, TableTypes, settleVars
  <1>7. QED
    BY <1>1, <1>3, <1>5, <1>6, SlotGoesOn DEF TypesKept

\* The three appends that end a handler, and the receipt's insert.
LEMMA TypeAppend ==
  ASSUME TypeInv, NEW p \in Slot,
         \/ AppendTip(p)
         \/ AppendPinCreate(p) /\ UNCHANGED <<settleVars, aborts>>
         \/ AppendPinCancel(p) /\ UNCHANGED <<settleVars, aborts>>
         \/ StoreReceipt(p)
  PROVE  TypesKept
  <1>1. task[p].pc \in {"tip", "pinCredit", "cancelLog", "receipt"} /\ Reply(p) /\ sweep' = sweep
    BY DEF AppendTip, AppendPinCreate, AppendPinCancel, StoreReceipt
  <1>2. receipts \subseteq receipts' /\ receipts' \subseteq Receipt
    BY PinTask DEF AppendTip, AppendPinCreate, AppendPinCancel, StoreReceipt,
                   settleVars, TypeInv, TableTypes
  <1>3. SlotTypes' /\ Locals'
    BY <1>1, <1>2, SweepsOnly, SlotReplies
  <1>4. CASE StoreReceipt(p)
    BY <1>2, <1>3, <1>4 DEF TypeInv, TableTypes, TypesKept, StoreReceipt
  <1>5. CASE ~ StoreReceipt(p)
    <2>1. \E d \in Nat : log' = [log EXCEPT !.credits = @ + d] \/ log' = [log EXCEPT !.debits = @ + d]
      <3>1. CASE AppendTip(p)
        BY <3>1, ReturnedType DEF AppendTip
      <3>2. CASE AppendPinCreate(p)
        BY <3>2, PinTask, BudgetType DEF AppendPinCreate
      <3>3. CASE AppendPinCancel(p)
        BY <3>3, PinTask DEF AppendPinCancel
      <3>4. QED
        BY <1>5, <3>1, <3>2, <3>3
    <2>2. UNCHANGED <<pins, settleVars, aborts>>
      BY <1>5 DEF AppendTip, AppendPinCreate, AppendPinCancel
    <2>3. TableTypes'
      <3>1. log \in [credits : Nat, debits : Nat, summaries : [Epoch -> Nat]]
        BY DEF TypeInv, TableTypes
      <3>2. log' \in [credits : Nat, debits : Nat, summaries : [Epoch -> Nat]]
        BY <2>1, <3>1
      <3>3. QED
        BY <2>2, <3>2 DEF TypeInv, TableTypes, settleVars
    <2>4. QED
      BY <1>3, <2>3 DEF TypesKept
  <1>6. QED
    BY <1>4, <1>5

-------------------------------------------------------------------------------
(* What each step leaves of the types: drainPinBudgets.                    *)

LEMMA TypeList ==
  ASSUME TypeInv, NEW p \in Slot, ListActivePins(p), UNCHANGED <<settleVars, aborts>>
  PROVE  TypesKept
  <1> DEFINE active == {i \in Pin : PinCid[i] = sweep[p].cid /\ pins[i].status = "ACTIVE"}
             seen == [i \in Pin |-> IF i \in active THEN pins[i].remaining ELSE 0]
             w == [sweep[p] EXCEPT !.op = "write", !.left = active, !.seen = seen]
  <1>1. sweep \in [Slot -> SweepType] /\ task \in [Slot -> HandlerType]
    BY DEF TypeInv, SlotTypes
  <1>2. /\ sweep[p].op = "list" /\ UNCHANGED <<task, call, pins, log, settleVars, aborts, receipts>>
        /\ sweep' = [sweep EXCEPT ![p].op = "write", ![p].left = active, ![p].seen = seen]
    BY DEF ListActivePins, poolVars, settleVars
  <1>3. seen \in [Pin -> Nat] /\ \A i \in Pin : seen[i] <= PinBudget[i]
    BY BudgetType DEF TypeInv, TableTypes, PinType
  <1>4. active \in SUBSET Pin
    OBVIOUS
  <1> HIDE DEF active, seen
  <1>5. w \in SweepType /\ w.seen = seen /\ w.op = "write"
    BY <1>1, <1>3, <1>4 DEF SweepType
  <1>6. sweep' = [sweep EXCEPT ![p] = w]
    BY <1>1, <1>2
  <1> HIDE DEF w
  <1>7. Local(task[p], call[p], sweep[p]) /\ (Batched(task[p]) => task[p].batch \subseteq receipts')
    BY <1>2 DEF TypeInv, Locals
  <1>8. Local(task[p], call[p], w)
    BY <1>2, <1>5, <1>7 DEF Local
  <1>9. Await(p, task[p], call[p])
    BY <1>1, <1>2 DEF Await, TypeInv, IInv, PoolTypeOK
  <1>10. SlotTypes' /\ Locals'
    BY <1>1, <1>2, <1>3, <1>5, <1>6, <1>7, <1>8, <1>9, SlotMoves
  <1>11. QED
    BY <1>2, <1>10, TablesSame DEF TypesKept

LEMMA TypeDrain ==
  ASSUME TypeInv, NEW p \in Slot, NEW i \in Pin, DrainPin(p, i),
         UNCHANGED <<settleVars, aborts>>
  PROVE  TypesKept
  <1> DEFINE remaining == sweep[p].seen[i]
             deduction == Smaller(sweep[p].drain, Smaller(DrainRate(i), remaining))
             left == sweep[p].left \ {i}
             seen == [sweep[p].seen EXCEPT ![i] = 0]
             w == [sweep[p] EXCEPT !.left = left, !.seen = seen]
  <1>1. sweep \in [Slot -> SweepType] /\ task \in [Slot -> HandlerType]
    BY DEF TypeInv, SlotTypes
  <1>2. /\ sweep[p].op = "write" /\ UNCHANGED <<task, call, log, settleVars, aborts, receipts>>
        /\ sweep' = [sweep EXCEPT ![p].left = @ \ {i}, ![p].seen[i] = 0]
        /\ pins' = IF remaining - deduction <= 0
                   THEN [pins EXCEPT ![i] = [status |-> "EXHAUSTED", remaining |-> 0]]
                   ELSE [pins EXCEPT ![i].remaining = remaining - deduction]
    BY DEF DrainPin, poolVars, settleVars
  <1>3. remaining \in Nat /\ remaining <= PinBudget[i] /\ sweep[p].drain \in Nat
    BY <1>1 DEF TypeInv, SlotTypes, SweepType
  <1>4. deduction \in Nat /\ deduction <= remaining
    BY <1>3, BudgetType DEF Smaller
  <1>5. /\ seen \in [Pin -> Nat] /\ left \in SUBSET Pin
        /\ \A j \in Pin : seen[j] <= PinBudget[j]
    <2>1. sweep[p].seen \in [Pin -> Nat] /\ \A j \in Pin : sweep[p].seen[j] <= PinBudget[j]
      BY <1>1 DEF TypeInv, SlotTypes, SweepType
    <2>2. QED
      BY <1>1, <2>1, BudgetType DEF SweepType
  <1>6. sweep' = [sweep EXCEPT ![p] = w]
    BY <1>1, <1>2 DEF SweepType
  <1> HIDE DEF seen, left
  <1>7. w \in SweepType /\ w.seen = seen /\ w.op = "write"
    BY <1>1, <1>2, <1>5 DEF SweepType
  <1> HIDE DEF w, remaining, deduction
  <1>8. Local(task[p], call[p], sweep[p]) /\ (Batched(task[p]) => task[p].batch \subseteq receipts')
    BY <1>2 DEF TypeInv, Locals
  <1>9. Local(task[p], call[p], w)
    BY <1>2, <1>7, <1>8 DEF Local
  <1>10. Await(p, task[p], call[p])
    BY <1>1, <1>2 DEF Await, TypeInv, IInv, PoolTypeOK
  <1>11. SlotTypes' /\ Locals'
    BY <1>1, <1>2, <1>5, <1>6, <1>7, <1>8, <1>9, <1>10, SlotMoves
  <1>12. TableTypes'
    <2>1. pins \in [Pin -> PinType] /\ \A j \in Pin : pins[j].remaining <= PinBudget[j]
      BY DEF TypeInv, TableTypes
    <2>2. pins' \in [Pin -> PinType]
      BY <1>2, <1>3, <1>4, <2>1 DEF PinType
    <2>3. \A j \in Pin : pins'[j].remaining <= PinBudget[j]
      BY <1>2, <1>3, <1>4, <2>1, BudgetType DEF PinType
    <2>4. QED
      BY <1>2, <2>2, <2>3 DEF TypeInv, TableTypes, settleVars
  <1>13. QED
    BY <1>11, <1>12 DEF TypesKept

-------------------------------------------------------------------------------
(* What each step leaves of the types: settlement.                         *)

\* The groups a run has still to write a row for.
Unbooked(t) == Keys(t.rows) \cup {g \in EligibleGroups(t.batch) : g.cid \in t.cids}

LEMMA RunFacts ==
  ASSUME TypeInv, NEW p \in Slot, Batched(task[p])
  PROVE  /\ task[p] \in Run
         /\ task[p].batch # {} /\ \A r \in task[p].batch : r.epoch = task[p].epoch
         /\ task[p].batch \subseteq receipts
         /\ task[p].cids \subseteq EligibleCids(task[p].batch)
         /\ \A n \in 1..Len(task[p].rows) : task[p].rows[n].epoch = task[p].epoch
  <1>1. task[p] \in Run
    BY RunTask DEF Batched
  <1>2. Local(task[p], call[p], sweep[p]) /\ task[p].batch \subseteq receipts
    BY DEF TypeInv, Locals
  <1>3. QED
    BY <1>1, <1>2 DEF Local

\* A run has turned the groups of a CID into rows.
Takes(r, t, c, rows) ==
  /\ r \in Run /\ t \in Run /\ c \in r.cids
  /\ r.cids \subseteq EligibleCids(r.batch)
  /\ \A n \in 1..Len(r.rows) : r.rows[n].epoch = r.epoch
  /\ Lists(rows, r.epoch, GroupsOf(r.batch, c))
  /\ t.batch = r.batch /\ t.epoch = r.epoch
  /\ t.cids = r.cids \ {c} /\ t.rows = r.rows \o rows

LEMMA CidTaken ==
  ASSUME NEW r, NEW t, NEW c, NEW rows, Takes(r, t, c, rows)
  PROVE  /\ t.rows # <<>> /\ \A n \in 1..Len(t.rows) : t.rows[n].epoch = t.epoch
         /\ Unbooked(t) = Unbooked(r)
  <1> DEFINE G == GroupsOf(r.batch, c)
  <1>1. rows \in Seq(RowType) /\ r.rows \in Seq(RowType) /\ Keys(rows) = G
    BY DEF Lists, Run, Takes
  <1>2. G # {}
    BY DEF EligibleCids, GroupsOf, Takes
  <1>3. Keys(t.rows) = Keys(r.rows) \cup G
    BY <1>1, KeysJoin DEF Takes
  <1>4. t.rows # <<>>
    <2>1. Keys(<<>>) = {}
      BY DEF Keys
    <2>2. QED
      BY <1>2, <1>3, <2>1
  <1>5. ASSUME NEW n \in 1..Len(t.rows)
        PROVE  t.rows[n].epoch = t.epoch
    <2> DEFINE a == r.rows
    <2>1. \A m \in 1..Len(a) : a[m].epoch = r.epoch
      BY DEF Takes
    <2>2. \A m \in 1..Len(rows) : rows[m].epoch = r.epoch
      BY DEF Lists, Takes
    <2>3. a \in Seq(RowType) /\ rows \in Seq(RowType)
      BY <1>1
    <2> HIDE DEF a
    <2>4. \/ n \in 1..Len(a) /\ (a \o rows)[n] = a[n]
          \/ n - Len(a) \in 1..Len(rows) /\ (a \o rows)[n] = rows[n - Len(a)]
      <3>1. n \in 1..Len(a \o rows)
        BY DEF a, Takes
      <3>2. QED
        BY <2>3, <3>1
    <2>5. (a \o rows)[n].epoch = r.epoch
      BY <2>1, <2>2, <2>4
    <2>6. QED
      BY <2>5 DEF a, Takes
  <1>6. Unbooked(t) = Unbooked(r)
    <2>1. {g \in EligibleGroups(r.batch) : g.cid \in r.cids}
            = G \cup {g \in EligibleGroups(t.batch) : g.cid \in t.cids}
      BY DEF GroupsOf, Takes
    <2> HIDE DEF G
    <2>2. QED
      BY <1>3, <2>1 DEF Unbooked, Takes
  <1>7. QED
    BY <1>4, <1>5, <1>6

LEMMA TypeStart ==
  ASSUME TypeInv, NEW p \in Slot, NEW e \in Epoch, StartSettle(p, e), UNCHANGED aborts
  PROVE  TypesKept
  <1> DEFINE h == SettleTask("fetch", e, {}, {}, {}, <<>>, NothingLogged)
  <1>1. h \in HandlerType /\ h.pc = "fetch" /\ ~ Batched(h)
    BY DEF HandlerType, Run, SettleTask, NothingLogged, Batched
  <1>2. Await(p, h, NoCall) /\ UNCHANGED <<sweep, pins, log, settleVars, aborts, receipts>>
    BY DEF StartSettle, settleVars
  <1>3. sweep[p].op = "none"
    BY SweepsOnly DEF StartSettle, Free, Idle
  <1> HIDE DEF h
  <1>4. Local(h, NoCall, sweep[p])
    BY <1>1, <1>3 DEF Local
  <1>5. QED
    BY <1>1, <1>2, <1>4, SlotGoesOn, TablesSame DEF TypesKept

\* What a run knows when it has fetched its batch.
LEMMA Fetched ==
  ASSUME NEW e \in Epoch, NEW batch \in SUBSET Receipt
  PROVE  LET t == SettleTask("cids", e, batch, EligibleCids(batch), AutoBidCids(batch),
                             IneligibleRows(e, batch), NothingLogged)
         IN  /\ t \in Run /\ t.pc = "cids" /\ t.epoch = e /\ t.batch = batch
             /\ t.cids = EligibleCids(batch) /\ t.logged.credits = 0
             /\ \A n \in 1..Len(t.rows) : t.rows[n].epoch = e
             /\ Unbooked(t) = Groups(batch)
  <1> DEFINE rows == IneligibleRows(e, batch)
             cids == EligibleCids(batch)
             bids == AutoBidCids(batch)
             t == SettleTask("cids", e, batch, cids, bids, rows, NothingLogged)
  <1>1. Lists(rows, e, Groups(batch) \ EligibleGroups(batch))
    BY IneligibleRowsList
  <1>2. cids \in SUBSET PoolKey /\ bids \in SUBSET PoolKey /\ EligibleGroups(batch) \subseteq Groups(batch)
    BY GroupTypes
  <1>3. {g \in EligibleGroups(batch) : g.cid \in cids} = EligibleGroups(batch)
    BY DEF EligibleCids
  <1> HIDE DEF rows, cids, bids
  <1>4. /\ t \in Run /\ t.pc = "cids" /\ t.epoch = e /\ t.batch = batch
        /\ t.cids = cids /\ t.rows = rows /\ t.logged.credits = 0
    BY <1>1, <1>2 DEF SettleTask, Run, NothingLogged, Lists
  <1> HIDE DEF t
  <1>5. Unbooked(t) = Groups(batch)
    BY <1>1, <1>2, <1>3, <1>4 DEF Unbooked, Lists
  <1>6. QED
    BY <1>1, <1>4, <1>5 DEF Lists, t, rows, cids, bids

LEMMA TypeFetch ==
  ASSUME TypeInv, NEW p \in Slot, FetchReceipts(p), UNCHANGED aborts
  PROVE  TypesKept
  <1> DEFINE e == task[p].epoch
             batch == {r \in receipts : r.epoch = e}
             t == SettleTask("cids", e, batch, EligibleCids(batch), AutoBidCids(batch),
                             IneligibleRows(e, batch), NothingLogged)
  <1>1. UNCHANGED <<sweep, pins, log, settleVars, aborts, receipts>> /\ task[p].pc = "fetch"
    BY DEF FetchReceipts, settleVars
  <1>2. sweep[p].op = "none"
    BY <1>1, SweepsOnly
  <1>3. CASE Reply(p)
    BY <1>1, <1>2, <1>3, SlotReplies, TablesSame DEF TypesKept
  <1>4. CASE batch # {} /\ Await(p, t, NoCall)
    <2>1. e \in Epoch /\ batch \in SUBSET Receipt /\ batch \subseteq receipts
      BY <1>1, RunTask DEF Run, TypeInv, TableTypes
    <2>2. /\ t \in Run /\ t.pc = "cids" /\ t.epoch = e /\ t.batch = batch
          /\ t.cids = EligibleCids(batch) /\ \A n \in 1..Len(t.rows) : t.rows[n].epoch = e
      BY <2>1, Fetched
    <2>3. \A r \in batch : r.epoch = e
      OBVIOUS
    <2>4. t.batch # {}
      BY <1>4, <2>2
    <2> HIDE DEF t, batch
    <2>5. Local(t, NoCall, sweep[p])
      BY <1>2, <2>2, <2>3, <2>4 DEF Local
    <2>6. t \in HandlerType
      BY <2>2 DEF HandlerType
    <2>7. QED
      BY <1>1, <1>4, <2>1, <2>2, <2>5, <2>6, SlotGoesOn, TablesSame DEF TypesKept
  <1>5. QED
    BY <1>3, <1>4 DEF FetchReceipts

-------------------------------------------------------------------------------
(* The turns of a run between its fetch and its rows.                      *)

\* What a handler has credited to pools and not yet to the log.
Owed(t, c) ==
  CASE t.pc \in {"cids", "debit"} -> t.logged.credits
    [] t.pc = "bid" ->
         t.logged.credits + IF c.op = "done" THEN PoolCredit(c.amount, c.seen) ELSE 0
    [] t.pc = "tip" -> IF c.op = "done" THEN PoolCredit(c.amount, c.seen) ELSE 0
    [] t.pc = "pinCredit" -> IF c.op = "done" THEN PinBudget[t.pin] ELSE 0
    [] OTHER -> 0

\* The run in slot p goes on to t, awaiting c and w: what it has to write and
\* what it owes stay as they are, and it may only debit a CID it had to take.
Turn(p, t, c, w) ==
  /\ Batched(task[p]) /\ Batched(t)
  /\ t.epoch = task[p].epoch /\ t.batch = task[p].batch
  /\ Unbooked(t) = Unbooked(task[p]) /\ t.cids \subseteq task[p].cids
  /\ t.pc = "debit" => c.key \in task[p].cids
  /\ Owed(t, c) = Owed(task[p], call[p])
  /\ Local(t, c, w) /\ \A i \in Pin : w.seen[i] <= PinBudget[i]
  /\ Await(p, t, c) /\ sweep' = [sweep EXCEPT ![p] = w]
  /\ UNCHANGED <<pins, log, settleVars, balance, volume, credited, debited>>

SettleTurn(p) ==
  \/ \E c \in PoolKey : \/ SkipCid(p, c)
                        \/ \E uptime \in [Host -> Uptime] : PayCid(p, c, uptime)
                        \/ StartAutoBid(p, c)
  \/ StartSweep(p)
  \/ EndAutoBid(p)

LEMMA TurnSkip ==
  ASSUME TypeInv, NEW p \in Slot, NEW c \in PoolKey, SkipCid(p, c)
  PROVE  \E t \in Run, w \in SweepType : \E d : Turn(p, t, d, w)
  <1> DEFINE r == task[p]
             nothing == [h \in EligibleHosts(r.batch, c) |-> 0]
             rows == CidRows(r.epoch, c, nothing)
             t == [r EXCEPT !.cids = @ \ {c}, !.rows = @ \o rows]
  <1>1. /\ r.pc = "cids" /\ c \in r.cids /\ call[p] = NoCall
        /\ Await(p, t, NoCall) /\ sweep' = [sweep EXCEPT ![p] = NoSweep]
        /\ UNCHANGED <<pins, log, settleVars, balance, volume, credited, debited>>
    BY DEF SkipCid, BetweenCids, PoolUnchanged
  <1>2. /\ r \in Run /\ r.batch # {} /\ \A x \in r.batch : x.epoch = r.epoch
        /\ r.cids \subseteq EligibleCids(r.batch)
        /\ \A n \in 1..Len(r.rows) : r.rows[n].epoch = r.epoch
    BY <1>1, RunFacts DEF Batched
  <1>3. Lists(rows, r.epoch, GroupsOf(r.batch, c))
    <2>1. nothing \in [EligibleHosts(r.batch, c) -> Nat] /\ r.epoch \in Epoch /\ r.batch \in SUBSET Receipt
      BY <1>2 DEF Run
    <2>2. QED
      BY <2>1, CidRowsList
  <1> HIDE DEF r, rows
  <1>4. /\ t \in Run /\ t.pc = "cids" /\ t.batch = r.batch /\ t.epoch = r.epoch
        /\ t.cids = r.cids \ {c} /\ t.rows = r.rows \o rows /\ t.logged = r.logged
    <2> DEFINE all == r.rows \o rows
    <2>1. r \in Run /\ all \in Seq(RowType) /\ r.pc = "cids"
      BY <1>1, <1>2, <1>3 DEF Lists, Run
    <2> HIDE DEF all
    <2>2. [r EXCEPT !.cids = @ \ {c}, !.rows = all] \in Run
      BY <2>1 DEF Run
    <2>3. QED
      BY <2>1, <2>2 DEF Run, all
  <1> HIDE DEF t
  <1>5. /\ t.rows # <<>> /\ \A n \in 1..Len(t.rows) : t.rows[n].epoch = t.epoch
        /\ Unbooked(t) = Unbooked(r)
    BY <1>1, <1>2, <1>3, <1>4, CidTaken DEF Takes
  <1>6. Local(t, NoCall, NoSweep)
    BY <1>2, <1>4, <1>5, NoSweepType DEF Local
  <1>7. Owed(t, NoCall) = Owed(r, call[p])
    BY <1>1, <1>4 DEF Owed
  <1>8. Turn(p, t, NoCall, NoSweep)
    BY <1>1, <1>4, <1>5, <1>6, <1>7, NoSweepType DEF Turn, Batched, r
  <1>9. QED
    BY <1>4, <1>8, NoSweepType

LEMMA TurnPay ==
  ASSUME TypeInv, NEW p \in Slot, NEW c \in PoolKey, NEW uptime \in [Host -> Uptime],
         PayCid(p, c, uptime)
  PROVE  \E t \in Run, w \in SweepType : \E d : Turn(p, t, d, w)
  <1> DEFINE r == task[p]
             rewards == Rewards(balance[c], r.batch, c, uptime)
             drain == TotalDrain(balance[c], r.batch, c, rewards)
             actualDrain == Smaller(drain, balance[c])
             rows == CidRows(r.epoch, c, rewards)
             owed == [r EXCEPT !.cids = @ \ {c}, !.rows = @ \o rows, !.logged.debits = @ + drain]
             next == [owed EXCEPT !.pc = "debit"]
             d == DebitCall(c, actualDrain)
  <1>1. /\ r.pc = "cids" /\ c \in r.cids /\ call[p] = NoCall /\ balance[c] > 0
        /\ Await(p, owed, NoCall) \/ Await(p, next, d)
        /\ sweep' = [sweep EXCEPT ![p] = NoSweep]
        /\ UNCHANGED <<pins, log, settleVars, balance, volume, credited, debited>>
    BY DEF PayCid, BetweenCids, PoolUnchanged
  <1>2. /\ r \in Run /\ r.batch # {} /\ \A x \in r.batch : x.epoch = r.epoch
        /\ r.cids \subseteq EligibleCids(r.batch)
        /\ \A n \in 1..Len(r.rows) : r.rows[n].epoch = r.epoch
    BY <1>1, RunFacts DEF Batched
  <1>3. /\ balance[c] \in Nat /\ r.epoch \in Epoch /\ r.batch \in SUBSET Receipt
    BY <1>1, <1>2 DEF TypeInv, IInv, PoolTypeOK, Run
  <1>4. Lists(rows, r.epoch, GroupsOf(r.batch, c)) /\ drain \in Nat
    BY <1>3, RewardsType, DrainType, CidRowsList
  <1>5. d.op = "check" /\ d.key = c
    BY DEF DebitCall, NewCall
  <1> HIDE DEF r, rows, drain, d
  <1>6. /\ owed \in Run /\ owed.pc = "cids" /\ owed.batch = r.batch /\ owed.epoch = r.epoch
        /\ owed.cids = r.cids \ {c} /\ owed.rows = r.rows \o rows
        /\ owed.logged.credits = r.logged.credits
    <2> DEFINE all == r.rows \o rows
    <2>1. r \in Run /\ all \in Seq(RowType) /\ r.pc = "cids" /\ drain \in Nat
      BY <1>1, <1>2, <1>4 DEF Lists, Run
    <2> HIDE DEF all
    <2> DEFINE logged == [r.logged EXCEPT !.debits = @ + drain]
    <2>2. logged \in [credits : Nat, debits : Nat] /\ logged.credits = r.logged.credits
      BY <2>1 DEF Run
    <2>3. owed = [r EXCEPT !.cids = @ \ {c}, !.rows = all, !.logged = logged]
      BY DEF all, owed
    <2> HIDE DEF logged
    <2>4. QED
      BY <2>1, <2>2, <2>3 DEF Run, all
  <1> HIDE DEF owed
  <1>7. /\ next \in Run /\ next.pc = "debit" /\ next.batch = r.batch /\ next.epoch = r.epoch
        /\ next.cids = r.cids \ {c} /\ next.rows = r.rows \o rows
        /\ next.logged.credits = r.logged.credits
    BY <1>6 DEF Run
  <1> HIDE DEF next
  <1>8. ASSUME NEW t, NEW x, Await(p, t, x),
               (t = owed /\ x = NoCall) \/ (t = next /\ x = d)
        PROVE  Turn(p, t, x, NoSweep)
    <2>1. /\ t \in Run /\ t.batch = r.batch /\ t.epoch = r.epoch /\ t.cids = r.cids \ {c}
          /\ t.rows = r.rows \o rows /\ t.logged.credits = r.logged.credits
          /\ \/ t.pc = "cids"
             \/ t.pc = "debit" /\ x.op = "check" /\ x.key = c
      BY <1>5, <1>6, <1>7, <1>8
    <2>2. /\ t.rows # <<>> /\ \A n \in 1..Len(t.rows) : t.rows[n].epoch = t.epoch
          /\ Unbooked(t) = Unbooked(r)
      BY <1>1, <1>2, <1>4, <2>1, CidTaken DEF Takes
    <2>3. Local(t, x, NoSweep)
      BY <1>2, <2>1, <2>2, NoSweepType DEF Local
    <2>4. Owed(t, x) = Owed(r, call[p])
      BY <1>1, <2>1 DEF Owed
    <2>5. QED
      BY <1>1, <1>8, <2>1, <2>2, <2>3, <2>4, NoSweepType DEF Turn, Batched, r
  <1>9. CASE Await(p, owed, NoCall)
    <2>1. Turn(p, owed, NoCall, NoSweep)
      BY <1>8, <1>9
    <2>2. QED
      BY <1>6, <2>1, NoSweepType
  <1>10. CASE Await(p, next, d)
    <2>1. Turn(p, next, d, NoSweep)
      BY <1>8, <1>10
    <2>2. QED
      BY <1>7, <2>1, NoSweepType
  <1>11. QED
    BY <1>1, <1>9, <1>10

LEMMA TurnSweep ==
  ASSUME TypeInv, NEW p \in Slot, StartSweep(p)
  PROVE  \E t \in Run, w \in SweepType : \E d : Turn(p, t, d, w)
  <1> DEFINE r == task[p]
             t == [r EXCEPT !.pc = "cids"]
             w == SweepCall(call[p].key, call[p].amount)
  <1>1. /\ r.pc = "debit" /\ Await(p, t, NoCall) /\ sweep' = [sweep EXCEPT ![p] = w]
        /\ UNCHANGED <<pins, log, settleVars, balance, volume, credited, debited>>
    BY DEF StartSweep, PoolUnchanged
  <1>2. r \in Run /\ Local(r, call[p], sweep[p])
    BY <1>1, RunTask DEF TypeInv, Locals
  <1>3. w \in SweepType /\ w.op = "list" /\ w.seen = [i \in Pin |-> 0]
    <2>1. call[p].key \in PoolKey /\ call[p].amount \in Nat
      BY <1>1, <1>2 DEF TypeInv, IInv, PoolTypeOK, CallRecord, Local
    <2>2. QED
      BY <2>1 DEF SweepCall, SweepType, NoBudget
  <1> HIDE DEF r, w
  <1>4. /\ t \in Run /\ t.pc = "cids" /\ t.batch = r.batch /\ t.epoch = r.epoch
        /\ t.cids = r.cids /\ t.rows = r.rows /\ t.logged = r.logged
    BY <1>2 DEF Run
  <1> HIDE DEF t
  <1>5. Local(t, NoCall, w) /\ \A i \in Pin : w.seen[i] <= PinBudget[i]
    BY <1>1, <1>2, <1>3, <1>4, BudgetType DEF Local, Batched
  <1>6. Owed(t, NoCall) = Owed(r, call[p])
    BY <1>1, <1>4 DEF Owed
  <1>7. Unbooked(t) = Unbooked(r)
    BY <1>4 DEF Unbooked
  <1>8. Turn(p, t, NoCall, w)
    BY <1>1, <1>4, <1>5, <1>6, <1>7 DEF Turn, Batched, r
  <1>9. QED
    BY <1>3, <1>4, <1>8

LEMMA TurnBid ==
  ASSUME TypeInv, NEW p \in Slot, NEW c \in PoolKey, StartAutoBid(p, c)
  PROVE  \E t \in Run, w \in SweepType : \E d : Turn(p, t, d, w)
  <1> DEFINE r == task[p]
             t == [r EXCEPT !.pc = "bid", !.bids = @ \ {c}]
             d == TipCall(c, AutoBid(r.batch, c))
  <1>1. /\ r.pc = "cids" /\ call[p] = NoCall
        /\ Await(p, t, d) /\ sweep' = [sweep EXCEPT ![p] = NoSweep]
        /\ UNCHANGED <<pins, log, settleVars, balance, volume, credited, debited>>
    BY DEF StartAutoBid, BetweenCids, PoolUnchanged
  <1>2. r \in Run /\ Local(r, call[p], sweep[p])
    BY <1>1, RunTask DEF TypeInv, Locals
  <1>3. d.op = "volume"
    BY DEF TipCall, NewCall
  <1> HIDE DEF r, d
  <1>4. /\ t \in Run /\ t.pc = "bid" /\ t.batch = r.batch /\ t.epoch = r.epoch
        /\ t.cids = r.cids /\ t.rows = r.rows /\ t.logged = r.logged
    BY <1>2 DEF Run
  <1> HIDE DEF t
  <1>5. Local(t, d, NoSweep)
    BY <1>1, <1>2, <1>3, <1>4, NoSweepType DEF Local, Batched
  <1>6. Owed(t, d) = Owed(r, call[p])
    BY <1>1, <1>2, <1>3, <1>4 DEF Owed, Run
  <1>7. Unbooked(t) = Unbooked(r)
    BY <1>4 DEF Unbooked
  <1>8. Turn(p, t, d, NoSweep)
    BY <1>1, <1>4, <1>5, <1>6, <1>7, NoSweepType DEF Turn, Batched, r
  <1>9. QED
    BY <1>4, <1>8, NoSweepType

LEMMA TurnBidDone ==
  ASSUME TypeInv, NEW p \in Slot, EndAutoBid(p)
  PROVE  \E t \in Run, w \in SweepType : \E d : Turn(p, t, d, w)
  <1> DEFINE r == task[p]
             credit == ReturnedCredit(p)
             t == [r EXCEPT !.pc = "cids", !.logged.credits = @ + credit]
  <1>1. /\ r.pc = "bid" /\ Await(p, t, NoCall) /\ sweep' = sweep
        /\ UNCHANGED <<pins, log, settleVars, balance, volume, credited, debited>>
    BY DEF EndAutoBid, PoolUnchanged
  <1>2. r \in Run /\ Local(r, call[p], sweep[p])
    BY <1>1, RunTask DEF TypeInv, Locals
  <1>3. call[p].op = "done"
    BY <1>1, <1>2 DEF EndAutoBid, CallDone, Local, Returned
  <1>4. credit \in Nat /\ credit = PoolCredit(call[p].amount, call[p].seen)
    BY ReturnedType DEF ReturnedCredit
  <1>5. sweep[p] \in SweepType /\ sweep' = [sweep EXCEPT ![p] = sweep[p]] /\ sweep[p].op = "none"
        /\ \A i \in Pin : sweep[p].seen[i] <= PinBudget[i]
    BY <1>1, SweepsOnly DEF TypeInv, SlotTypes
  <1> HIDE DEF r, credit
  <1>6. /\ t \in Run /\ t.pc = "cids" /\ t.batch = r.batch /\ t.epoch = r.epoch
        /\ t.cids = r.cids /\ t.rows = r.rows /\ t.logged.credits = r.logged.credits + credit
    <2> DEFINE logged == [r.logged EXCEPT !.credits = @ + credit]
    <2>1. logged \in [credits : Nat, debits : Nat] /\ logged.credits = r.logged.credits + credit
      BY <1>2, <1>4 DEF Run
    <2>2. t = [r EXCEPT !.pc = "cids", !.logged = logged]
      OBVIOUS
    <2> HIDE DEF logged, t
    <2>3. QED
      BY <1>2, <2>1, <2>2 DEF Run
  <1> HIDE DEF t
  <1>7. Local(t, NoCall, sweep[p])
    BY <1>1, <1>2, <1>5, <1>6 DEF Local, Batched
  <1>8. Owed(t, NoCall) = Owed(r, call[p])
    BY <1>1, <1>3, <1>4, <1>6 DEF Owed
  <1>9. Unbooked(t) = Unbooked(r)
    BY <1>6 DEF Unbooked
  <1>10. Turn(p, t, NoCall, sweep[p])
    BY <1>1, <1>5, <1>6, <1>7, <1>8, <1>9 DEF Turn, Batched, r
  <1>11. QED
    BY <1>5, <1>6, <1>10

LEMMA TurnStep ==
  ASSUME TypeInv, NEW p \in Slot, SettleTurn(p)
  PROVE  \E t \in Run, w \in SweepType : \E d : Turn(p, t, d, w)
  BY TurnSkip, TurnPay, TurnSweep, TurnBid, TurnBidDone DEF SettleTurn

LEMMA TypeTurn ==
  ASSUME TypeInv, NEW p \in Slot, SettleTurn(p), UNCHANGED aborts
  PROVE  TypesKept
  <1>1. PICK t \in Run, w \in SweepType : \E d : Turn(p, t, d, w)
    BY TurnStep
  <1>2. t \in HandlerType
    BY DEF HandlerType
  <1>3. t.batch \subseteq receipts' /\ receipts \subseteq receipts'
    BY <1>1, RunFacts DEF Turn, settleVars
  <1>4. QED
    BY <1>1, <1>2, <1>3, SlotMoves, TablesSame DEF Turn, TypesKept

-------------------------------------------------------------------------------
(* The rows, the end of a run, and the steps of no handler.                *)

LEMMA TypePersist ==
  ASSUME TypeInv, NEW p \in Slot, PersistSummary(p), UNCHANGED aborts
  PROVE  TypesKept
  <1> DEFINE r == task[p]
             t == [r EXCEPT !.rows = Tail(@)]
             row == Head(r.rows)
  <1>1. /\ r.pc = "cids" /\ r.rows # <<>> /\ sweep' = [sweep EXCEPT ![p] = NoSweep]
        /\ UNCHANGED <<pins, log, now, receipts, charges, aborts>>
        /\ \/ Reply(p) /\ summaries' = summaries
           \/ Await(p, t, NoCall) /\ summaries' = summaries \cup {row}
    BY DEF PersistSummary, BetweenCids
  <1>2. /\ r \in Run /\ r.batch # {} /\ \A x \in r.batch : x.epoch = r.epoch
        /\ r.batch \subseteq receipts /\ r.cids \subseteq EligibleCids(r.batch)
        /\ \A n \in 1..Len(r.rows) : r.rows[n].epoch = r.epoch
    BY <1>1, RunFacts DEF Batched
  <1>3. /\ row \in RowType /\ Tail(r.rows) \in Seq(RowType)
        /\ \A n \in 1..Len(Tail(r.rows)) : Tail(r.rows)[n].epoch = r.epoch
    <2> DEFINE rows == r.rows
    <2>1. rows \in Seq(RowType) /\ rows # <<>> /\ \A n \in 1..Len(rows) : rows[n].epoch = r.epoch
      BY <1>1, <1>2 DEF Run
    <2> HIDE DEF rows
    <2>2. row \in RowType /\ Tail(rows) \in Seq(RowType)
          /\ \A n \in 1..Len(Tail(rows)) : \E m \in 1..Len(rows) : Tail(rows)[n] = rows[m]
      BY <2>1, KeysTail DEF rows
    <2>3. QED
      BY <2>1, <2>2 DEF rows
  <1>4. TableTypes'
    BY <1>1, <1>3 DEF TypeInv, TableTypes
  <1>5. CASE Reply(p)
    BY <1>1, <1>4, <1>5, SlotReplies DEF TypesKept
  <1>6. CASE Await(p, t, NoCall)
    <2>1. /\ t \in Run /\ t.pc = "cids" /\ t.batch = r.batch /\ t.epoch = r.epoch
          /\ t.cids = r.cids /\ t.rows = Tail(r.rows)
      <3> DEFINE tail == Tail(r.rows)
      <3>1. tail \in Seq(RowType)
        BY <1>3
      <3> HIDE DEF tail
      <3>2. [r EXCEPT !.rows = tail] \in Run
        BY <1>2, <3>1 DEF Run
      <3>3. QED
        BY <1>1, <1>2, <3>2 DEF Run, tail
    <2> HIDE DEF t, r
    <2>2. Local(t, NoCall, NoSweep)
      BY <1>2, <1>3, <2>1, NoSweepType DEF Local
    <2>3. t \in HandlerType
      BY <2>1 DEF HandlerType
    <2>4. SlotTypes' /\ Locals'
      BY <1>1, <1>2, <1>6, <2>1, <2>2, <2>3, NoSweepType, SlotMoves
    <2>5. QED
      BY <1>4, <2>4 DEF TypesKept
  <1>7. QED
    BY <1>1, <1>5, <1>6

LEMMA TypeSummary ==
  ASSUME TypeInv, NEW p \in Slot, AppendSummary(p), UNCHANGED aborts
  PROVE  TypesKept
  <1> DEFINE r == task[p]
  <1>1. /\ r.pc = "cids" /\ r.rows = <<>> /\ Reply(p) /\ sweep' = sweep
        /\ UNCHANGED <<pins, settleVars, receipts, aborts>>
        /\ log' = [log EXCEPT !.credits = @ + r.logged.credits,
                              !.debits = @ + r.logged.debits,
                              !.summaries[r.epoch] = @ + 1]
    BY DEF AppendSummary, BetweenCids, settleVars
  <1>2. r \in Run
    BY <1>1, RunTask
  <1>3. sweep[p].op = "none"
    BY <1>1 DEF TypeInv, Locals, Local
  <1>4. SlotTypes' /\ Locals'
    BY <1>1, <1>3, SlotReplies
  <1>5. log' \in [credits : Nat, debits : Nat, summaries : [Epoch -> Nat]]
    <2>1. log \in [credits : Nat, debits : Nat, summaries : [Epoch -> Nat]]
      BY DEF TypeInv, TableTypes
    <2>2. r.logged.credits \in Nat /\ r.logged.debits \in Nat /\ r.epoch \in Epoch
      BY <1>2 DEF Run
    <2> DEFINE s == [log.summaries EXCEPT ![r.epoch] = @ + 1]
    <2>3. s \in [Epoch -> Nat]
      BY <2>1, <2>2
    <2>4. log' = [log EXCEPT !.credits = @ + r.logged.credits,
                             !.debits = @ + r.logged.debits, !.summaries = s]
      BY <1>1
    <2> DEFINE a == log.credits + r.logged.credits
               b == log.debits + r.logged.debits
    <2>5. a \in Nat /\ b \in Nat
      BY <2>1, <2>2
    <2>6. log' = [log EXCEPT !.credits = a, !.debits = b, !.summaries = s]
      BY <2>4
    <2> HIDE DEF a, b, s, r
    <2>7. QED
      BY <2>1, <2>3, <2>5, <2>6
  <1>6. TableTypes'
    BY <1>1, <1>5 DEF TypeInv, TableTypes, settleVars
  <1>7. QED
    BY <1>4, <1>6 DEF TypesKept

\* What a pool step does to the call it runs.
LEMMA CallRuns ==
  ASSUME TypeInv, NEW p \in Slot, PoolStep(p)
  PROVE  /\ \A q \in Slot \ {p} : call'[q] = call[q]
         /\ call'[p].key = call[p].key /\ call'[p].amount = call[p].amount
         /\ \/ call[p].op = "volume" /\ call'[p].op = "credit"
            \/ /\ call[p].op \in {"credit", "direct", "decrement"} /\ call'[p].op = "done"
               /\ call'[p].seen = call[p].seen
            \/ call[p].op = "check" /\ call'[p].op \in {"refused", "decrement"}
  <1>1. call \in [Slot -> CallRecord]
    BY DEF TypeInv, IInv, PoolTypeOK
  <1>2. CASE ReadVolume(p)
    BY <1>1, <1>2 DEF ReadVolume, CallRecord
  <1>3. CASE CreditTip(p) \/ CreditBountyDirect(p) \/ DebitPayout(p)
    BY <1>1, <1>3 DEF CreditTip, CreditBountyDirect, DebitPayout, CallRecord
  <1>4. CASE CheckDebit(p)
    BY <1>1, <1>4 DEF CheckDebit, CallRecord
  <1>5. QED
    BY <1>2, <1>3, <1>4 DEF PoolStep

LEMMA TypePoolCall ==
  ASSUME TypeInv, NEW p \in Slot, RunPoolCall(p), UNCHANGED aborts
  PROVE  TypesKept
  <1>1. /\ PoolStep(p) /\ UNCHANGED <<pins, task, sweep, log, now, receipts, summaries, aborts>>
        /\ charges' =
             IF task[p].pc = "debit" /\ call[p].op = "decrement"
             THEN [charges EXCEPT ![task[p].epoch][call[p].key] =
                     [times |-> @.times + 1, sats |-> @.sats + call[p].amount]]
             ELSE charges
    BY DEF RunPoolCall, pinVars
  <1>2. charges \in [Epoch -> [PoolKey -> [times : Nat, sats : Nat]]]
    BY DEF TypeInv, TableTypes
  <1>3. charges' \in [Epoch -> [PoolKey -> [times : Nat, sats : Nat]]]
    <2>1. CASE task[p].pc = "debit" /\ call[p].op = "decrement"
      <3> DEFINE e == task[p].epoch
                 k == call[p].key
                 new == [times |-> charges[e][k].times + 1, sats |-> charges[e][k].sats + call[p].amount]
      <3>1. e \in Epoch /\ k \in PoolKey /\ call[p].amount \in Nat
        BY <2>1, RunTask DEF Run, TypeInv, IInv, PoolTypeOK, CallRecord
      <3>2. new \in [times : Nat, sats : Nat]
        BY <1>2, <3>1
      <3>3. charges' = [charges EXCEPT ![e][k] = new]
        BY <1>1, <2>1
      <3> HIDE DEF new, e, k
      <3>4. QED
        BY <1>2, <3>1, <3>2, <3>3
    <2>2. CASE ~ (task[p].pc = "debit" /\ call[p].op = "decrement")
      <3>1. charges' = charges
        BY <1>1, <2>2
      <3>2. QED
        BY <1>2, <3>1
    <2>3. QED
      BY <2>1, <2>2
  <1>4. SlotTypes' /\ TableTypes'
    BY <1>1, <1>3 DEF TypeInv, SlotTypes, TableTypes
  <1>5. ASSUME NEW q \in Slot
        PROVE  /\ Local(task[q], call'[q], sweep[q])
               /\ Batched(task[q]) => task[q].batch \subseteq receipts
    <2>1. Local(task[q], call[q], sweep[q]) /\ (Batched(task[q]) => task[q].batch \subseteq receipts)
      BY DEF TypeInv, Locals
    <2>2. CASE q # p
      BY <1>1, <2>1, <2>2, CallRuns
    <2>3. CASE q = p
      BY <1>1, <2>1, <2>3, CallRuns DEF Local
    <2>4. QED
      BY <2>2, <2>3
  <1>6. Locals'
    <2>1. Locals' <=> /\ \A q \in Slot : Local(task'[q], call'[q], sweep'[q])
                      /\ \A q \in Slot : Batched(task'[q]) => task'[q].batch \subseteq receipts'
      BY DEF Locals, Local, Batched
    <2>2. QED
      BY <1>1, <1>5, <2>1
  <1>7. QED
    BY <1>4, <1>6 DEF TypesKept

LEMMA TypeAbort ==
  ASSUME TypeInv, NEW p \in Slot, Abort(p)
  PROVE  TypesKept
  <1>1. SlotTypes' /\ Locals'
    BY SlotReplies DEF Abort, settleVars
  <1>2. TableTypes'
    BY DEF Abort, settleVars, TypeInv, TableTypes
  <1>3. QED
    BY <1>1, <1>2 DEF TypesKept

LEMMA TypeTick ==
  ASSUME TypeInv, Tick
  PROVE  TypesKept
  <1>1. SlotTypes' /\ Locals'
    BY TypeElsewhere DEF Tick, poolVars, pinVars
  <1>2. now' \in Epoch
    BY ReceiptAssumption DEF Tick, TypeInv, TableTypes, Epoch
  <1>3. TableTypes'
    BY <1>2 DEF Tick, pinVars, TypeInv, TableTypes
  <1>4. QED
    BY <1>1, <1>3 DEF TypesKept

LEMMA TypeRest ==
  ASSUME TypeInv, UNCHANGED vars
  PROVE  TypesKept
  <1>1. SlotTypes' /\ Locals'
    BY TypeElsewhere DEF vars, poolVars, pinVars, settleVars
  <1>2. QED
    BY <1>1, TablesSame DEF vars, poolVars, pinVars, settleVars, TypesKept

\* The steps of a settlement after its start, by what they are to the run.
LEMMA SettleSteps ==
  ASSUME NEW p \in Slot, SettleStep(p)
  PROVE  \/ FetchReceipts(p) \/ SettleTurn(p) \/ PersistSummary(p)
         \/ AppendSummary(p) \/ RunPoolCall(p)
  BY DEF SettleStep, SettleTurn

LEMMA TypeStep == TypeInv /\ [Next]_vars => TypeInv'
  <1> SUFFICES ASSUME TypeInv, [Next]_vars
               PROVE  IInv' /\ TypesKept
    BY DEF TypeInv, TypesKept
  <1>1. IInv'
    BY InvStep DEF TypeInv
  <1>2. ASSUME NEW p \in Slot, Request(p)
        PROVE  TypesKept
    BY <1>2, TypeTip, TypeReceipt, TypePin, TypeReadPin, TypeStart DEF Request
  <1>3. ASSUME NEW p \in Slot, Continue(p)
        PROVE  TypesKept
    <2>1. CASE PinStep(p) /\ UNCHANGED <<settleVars, tips, aborts>>
      BY <2>1, TypeAppend, TypeCancelPin, TypeList, TypeDrain DEF PinStep
    <2>2. CASE SettleStep(p) /\ UNCHANGED <<tips, aborts>>
      BY <2>2, SettleSteps, TypeFetch, TypeTurn, TypePersist, TypeSummary, TypePoolCall
    <2>3. QED
      BY <1>3, <2>1, <2>2, TypeAppend DEF Continue
  <1>4. QED
    BY <1>1, <1>2, <1>3, TypeAbort, TypeTick, TypeRest DEF Next, Quiet

\* Whatever requests do, overlapping or stopped halfway, the tables and the
\* handlers keep their types: no pin holds more than its budget, no settlement
\* promises a negative reward, and only a settlement sweeps pins.
THEOREM CoordinatorTypes == Spec => []CoordinatorTypeOK
  <1>1. TypeInv => CoordinatorTypeOK
    <2> SUFFICES ASSUME TypeInv
                 PROVE  CoordinatorTypeOK
      OBVIOUS
    <2>1. PoolTypeOK /\ now \in Epoch /\ receipts \subseteq Receipt
      BY DEF TypeInv, IInv, TableTypes
    <2>2. \A i \in Pin : /\ pins[i].status \in {"NONE", "ACTIVE", "EXHAUSTED", "CANCELLED"}
                         /\ pins[i].remaining \in 0..PinBudget[i]
      BY BudgetType DEF TypeInv, TableTypes, PinType
    <2>3. \A s \in summaries : /\ s.epoch \in Epoch /\ s.host \in Host
                               /\ s.cid \in PoolKey /\ s.reward \in Nat
      BY DEF TypeInv, TableTypes, RowType
    <2>4. \A p \in Slot : sweep[p].op # "none" => task[p].pc \in {"cids"}
      BY DEF TypeInv, Locals, Local
    <2>5. \A p \in Slot : call[p].op # "none" => task[p].pc \in AwaitsPool
      BY DEF TypeInv, IInv, TasksOK, HandlerOK, NoCall
    <2>6. log.credits \in Nat /\ log.debits \in Nat
      BY DEF TypeInv, TableTypes
    <2>7. QED
      BY <2>1, <2>2, <2>3, <2>4, <2>5, <2>6 DEF CoordinatorTypeOK
  <1>2. QED
    BY <1>1, TypeInit, TypeStep, PTL DEF Spec

-------------------------------------------------------------------------------
(* Two runs on an epoch.                                                   *)

BookedIn(table, e) == {Key(s) : s \in {x \in table : x.epoch = e}}

\* Of two batches one contains the other, and of the groups they share one run
\* or the other has not written the row.
Apart(a, b, groups) ==
  /\ a \subseteq b \/ b \subseteq a
  /\ Groups(a) \cap Groups(b) \subseteq groups

LEMMA AwaitSlots ==
  ASSUME TypeInv, NEW p \in Slot, NEW t, NEW c, Await(p, t, c)
  PROVE  /\ task'[p] = t /\ call'[p] = c
         /\ \A q \in Slot \ {p} : task'[q] = task[q] /\ call'[q] = call[q]
  <1>1. task \in [Slot -> HandlerType] /\ call \in [Slot -> CallRecord]
    BY DEF TypeInv, SlotTypes, IInv, PoolTypeOK
  <1>2. QED
    BY <1>1 DEF Await

\* A run as the other runs see it.
SameRun(t, r) ==
  /\ Batched(r) /\ t.epoch = r.epoch /\ t.batch = r.batch /\ Unbooked(t) = Unbooked(r)

\* Nothing but receipts, and runs that end, between one state and the next.
Calm ==
  /\ \A q \in Slot : Batched(task'[q]) => SameRun(task'[q], task[q])
  /\ summaries' = summaries /\ log'.summaries = log.summaries
  /\ receipts \subseteq receipts'

LEMMA CalmUnbatched ==
  ASSUME TypeInv, NEW p \in Slot, NEW t, NEW c, Await(p, t, c), ~ Batched(t),
         summaries' = summaries, log'.summaries = log.summaries, receipts \subseteq receipts'
  PROVE  Calm
  BY AwaitSlots DEF Calm, SameRun

LEMMA IdleUnbatched == ~ Batched(Idle)
  BY DEF Batched, Idle

LEMMA CalmElsewhere ==
  ASSUME UNCHANGED <<task, summaries, receipts, log>>
  PROVE  Calm
  BY DEF Calm, SameRun

\* FetchReceipts that finds receipts, PersistSummary that finds no duplicate.
FetchBatch(p) ==
  LET e == task[p].epoch
      batch == {r \in receipts : r.epoch = e}
  IN  /\ task[p].pc = "fetch" /\ batch # {}
      /\ task'[p].epoch = e /\ task'[p].batch = batch
      /\ Batched(task'[p]) /\ Unbooked(task'[p]) = Groups(batch)
      /\ \A q \in Slot \ {p} : task'[q] = task[q]
      /\ UNCHANGED <<summaries, log, receipts>>

WriteRow(p) ==
  LET row == Head(task[p].rows)
  IN  /\ Batched(task[p]) /\ Batched(task'[p])
      /\ row.epoch = task[p].epoch /\ Key(row) \notin BookedIn(summaries, task[p].epoch)
      /\ summaries' = summaries \cup {row}
      /\ task'[p].epoch = task[p].epoch /\ task'[p].batch = task[p].batch
      /\ Unbooked(task[p]) = {Key(row)} \cup Unbooked(task'[p])
      /\ \A q \in Slot \ {p} : task'[q] = task[q]
      /\ UNCHANGED <<log, receipts>>

CloseEpoch(p) ==
  /\ Batched(task[p]) /\ Unbooked(task[p]) = {}
  /\ log'.summaries = [log.summaries EXCEPT ![task[p].epoch] = @ + 1]
  /\ ~ Batched(task'[p]) /\ \A q \in Slot \ {p} : task'[q] = task[q]
  /\ UNCHANGED <<summaries, receipts>>

LEMMA FetchEffect ==
  ASSUME TypeInv, NEW p \in Slot, FetchReceipts(p)
  PROVE  Calm \/ FetchBatch(p)
  <1> DEFINE e == task[p].epoch
             batch == {r \in receipts : r.epoch = e}
             t == SettleTask("cids", e, batch, EligibleCids(batch), AutoBidCids(batch),
                             IneligibleRows(e, batch), NothingLogged)
  <1>1. /\ UNCHANGED <<log, summaries, receipts>> /\ task[p].pc = "fetch"
        /\ Reply(p) \/ (batch # {} /\ Await(p, t, NoCall))
    BY DEF FetchReceipts, settleVars
  <1>2. CASE Reply(p)
    BY <1>1, <1>2, IdleUnbatched, CalmUnbatched DEF Reply
  <1>3. CASE batch # {} /\ Await(p, t, NoCall)
    <2>1. e \in Epoch /\ batch \in SUBSET Receipt
      BY <1>1, RunTask DEF Run, TypeInv, TableTypes
    <2>2. t.pc = "cids" /\ t.epoch = e /\ t.batch = batch /\ Unbooked(t) = Groups(batch)
      BY <2>1, Fetched
    <2> HIDE DEF t
    <2>3. task'[p] = t /\ \A q \in Slot \ {p} : task'[q] = task[q]
      BY <1>3, AwaitSlots
    <2>4. QED
      BY <1>1, <1>3, <2>2, <2>3 DEF FetchBatch, Batched
  <1>4. QED
    BY <1>1, <1>2, <1>3

LEMMA TurnEffect ==
  ASSUME TypeInv, NEW p \in Slot, SettleTurn(p)
  PROVE  Calm
  <1>1. PICK t \in Run, w \in SweepType : \E d : Turn(p, t, d, w)
    BY TurnStep
  <1>2. task'[p] = t /\ \A q \in Slot \ {p} : task'[q] = task[q]
    BY <1>1, AwaitSlots DEF Turn
  <1>3. SameRun(t, task[p]) /\ UNCHANGED <<log, summaries, receipts>>
    BY <1>1 DEF Turn, SameRun, settleVars
  <1>4. \A q \in Slot : Batched(task[q]) => SameRun(task[q], task[q])
    BY DEF SameRun
  <1>5. QED
    BY <1>2, <1>3, <1>4 DEF Calm

LEMMA PersistEffect ==
  ASSUME TypeInv, NEW p \in Slot, PersistSummary(p)
  PROVE  Calm \/ WriteRow(p)
  <1> DEFINE r == task[p]
             t == [r EXCEPT !.rows = Tail(@)]
             row == Head(r.rows)
             duplicate == \E s \in SummariesOf(row.epoch) : s.host = row.host /\ s.cid = row.cid
  <1>1. /\ r.pc = "cids" /\ r.rows # <<>> /\ UNCHANGED <<log, receipts>>
        /\ \/ Reply(p) /\ summaries' = summaries
           \/ Await(p, t, NoCall) /\ ~ duplicate /\ summaries' = summaries \cup {row}
    BY DEF PersistSummary, BetweenCids
  <1>2. r \in Run /\ \A n \in 1..Len(r.rows) : r.rows[n].epoch = r.epoch
    BY <1>1, RunFacts DEF Batched
  <1>3. CASE Reply(p) /\ summaries' = summaries
    BY <1>1, <1>3, IdleUnbatched, CalmUnbatched DEF Reply
  <1>4. CASE Await(p, t, NoCall) /\ ~ duplicate /\ summaries' = summaries \cup {row}
    <2> DEFINE rows == r.rows
    <2>1. /\ rows \in Seq(RowType) /\ rows # <<>>
          /\ \A n \in 1..Len(rows) : rows[n].epoch = r.epoch
      BY <1>1, <1>2 DEF Run
    <2> HIDE DEF rows
    <2>2. /\ Head(rows).epoch = r.epoch
          /\ Keys(rows) = {Key(Head(rows))} \cup Keys(Tail(rows))
      BY <2>1, KeysTail
    <2>3. row.epoch = r.epoch /\ Keys(r.rows) = {Key(row)} \cup Keys(Tail(r.rows))
      BY <2>2 DEF rows
    <2>4. t.rows = Tail(r.rows) /\ t.pc = "cids" /\ t.cids = r.cids /\ t.batch = r.batch
          /\ t.epoch = r.epoch
      BY <1>1, <1>2 DEF Run
    <2>5. Key(row) \notin BookedIn(summaries, r.epoch)
      BY <1>4, <2>3 DEF BookedIn, SummariesOf, Key
    <2>6. task'[p] = t /\ \A q \in Slot \ {p} : task'[q] = task[q]
      BY <1>4, AwaitSlots
    <2> HIDE DEF t
    <2>7. Unbooked(r) = {Key(row)} \cup Unbooked(t)
      BY <2>3, <2>4 DEF Unbooked
    <2>8. QED
      BY <1>1, <1>4, <2>3, <2>4, <2>5, <2>6, <2>7 DEF WriteRow, Batched
  <1>5. QED
    BY <1>1, <1>3, <1>4

LEMMA SummaryEffect ==
  ASSUME TypeInv, NEW p \in Slot, AppendSummary(p)
  PROVE  CloseEpoch(p)
  <1>1. /\ task[p].pc = "cids" /\ task[p].cids = {} /\ task[p].rows = <<>>
        /\ Await(p, Idle, NoCall) /\ UNCHANGED <<summaries, receipts>>
        /\ log' = [log EXCEPT !.credits = @ + task[p].logged.credits,
                              !.debits = @ + task[p].logged.debits,
                              !.summaries[task[p].epoch] = @ + 1]
    BY DEF AppendSummary, BetweenCids, Reply, settleVars
  <1>2. Unbooked(task[p]) = {}
    BY <1>1 DEF Unbooked, Keys
  <1>3. log'.summaries = [log.summaries EXCEPT ![task[p].epoch] = @ + 1]
    BY <1>1 DEF TypeInv, TableTypes
  <1>4. task'[p] = Idle /\ \A q \in Slot \ {p} : task'[q] = task[q]
    BY <1>1, AwaitSlots
  <1>5. QED
    BY <1>1, <1>2, <1>3, <1>4, IdleUnbatched DEF CloseEpoch, Batched

\* Every step is one of these.
LEMMA RunEffect ==
  ASSUME TypeInv, [Next]_vars
  PROVE  Calm \/ \E p \in Slot : FetchBatch(p) \/ WriteRow(p) \/ CloseEpoch(p)
  <1>1. ASSUME NEW p \in Slot, Request(p)
        PROVE  Calm
    <2>1. CASE \E t \in Tip : ReceiveTip(p, t)
      BY <2>1, CalmUnbatched DEF ReceiveTip, settleVars, Batched
    <2>2. CASE \E r \in Receipt : ReceiveReceipt(p, r)
      BY <2>2, CalmUnbatched DEF ReceiveReceipt, settleVars, Batched
    <2>3. CASE \E i \in Pin : CreatePin(p, i) /\ UNCHANGED <<settleVars, tips, aborts>>
      BY <2>3, CalmUnbatched DEF CreatePin, settleVars, Batched
    <2>4. CASE \E i \in Pin : ReadPin(p, i) /\ UNCHANGED <<settleVars, tips, aborts>>
      BY <2>4, CalmUnbatched DEF ReadPin, settleVars, Batched
    <2>5. CASE \E e \in Epoch : StartSettle(p, e) /\ UNCHANGED <<tips, aborts>>
      BY <2>5, CalmUnbatched DEF StartSettle, settleVars, SettleTask, Batched
    <2>6. QED
      BY <1>1, <2>1, <2>2, <2>3, <2>4, <2>5 DEF Request
  <1>2. ASSUME NEW p \in Slot, PinStep(p), UNCHANGED settleVars
        PROVE  Calm
    <2>1. CASE AppendPinCreate(p) \/ AppendPinCancel(p)
      <3>1. log'.summaries = log.summaries
        BY <2>1 DEF AppendPinCreate, AppendPinCancel, TypeInv, TableTypes
      <3>2. QED
        BY <1>2, <2>1, <3>1, CalmUnbatched, IdleUnbatched
           DEF AppendPinCreate, AppendPinCancel, Reply, settleVars
    <2>2. CASE CancelPin(p)
      <3> DEFINE h == [task[p] EXCEPT !.pc = "cancelLog"]
      <3>1. h.pc = "cancelLog"
        BY <2>2, PinTask DEF CancelPin
      <3>2. Await(p, h, NoCall) /\ log' = log
        BY <2>2 DEF CancelPin
      <3> HIDE DEF h
      <3>3. QED
        BY <1>2, <3>1, <3>2, CalmUnbatched DEF settleVars, Batched
    <2>3. CASE ListActivePins(p) \/ \E i \in Pin : DrainPin(p, i)
      BY <1>2, <2>3, CalmElsewhere DEF ListActivePins, DrainPin, settleVars
    <2>4. QED
      BY <1>2, <2>1, <2>2, <2>3 DEF PinStep
  <1>3. ASSUME NEW p \in Slot, AppendTip(p) \/ StoreReceipt(p) \/ Abort(p)
        PROVE  Calm
    <2>1. CASE AppendTip(p)
      <3>1. log'.summaries = log.summaries
        BY <2>1 DEF AppendTip, TypeInv, TableTypes
      <3>2. QED
        BY <2>1, <3>1, CalmUnbatched, IdleUnbatched DEF AppendTip, Reply, settleVars
    <2>2. CASE StoreReceipt(p) \/ Abort(p)
      <3>1. log' = log /\ summaries' = summaries /\ receipts \subseteq receipts'
            /\ Await(p, Idle, NoCall)
        BY <2>2 DEF StoreReceipt, Abort, Reply, settleVars
      <3>2. QED
        BY <3>1, CalmUnbatched, IdleUnbatched
    <2>3. QED
      BY <1>3, <2>1, <2>2
  <1>4. ASSUME NEW p \in Slot, SettleStep(p)
        PROVE  Calm \/ FetchBatch(p) \/ WriteRow(p) \/ CloseEpoch(p)
    <2>1. CASE RunPoolCall(p)
      BY <2>1, CalmElsewhere DEF RunPoolCall, pinVars
    <2>2. QED
      BY <1>4, <2>1, SettleSteps, FetchEffect, TurnEffect, PersistEffect, SummaryEffect
  <1>5. CASE Tick \/ Quiet \/ UNCHANGED vars
    BY <1>5, CalmElsewhere DEF Tick, Quiet, vars, pinVars, settleVars
  <1>6. ASSUME NEW p \in Slot, Continue(p)
        PROVE  Calm \/ FetchBatch(p) \/ WriteRow(p) \/ CloseEpoch(p)
    BY <1>2, <1>3, <1>4, <1>6 DEF Continue
  <1>7. QED
    BY <1>1, <1>3, <1>5, <1>6 DEF Next

\* The groups of a batch have a row, or the run has still to write it.
Accounted(t, booked) == Groups(t.batch) \subseteq Unbooked(t) \cup booked

Disjoint(t, u) == Apart(t.batch, u.batch, Unbooked(t) \cup Unbooked(u))

RunsInv ==
  /\ \A p \in Slot : Batched(task[p])
       => Accounted(task[p], BookedIn(summaries, task[p].epoch))
  /\ \A p, q \in Slot :
       p # q /\ Batched(task[p]) /\ Batched(task[q]) /\ task[p].epoch = task[q].epoch
         => Disjoint(task[p], task[q])

\* The batch of the run that wrote the summary of e.
Closed(e, b) ==
  /\ b # {} /\ \A r \in b : r.epoch = e
  /\ Groups(b) \subseteq BookedIn(summaries, e)
  /\ \A q \in Slot : Batched(task[q]) /\ task[q].epoch = e
                       => Apart(b, task[q].batch, Unbooked(task[q]))

ClosedInv ==
  \A e \in Epoch : /\ log.summaries[e] <= 1
                   /\ log.summaries[e] # 0 => \E b \in SUBSET receipts : Closed(e, b)

SummaryInv == RunsInv /\ ClosedInv

LEMMA SummaryInit == Init => SummaryInv
  <1> SUFFICES ASSUME Init
               PROVE  SummaryInv
    OBVIOUS
  <1>1. \A p \in Slot : ~ Batched(task[p])
    BY DEF Init, PinInit, Idle, Batched
  <1>2. \A e \in Epoch : log.summaries[e] = 0
    BY DEF Init, SettleInit
  <1>3. RunsInv
    BY <1>1 DEF RunsInv
  <1>4. ClosedInv
    BY <1>2 DEF ClosedInv
  <1>5. QED
    BY <1>3, <1>4 DEF SummaryInv

LEMMA GroupShared ==
  ASSUME NEW a, NEW b, a # {}, b # {}, a \subseteq b \/ b \subseteq a
  PROVE  Groups(a) \cap Groups(b) # {}
  <1>1. PICK r : r \in a /\ r \in b
    OBVIOUS
  <1>2. [host |-> r.host, cid |-> r.cid] \in Groups(a) \cap Groups(b)
    BY <1>1 DEF Groups
  <1>3. QED
    BY <1>2

LEMMA RunsMade ==
  ASSUME \A p \in Slot : Batched(task'[p])
           => Accounted(task'[p], BookedIn(summaries', task'[p].epoch)),
         \A p, q \in Slot :
           p # q /\ Batched(task'[p]) /\ Batched(task'[q]) /\ task'[p].epoch = task'[q].epoch
             => Disjoint(task'[p], task'[q])
  PROVE  RunsInv'
  BY DEF RunsInv, Accounted, Disjoint, Batched, Apart, Unbooked

LEMMA ClosedMade ==
  ASSUME NEW e, NEW b, b # {}, \A r \in b : r.epoch = e,
         Groups(b) \subseteq BookedIn(summaries', e),
         \A q \in Slot : Batched(task'[q]) /\ task'[q].epoch = e
                           => Apart(b, task'[q].batch, Unbooked(task'[q]))
  PROVE  Closed(e, b)'
  BY DEF Closed, Batched, Apart, Unbooked, BookedIn

LEMMA CalmKeeps ==
  ASSUME SummaryInv, Calm
  PROVE  SummaryInv'
  <1>1. \A q \in Slot : Batched(task'[q]) => SameRun(task'[q], task[q])
    BY DEF Calm
  <1>2. RunsInv'
    <2>1. ASSUME NEW p \in Slot, Batched(task'[p])
          PROVE  Accounted(task'[p], BookedIn(summaries', task'[p].epoch))
      <3>1. SameRun(task'[p], task[p])
        BY <1>1, <2>1
      <3>2. Accounted(task[p], BookedIn(summaries, task[p].epoch))
        BY <3>1 DEF SameRun, SummaryInv, RunsInv
      <3>3. QED
        BY <3>1, <3>2 DEF SameRun, Accounted, Calm
    <2>2. ASSUME NEW p \in Slot, NEW q \in Slot, p # q, Batched(task'[p]), Batched(task'[q]),
                 task'[p].epoch = task'[q].epoch
          PROVE  Disjoint(task'[p], task'[q])
      <3>1. SameRun(task'[p], task[p]) /\ SameRun(task'[q], task[q])
        BY <1>1, <2>2
      <3>2. Disjoint(task[p], task[q])
        BY <2>2, <3>1 DEF SameRun, SummaryInv, RunsInv
      <3>3. QED
        BY <3>1, <3>2 DEF SameRun, Disjoint
    <2>3. QED
      BY <2>1, <2>2, RunsMade
  <1>3. ClosedInv'
    <2> SUFFICES ASSUME NEW e \in Epoch
                 PROVE  /\ log'.summaries[e] <= 1
                        /\ log'.summaries[e] # 0 => \E b \in SUBSET receipts' : Closed(e, b)'
      BY DEF ClosedInv, Closed, Batched, Apart, Unbooked, BookedIn
    <2>1. log'.summaries[e] <= 1
      BY DEF Calm, SummaryInv, ClosedInv
    <2>2. ASSUME log'.summaries[e] # 0
          PROVE  \E b \in SUBSET receipts' : Closed(e, b)'
      <3>1. PICK b \in SUBSET receipts : Closed(e, b)
        BY <2>2 DEF Calm, SummaryInv, ClosedInv
      <3>2. ASSUME NEW q \in Slot, Batched(task'[q]), task'[q].epoch = e
            PROVE  Apart(b, task'[q].batch, Unbooked(task'[q]))
        <4>1. SameRun(task'[q], task[q])
          BY <1>1, <3>2
        <4>2. Apart(b, task[q].batch, Unbooked(task[q]))
          BY <3>1, <3>2, <4>1 DEF SameRun, Closed
        <4>3. QED
          BY <4>1, <4>2 DEF SameRun
      <3>3. Closed(e, b)'
        BY <3>1, <3>2, ClosedMade DEF Closed, Calm
      <3>4. QED
        BY <3>3 DEF Calm
    <2>3. QED
      BY <2>1, <2>2
  <1>4. QED
    BY <1>2, <1>3 DEF SummaryInv

\* A batch fetched later contains every batch fetched before.
LEMMA FetchKeeps ==
  ASSUME TypeInv, SummaryInv, NEW p \in Slot, FetchBatch(p)
  PROVE  SummaryInv'
  <1> DEFINE e == task[p].epoch
             batch == {r \in receipts : r.epoch = e}
  <1>1. /\ task'[p].epoch = e /\ task'[p].batch = batch /\ Unbooked(task'[p]) = Groups(batch)
        /\ \A q \in Slot \ {p} : task'[q] = task[q]
        /\ UNCHANGED <<summaries, log, receipts>>
    BY DEF FetchBatch
  <1>2. ASSUME NEW q \in Slot, q # p, Batched(task'[q]), task'[q].epoch = e
        PROVE  task'[q].batch \subseteq batch
    <2>1. Batched(task[q]) /\ task[q].epoch = e /\ task'[q].batch = task[q].batch
      BY <1>1, <1>2
    <2>2. \A r \in task[q].batch : r.epoch = e
      BY <2>1, RunFacts
    <2>3. task[q].batch \subseteq receipts
      BY <2>1, RunFacts
    <2>4. QED
      BY <2>1, <2>2, <2>3
  <1> HIDE DEF e, batch
  <1>3. RunsInv'
    <2>1. ASSUME NEW q \in Slot, Batched(task'[q])
          PROVE  Accounted(task'[q], BookedIn(summaries', task'[q].epoch))
      <3>1. CASE q = p
        BY <1>1, <3>1 DEF Accounted
      <3>2. CASE q # p
        BY <1>1, <2>1, <3>2 DEF SummaryInv, RunsInv
      <3>3. QED
        BY <3>1, <3>2
    <2>2. ASSUME NEW x \in Slot, NEW q \in Slot, x # q, Batched(task'[x]), Batched(task'[q]),
                 task'[x].epoch = task'[q].epoch
          PROVE  Disjoint(task'[x], task'[q])
      <3>1. CASE x = p
        BY <1>1, <1>2, <2>2, <3>1 DEF Disjoint, Apart
      <3>2. CASE q = p
        BY <1>1, <1>2, <2>2, <3>2 DEF Disjoint, Apart
      <3>3. CASE x # p /\ q # p
        BY <1>1, <2>2, <3>3 DEF SummaryInv, RunsInv
      <3>4. QED
        BY <3>1, <3>2, <3>3
    <2>3. QED
      BY <2>1, <2>2, RunsMade
  <1>4. ClosedInv'
    <2> SUFFICES ASSUME NEW d \in Epoch
                 PROVE  /\ log'.summaries[d] <= 1
                        /\ log'.summaries[d] # 0 => \E b \in SUBSET receipts' : Closed(d, b)'
      BY DEF ClosedInv, Closed, Batched, Apart, Unbooked, BookedIn
    <2>1. log'.summaries[d] <= 1
      BY <1>1 DEF SummaryInv, ClosedInv
    <2>2. ASSUME log'.summaries[d] # 0
          PROVE  \E b \in SUBSET receipts' : Closed(d, b)'
      <3>1. PICK b \in SUBSET receipts : Closed(d, b)
        BY <1>1, <2>2 DEF SummaryInv, ClosedInv
      <3>2. ASSUME NEW q \in Slot, Batched(task'[q]), task'[q].epoch = d
            PROVE  Apart(b, task'[q].batch, Unbooked(task'[q]))
        <4>1. CASE q = p
          <5>1. b \subseteq batch
            BY <1>1, <3>1, <3>2, <4>1 DEF Closed, batch
          <5>2. QED
            BY <1>1, <4>1, <5>1 DEF Apart
        <4>2. CASE q # p
          BY <1>1, <3>1, <3>2, <4>2 DEF Closed
        <4>3. QED
          BY <4>1, <4>2
      <3>3. Closed(d, b)'
        BY <1>1, <3>1, <3>2, ClosedMade DEF Closed
      <3>4. QED
        BY <1>1, <3>3
    <2>3. QED
      BY <2>1, <2>2
  <1>5. QED
    BY <1>3, <1>4 DEF SummaryInv

\* A group that has no row yet is still to be written by every run that has it.
LEMMA WriteKeeps ==
  ASSUME TypeInv, SummaryInv, NEW p \in Slot, WriteRow(p)
  PROVE  SummaryInv'
  <1> DEFINE row == Head(task[p].rows)
             g == Key(row)
             e == task[p].epoch
  <1>1. /\ Batched(task[p]) /\ Batched(task'[p]) /\ row.epoch = e
        /\ g \notin BookedIn(summaries, e) /\ summaries' = summaries \cup {row}
        /\ task'[p].epoch = e /\ task'[p].batch = task[p].batch
        /\ Unbooked(task[p]) = {g} \cup Unbooked(task'[p])
        /\ \A q \in Slot \ {p} : task'[q] = task[q]
        /\ UNCHANGED <<log, receipts>>
    BY DEF WriteRow
  <1>2. /\ BookedIn(summaries', e) = BookedIn(summaries, e) \cup {g}
        /\ \A d : BookedIn(summaries, d) \subseteq BookedIn(summaries', d)
    BY <1>1 DEF BookedIn
  <1> HIDE DEF g, row, e
  <1>3. ASSUME NEW q \in Slot, q # p, Batched(task[q]), task[q].epoch = e, g \in Groups(task[q].batch)
        PROVE  g \in Unbooked(task'[q])
    <2>1. Accounted(task[q], BookedIn(summaries, e))
      BY <1>3 DEF SummaryInv, RunsInv
    <2>2. QED
      BY <1>1, <1>3, <2>1 DEF Accounted
  <1>4. RunsInv'
    <2>1. ASSUME NEW q \in Slot, Batched(task'[q])
          PROVE  Accounted(task'[q], BookedIn(summaries', task'[q].epoch))
      <3>1. CASE q = p
        <4>1. Accounted(task[p], BookedIn(summaries, e))
          BY <1>1 DEF SummaryInv, RunsInv, e
        <4>2. QED
          BY <1>1, <1>2, <3>1, <4>1 DEF Accounted
      <3>2. CASE q # p
        <4>1. task'[q] = task[q]
          BY <1>1, <3>2
        <4>2. Accounted(task[q], BookedIn(summaries, task[q].epoch))
          BY <2>1, <4>1 DEF SummaryInv, RunsInv
        <4>3. QED
          BY <1>2, <4>1, <4>2 DEF Accounted
      <3>3. QED
        BY <3>1, <3>2
    <2>2. ASSUME NEW q \in Slot, q # p, Batched(task'[q]), task'[q].epoch = e
          PROVE  Disjoint(task'[p], task'[q]) /\ Disjoint(task'[q], task'[p])
      <3>1. Batched(task[q]) /\ task[q].epoch = e /\ task'[q] = task[q]
        BY <1>1, <2>2
      <3>2. Disjoint(task[p], task[q])
        BY <1>1, <2>2, <3>1 DEF SummaryInv, RunsInv, e
      <3>3. g \in Groups(task[q].batch) => g \in Unbooked(task'[q])
        BY <1>3, <2>2, <3>1
      <3>4. QED
        BY <1>1, <3>1, <3>2, <3>3 DEF Disjoint, Apart
    <2>3. ASSUME NEW x \in Slot, NEW q \in Slot, x # q, Batched(task'[x]), Batched(task'[q]),
                 task'[x].epoch = task'[q].epoch
          PROVE  Disjoint(task'[x], task'[q])
      <3>1. CASE x = p \/ q = p
        BY <1>1, <2>2, <2>3, <3>1
      <3>2. CASE x # p /\ q # p
        BY <1>1, <2>3, <3>2 DEF SummaryInv, RunsInv
      <3>3. QED
        BY <3>1, <3>2
    <2>4. QED
      BY <2>1, <2>3, RunsMade
  <1>5. ClosedInv'
    <2> SUFFICES ASSUME NEW d \in Epoch
                 PROVE  /\ log'.summaries[d] <= 1
                        /\ log'.summaries[d] # 0 => \E b \in SUBSET receipts' : Closed(d, b)'
      BY DEF ClosedInv, Closed, Batched, Apart, Unbooked, BookedIn
    <2>1. log'.summaries[d] <= 1
      BY <1>1 DEF SummaryInv, ClosedInv
    <2>2. ASSUME log'.summaries[d] # 0
          PROVE  \E b \in SUBSET receipts' : Closed(d, b)'
      <3>1. PICK b \in SUBSET receipts : Closed(d, b)
        BY <1>1, <2>2 DEF SummaryInv, ClosedInv
      <3>2. ASSUME NEW q \in Slot, Batched(task'[q]), task'[q].epoch = d
            PROVE  Apart(b, task'[q].batch, Unbooked(task'[q]))
        <4>1. CASE q = p
          <5>1. d = e
            BY <1>1, <3>2, <4>1
          <5>2. Apart(b, task[p].batch, Unbooked(task[p])) /\ Groups(b) \subseteq BookedIn(summaries, e)
            BY <1>1, <3>1, <5>1 DEF Closed, e
          <5>3. g \notin Groups(b)
            BY <1>1, <5>2
          <5>4. QED
            BY <1>1, <4>1, <5>2, <5>3 DEF Apart
        <4>2. CASE q # p
          BY <1>1, <3>1, <3>2, <4>2 DEF Closed
        <4>3. QED
          BY <4>1, <4>2
      <3>3. Groups(b) \subseteq BookedIn(summaries', d)
        BY <1>2, <3>1 DEF Closed
      <3>4. Closed(d, b)'
        BY <3>1, <3>2, <3>3, ClosedMade DEF Closed
      <3>5. QED
        BY <1>1, <3>4
    <2>3. QED
      BY <2>1, <2>2
  <1>6. QED
    BY <1>4, <1>5 DEF SummaryInv

\* A run that has written all its rows is the first to do so for its epoch.
LEMMA CloseKeeps ==
  ASSUME TypeInv, SummaryInv, NEW p \in Slot, CloseEpoch(p)
  PROVE  SummaryInv'
  <1> DEFINE e == task[p].epoch
             batch == task[p].batch
  <1>1. /\ Batched(task[p]) /\ Unbooked(task[p]) = {}
        /\ log'.summaries = [log.summaries EXCEPT ![e] = @ + 1]
        /\ ~ Batched(task'[p]) /\ \A q \in Slot \ {p} : task'[q] = task[q]
        /\ UNCHANGED <<summaries, receipts>>
    BY DEF CloseEpoch
  <1>2. /\ e \in Epoch /\ batch # {} /\ batch \subseteq receipts
        /\ \A r \in batch : r.epoch = e
    BY <1>1, RunFacts DEF Run
  <1>3. log.summaries \in [Epoch -> Nat]
    BY DEF TypeInv, TableTypes
  <1>4. Groups(batch) \subseteq BookedIn(summaries, e)
    BY <1>1 DEF SummaryInv, RunsInv, Accounted
  <1>5. log.summaries[e] = 0
    <2> SUFFICES ASSUME log.summaries[e] # 0
                 PROVE  FALSE
      OBVIOUS
    <2>1. PICK b \in SUBSET receipts : Closed(e, b)
      BY <1>2 DEF SummaryInv, ClosedInv
    <2>2. b # {} /\ Apart(b, batch, {})
      BY <1>1, <2>1 DEF Closed
    <2>3. QED
      BY <1>2, <2>2, GroupShared DEF Apart
  <1>6. \A q \in Slot : Batched(task'[q]) => q # p /\ task'[q] = task[q]
    BY <1>1
  <1>7. RunsInv'
    <2>1. ASSUME NEW q \in Slot, Batched(task'[q])
          PROVE  Accounted(task'[q], BookedIn(summaries', task'[q].epoch))
      BY <1>1, <1>6, <2>1 DEF SummaryInv, RunsInv
    <2>2. ASSUME NEW x \in Slot, NEW q \in Slot, x # q, Batched(task'[x]), Batched(task'[q]),
                 task'[x].epoch = task'[q].epoch
          PROVE  Disjoint(task'[x], task'[q])
      BY <1>6, <2>2 DEF SummaryInv, RunsInv
    <2>3. QED
      BY <2>1, <2>2, RunsMade
  <1>8. ASSUME NEW q \in Slot, Batched(task'[q]), task'[q].epoch = e
        PROVE  Apart(batch, task'[q].batch, Unbooked(task'[q]))
    <2>1. q # p /\ task'[q] = task[q]
      BY <1>6, <1>8
    <2>2. Disjoint(task[p], task[q])
      BY <1>1, <1>8, <2>1 DEF SummaryInv, RunsInv
    <2>3. QED
      BY <1>1, <2>1, <2>2 DEF Disjoint
  <1> HIDE DEF batch, e
  <1>9. PICK b0 \in SUBSET receipts :
          /\ b0 # {} /\ \A r \in b0 : r.epoch = e
          /\ Groups(b0) \subseteq BookedIn(summaries, e)
          /\ \A q \in Slot : Batched(task'[q]) /\ task'[q].epoch = e
                             => Apart(b0, task'[q].batch, Unbooked(task'[q]))
    BY <1>2, <1>4, <1>8
  <1>10. ClosedInv'
    <2> SUFFICES ASSUME NEW d \in Epoch
                 PROVE  /\ log'.summaries[d] <= 1
                        /\ log'.summaries[d] # 0 => \E b \in SUBSET receipts' : Closed(d, b)'
      BY DEF ClosedInv, Closed, Batched, Apart, Unbooked, BookedIn
    <2>1. CASE d = e
      <3>1. log'.summaries[d] = 1
        BY <1>1, <1>3, <1>5, <2>1
      <3>2. Closed(d, b0)'
        BY <1>1, <1>9, <2>1, ClosedMade
      <3>3. QED
        BY <1>1, <1>9, <3>1, <3>2
    <2>2. CASE d # e
      <3>1. log'.summaries[d] = log.summaries[d]
        BY <1>1, <1>3, <2>2
      <3>2. log.summaries[d] <= 1
        BY DEF SummaryInv, ClosedInv
      <3>3. ASSUME log'.summaries[d] # 0
            PROVE  \E b \in SUBSET receipts' : Closed(d, b)'
        <4>1. PICK b \in SUBSET receipts : Closed(d, b)
          BY <3>1, <3>3 DEF SummaryInv, ClosedInv
        <4>2. \A q \in Slot : Batched(task'[q]) /\ task'[q].epoch = d
                => Apart(b, task'[q].batch, Unbooked(task'[q]))
          BY <1>6, <4>1 DEF Closed
        <4>3. Closed(d, b)'
          BY <1>1, <4>1, <4>2, ClosedMade DEF Closed
        <4>4. QED
          BY <1>1, <4>3
      <3>4. QED
        BY <3>1, <3>2, <3>3
    <2>3. QED
      BY <2>1, <2>2
  <1>11. QED
    BY <1>7, <1>10 DEF SummaryInv

LEMMA SummaryStep == TypeInv /\ SummaryInv /\ [Next]_vars => SummaryInv'
  BY RunEffect, CalmKeeps, FetchKeeps, WriteKeeps, CloseKeeps

\* However many settlements of an epoch overlap, and wherever they are stopped,
\* at most one of them appends the epoch's summary to the log.
THEOREM OneSummary == Spec => []OneSummaryEvent
  <1>1. SummaryInv => OneSummaryEvent
    BY DEF SummaryInv, ClosedInv, OneSummaryEvent
  <1>2. QED
    BY <1>1, TypeInit, TypeStep, SummaryInit, SummaryStep, PTL DEF Spec

-------------------------------------------------------------------------------
(* Charges.                                                                *)

\* A run on e that has not reached its end, waiting for nothing or for call d.
RunsOn(t, e) == t.pc \in {"fetch", "cids", "debit", "bid"} /\ t.epoch = e

\* A run that may still charge the pool of c for e.
MayStill(t, d, e, c) ==
  /\ RunsOn(t, e)
  /\ \/ t.pc = "fetch"
     \/ c \in t.cids
     \/ t.pc = "debit" /\ d.key = c /\ d.op \in {"check", "decrement"}

Runs(e) == {p \in Slot : RunsOn(task[p], e)}

MayCharge(e, c) == {p \in Slot : MayStill(task[p], call[p], e, c)}

\* Before the first row of e, every charge of c is that of a run that is still
\* there, or was stopped.  And there are never more charges, made or to come,
\* than slots and runs that were stopped.
ChargesInv ==
  \A e \in Epoch, c \in PoolKey :
    /\ SummariesOf(e) = {}
         => charges[e][c].times <= Cardinality(Runs(e) \ MayCharge(e, c)) + aborts
    /\ charges[e][c].times + Cardinality(MayCharge(e, c)) <= Cardinality(Slot) + aborts

\* What a step may do to the runs on e and to the charges of c for e.

Others(p) == \A q \in Slot \ {p} : task'[q] = task[q] /\ call'[q] = call[q]

NotMore(p, e, c) ==
  /\ MayStill(task'[p], call'[p], e, c) => MayStill(task[p], call[p], e, c)
  /\ RunsOn(task[p], e) /\ ~ MayStill(task[p], call[p], e, c)
       => RunsOn(task'[p], e) \/ \E s \in summaries' : s.epoch = e

Steady(e, c) ==
  /\ charges'[e][c].times = charges[e][c].times /\ aborts' = aborts
  /\ summaries \subseteq summaries'
  /\ \A q \in Slot : NotMore(q, e, c)

Started(p, e, c) ==
  /\ SummariesOf(e) = {}
  /\ ~ RunsOn(task[p], e) /\ MayStill(task'[p], call'[p], e, c) /\ Others(p)
  /\ UNCHANGED <<charges, aborts, summaries>>

Charged(p, e, c) ==
  /\ MayStill(task[p], call[p], e, c) /\ RunsOn(task'[p], e)
  /\ ~ MayStill(task'[p], call'[p], e, c) /\ Others(p)
  /\ charges'[e][c].times = charges[e][c].times + 1
  /\ UNCHANGED <<aborts, summaries>>

Stopped(p, e) ==
  /\ ~ RunsOn(task'[p], e) /\ Others(p)
  /\ aborts' = aborts + 1
  /\ UNCHANGED <<charges, summaries>>

LEMMA RunCounts ==
  ASSUME NEW e, NEW c
  PROVE  /\ IsFiniteSet(Runs(e)) /\ IsFiniteSet(MayCharge(e, c))
         /\ MayCharge(e, c) \subseteq Runs(e)
         /\ Cardinality(Slot) \in Nat /\ Cardinality(Runs(e)) \in Nat
         /\ Cardinality(MayCharge(e, c)) \in Nat
         /\ IsFiniteSet(Runs(e) \ MayCharge(e, c))
         /\ Cardinality(Runs(e) \ MayCharge(e, c)) \in Nat
         /\ Cardinality(Runs(e)) = Cardinality(MayCharge(e, c)) + Cardinality(Runs(e) \ MayCharge(e, c))
  <1> DEFINE R == Runs(e)
             M == MayCharge(e, c)
  <1>1. R \subseteq Slot /\ M \subseteq R
    BY DEF Runs, MayCharge, MayStill
  <1>2. R \cap M = M
    BY <1>1
  <1> HIDE DEF R, M
  <1>3. IsFiniteSet(Slot) /\ IsFiniteSet(R) /\ IsFiniteSet(M) /\ IsFiniteSet(R \ M)
    BY <1>1, FinitelyMany, FS_Subset
  <1>4. /\ Cardinality(Slot) \in Nat /\ Cardinality(R) \in Nat
        /\ Cardinality(M) \in Nat /\ Cardinality(R \ M) \in Nat
    BY <1>3, FS_CardinalityType
  <1>5. Cardinality(R \ M) = Cardinality(R) - Cardinality(R \cap M)
    BY <1>3, FS_Difference
  <1>6. Cardinality(R) = Cardinality(M) + Cardinality(R \ M)
    BY <1>2, <1>4, <1>5
  <1>7. QED
    BY <1>1, <1>3, <1>4, <1>6 DEF R, M

LEMMA ChargesInit == Init => ChargesInv
  <1> SUFFICES ASSUME Init, NEW e \in Epoch, NEW c \in PoolKey
               PROVE  /\ charges[e][c].times <= Cardinality(Runs(e) \ MayCharge(e, c)) + aborts
                      /\ charges[e][c].times + Cardinality(MayCharge(e, c))
                           <= Cardinality(Slot) + aborts
    BY DEF ChargesInv
  <1>1. \A p \in Slot : task[p].pc = "idle"
    BY DEF Init, PinInit, Idle
  <1>2. charges[e][c].times = 0 /\ MayCharge(e, c) = {} /\ aborts = 0
    BY <1>1 DEF Init, SettleInit, MayCharge, MayStill, RunsOn
  <1>3. Cardinality(MayCharge(e, c)) = 0
    BY <1>2, FS_EmptySet
  <1>4. Cardinality(Slot) \in Nat /\ Cardinality(Runs(e) \ MayCharge(e, c)) \in Nat
    BY RunCounts
  <1>5. QED
    BY <1>2, <1>3, <1>4

\* The invariant for one epoch and CID, from the sets and numbers after a step.
LEMMA ChargesMade ==
  ASSUME \A e \in Epoch, c \in PoolKey :
           /\ SummariesOf(e)' = {}
                => charges'[e][c].times <= Cardinality(Runs(e)' \ MayCharge(e, c)') + aborts'
           /\ charges'[e][c].times + Cardinality(MayCharge(e, c)') <= Cardinality(Slot) + aborts'
  PROVE  ChargesInv'
  BY DEF ChargesInv, SummariesOf, Runs, MayCharge

ChargesNext(e, c) ==
  /\ SummariesOf(e)' = {}
       => charges'[e][c].times <= Cardinality(Runs(e)' \ MayCharge(e, c)') + aborts'
  /\ charges'[e][c].times + Cardinality(MayCharge(e, c)') <= Cardinality(Slot) + aborts'

\* What the invariant says before a step, and the sets after it.
LEMMA ChargesFacts ==
  ASSUME TypeInv, ChargesInv, NEW e \in Epoch, NEW c \in PoolKey
  PROVE  /\ charges[e][c].times \in Nat /\ aborts \in Nat
         /\ SummariesOf(e) = {}
              => charges[e][c].times <= Cardinality(Runs(e) \ MayCharge(e, c)) + aborts
         /\ charges[e][c].times + Cardinality(MayCharge(e, c)) <= Cardinality(Slot) + aborts
         /\ IsFiniteSet(Runs(e)') /\ IsFiniteSet(MayCharge(e, c)')
         /\ Cardinality(MayCharge(e, c)') \in Nat
         /\ IsFiniteSet(Runs(e)' \ MayCharge(e, c)')
         /\ Cardinality(Runs(e)' \ MayCharge(e, c)') \in Nat
  <1>1. charges[e][c].times \in Nat /\ aborts \in Nat
    BY DEF TypeInv, TableTypes
  <1>2. Runs(e)' \subseteq Slot /\ MayCharge(e, c)' \subseteq Slot
    BY DEF Runs, MayCharge
  <1>3. IsFiniteSet(Runs(e)') /\ IsFiniteSet(MayCharge(e, c)')
    BY <1>2, FinitelyMany, FS_Subset
  <1>4. IsFiniteSet(Runs(e)' \ MayCharge(e, c)')
    BY <1>3, FS_Difference
  <1>5. Cardinality(MayCharge(e, c)') \in Nat /\ Cardinality(Runs(e)' \ MayCharge(e, c)') \in Nat
    BY <1>3, <1>4, FS_CardinalityType
  <1>6. QED
    BY <1>1, <1>3, <1>4, <1>5 DEF ChargesInv

LEMMA SteadyKeeps ==
  ASSUME TypeInv, ChargesInv, NEW e \in Epoch, NEW c \in PoolKey, Steady(e, c)
  PROVE  ChargesNext(e, c)
  <1> DEFINE R == Runs(e)
             M == MayCharge(e, c)
             R1 == Runs(e)'
             M1 == MayCharge(e, c)'
  <1>1. M1 \subseteq M
    BY DEF Steady, NotMore, MayCharge
  <1>2. ASSUME SummariesOf(e)' = {}
        PROVE  SummariesOf(e) = {} /\ R \ M \subseteq R1 \ M1
    BY <1>1, <1>2 DEF Steady, NotMore, SummariesOf, Runs, MayCharge
  <1>3. Cardinality(M1) <= Cardinality(M)
    BY <1>1, RunCounts, FS_Subset
  <1>4. ASSUME SummariesOf(e)' = {}
        PROVE  Cardinality(R \ M) <= Cardinality(R1 \ M1)
    <2> HIDE DEF R, M, R1, M1
    <2>1. IsFiniteSet(R1 \ M1)
      BY ChargesFacts DEF R1, M1
    <2>2. QED
      BY <1>2, <1>4, <2>1, FS_Subset
  <1>5. charges'[e][c].times = charges[e][c].times /\ aborts' = aborts
    BY DEF Steady
  <1>6. /\ Cardinality(R \ M) \in Nat /\ Cardinality(M) \in Nat /\ Cardinality(Slot) \in Nat
        /\ Cardinality(R1 \ M1) \in Nat /\ Cardinality(M1) \in Nat
        /\ charges[e][c].times \in Nat /\ aborts \in Nat
        /\ SummariesOf(e) = {} => charges[e][c].times <= Cardinality(R \ M) + aborts
        /\ charges[e][c].times + Cardinality(M) <= Cardinality(Slot) + aborts
    BY RunCounts, ChargesFacts
  <1> HIDE DEF R, M, R1, M1
  <1>7. SummariesOf(e)' = {} => charges'[e][c].times <= Cardinality(R1 \ M1) + aborts'
    BY <1>2, <1>4, <1>5, <1>6
  <1>8. charges'[e][c].times + Cardinality(M1) <= Cardinality(Slot) + aborts'
    BY <1>3, <1>5, <1>6
  <1>9. QED
    BY <1>7, <1>8 DEF ChargesNext, R1, M1

\* A run that starts has a slot no other run has.
LEMMA StartedKeeps ==
  ASSUME TypeInv, ChargesInv, NEW e \in Epoch, NEW c \in PoolKey, NEW p \in Slot, Started(p, e, c)
  PROVE  ChargesNext(e, c)
  <1> DEFINE R == Runs(e)
             M == MayCharge(e, c)
             R1 == Runs(e)'
             M1 == MayCharge(e, c)'
  <1>1. /\ p \notin R /\ R1 = R \cup {p} /\ M1 = M \cup {p} /\ M \subseteq R /\ R \subseteq Slot
    BY DEF Started, Others, Runs, MayCharge, MayStill
  <1>2. /\ IsFiniteSet(R) /\ IsFiniteSet(M) /\ IsFiniteSet(Slot)
        /\ Cardinality(R) = Cardinality(M) + Cardinality(R \ M)
        /\ Cardinality(R \ M) \in Nat /\ Cardinality(M) \in Nat /\ Cardinality(Slot) \in Nat
    BY RunCounts, FinitelyMany
  <1>3. /\ SummariesOf(e) = {}
        /\ charges[e][c].times \in Nat /\ aborts \in Nat
        /\ charges[e][c].times <= Cardinality(R \ M) + aborts
        /\ charges'[e][c].times = charges[e][c].times /\ aborts' = aborts
    BY ChargesFacts DEF Started
  <1> HIDE DEF R, M, R1, M1
  <1>4. R1 \ M1 = R \ M
    BY <1>1
  <1>5. Cardinality(M1) = Cardinality(M) + 1 /\ Cardinality(R1) = Cardinality(R) + 1
    BY <1>1, <1>2, FS_AddElement
  <1>6. Cardinality(R1) <= Cardinality(Slot)
    BY <1>1, <1>2, FS_Subset
  <1>7. charges'[e][c].times <= Cardinality(R1 \ M1) + aborts'
    BY <1>3, <1>4
  <1>8. charges'[e][c].times + Cardinality(M1) <= Cardinality(Slot) + aborts'
    BY <1>2, <1>3, <1>5, <1>6
  <1>9. QED
    BY <1>7, <1>8 DEF ChargesNext, R1, M1

LEMMA ChargedKeeps ==
  ASSUME TypeInv, ChargesInv, NEW e \in Epoch, NEW c \in PoolKey, NEW p \in Slot, Charged(p, e, c)
  PROVE  ChargesNext(e, c)
  <1> DEFINE R == Runs(e)
             M == MayCharge(e, c)
             R1 == Runs(e)'
             M1 == MayCharge(e, c)'
  <1>1. p \in M /\ R1 = R /\ M1 = M \ {p} /\ M \subseteq R
    BY DEF Charged, Others, Runs, MayCharge, MayStill
  <1>2. /\ IsFiniteSet(R) /\ IsFiniteSet(M) /\ IsFiniteSet(R \ M)
        /\ Cardinality(R \ M) \in Nat /\ Cardinality(M) \in Nat /\ Cardinality(Slot) \in Nat
    BY RunCounts
  <1>3. /\ charges[e][c].times \in Nat /\ aborts \in Nat
        /\ SummariesOf(e) = {} => charges[e][c].times <= Cardinality(R \ M) + aborts
        /\ charges[e][c].times + Cardinality(M) <= Cardinality(Slot) + aborts
    BY ChargesFacts
  <1>4. /\ charges'[e][c].times = charges[e][c].times + 1 /\ aborts' = aborts
        /\ SummariesOf(e)' = SummariesOf(e)
    BY DEF Charged, SummariesOf
  <1> HIDE DEF R, M, R1, M1
  <1>5. R1 \ M1 = (R \ M) \cup {p} /\ p \notin R \ M
    BY <1>1
  <1>6. Cardinality(R1 \ M1) = Cardinality(R \ M) + 1
    BY <1>2, <1>5, FS_AddElement
  <1>7. Cardinality(M1) = Cardinality(M) - 1
    BY <1>1, <1>2, FS_RemoveElement
  <1>8. SummariesOf(e)' = {} => charges'[e][c].times <= Cardinality(R1 \ M1) + aborts'
    BY <1>2, <1>3, <1>4, <1>6
  <1>9. charges'[e][c].times + Cardinality(M1) <= Cardinality(Slot) + aborts'
    BY <1>2, <1>3, <1>4, <1>7
  <1>10. QED
    BY <1>8, <1>9 DEF ChargesNext, R1, M1

LEMMA StoppedKeeps ==
  ASSUME TypeInv, ChargesInv, NEW e \in Epoch, NEW c \in PoolKey, NEW p \in Slot, Stopped(p, e)
  PROVE  ChargesNext(e, c)
  <1> DEFINE R == Runs(e)
             M == MayCharge(e, c)
             R1 == Runs(e)'
             M1 == MayCharge(e, c)'
  <1>1. R1 \ M1 = (R \ M) \ {p} /\ M1 \subseteq M
    BY DEF Stopped, Others, Runs, MayCharge, MayStill
  <1>2. /\ IsFiniteSet(M) /\ IsFiniteSet(R \ M) /\ Cardinality(M1) \in Nat
        /\ Cardinality(R \ M) \in Nat /\ Cardinality(M) \in Nat /\ Cardinality(Slot) \in Nat
    BY RunCounts, ChargesFacts
  <1>3. /\ charges[e][c].times \in Nat /\ aborts \in Nat
        /\ SummariesOf(e) = {} => charges[e][c].times <= Cardinality(R \ M) + aborts
        /\ charges[e][c].times + Cardinality(M) <= Cardinality(Slot) + aborts
    BY ChargesFacts
  <1>4. /\ charges'[e][c].times = charges[e][c].times /\ aborts' = aborts + 1
        /\ SummariesOf(e)' = SummariesOf(e)
    BY DEF Stopped, SummariesOf
  <1> HIDE DEF R, M, R1, M1
  <1>5. Cardinality(R1 \ M1) >= Cardinality(R \ M) - 1 /\ Cardinality(R1 \ M1) \in Nat
    <2> DEFINE B == R \ M
    <2>1. IsFiniteSet(B) /\ Cardinality(B) \in Nat
      BY <1>2
    <2> HIDE DEF B
    <2>2. IsFiniteSet(B \ {p}) /\ Cardinality(B \ {p}) \in Nat
      BY <2>1, FS_RemoveElement, FS_CardinalityType
    <2>3. Cardinality(B \ {p}) = IF p \in B THEN Cardinality(B) - 1 ELSE Cardinality(B)
      BY <2>1, FS_RemoveElement
    <2>4. Cardinality(B \ {p}) >= Cardinality(B) - 1
      BY <2>1, <2>3
    <2>5. QED
      BY <1>1, <2>2, <2>4 DEF B
  <1>6. Cardinality(M1) <= Cardinality(M)
    BY <1>1, <1>2, FS_Subset
  <1>7. SummariesOf(e)' = {} => charges'[e][c].times <= Cardinality(R1 \ M1) + aborts'
    BY <1>2, <1>3, <1>4, <1>5
  <1>8. charges'[e][c].times + Cardinality(M1) <= Cardinality(Slot) + aborts'
    BY <1>2, <1>3, <1>4, <1>6
  <1>9. QED
    BY <1>7, <1>8 DEF ChargesNext, R1, M1

LEMMA SteadyOutside ==
  ASSUME TypeInv, NEW p \in Slot, NEW t, NEW d, Await(p, t, d),
         task[p].pc \notin {"fetch", "cids", "debit", "bid"},
         t.pc \notin {"fetch", "cids", "debit", "bid"},
         UNCHANGED <<charges, aborts, summaries>>
  PROVE  \A e \in Epoch, c \in PoolKey : Steady(e, c)
  <1>1. /\ task'[p] = t /\ call'[p] = d
        /\ \A q \in Slot \ {p} : task'[q] = task[q] /\ call'[q] = call[q]
    BY AwaitSlots
  <1>2. QED
    BY <1>1 DEF Steady, NotMore, MayStill, RunsOn

LEMMA SteadyElsewhere ==
  ASSUME UNCHANGED <<task, call, charges, aborts, summaries>>
  PROVE  \A e \in Epoch, c \in PoolKey : Steady(e, c)
  BY DEF Steady, NotMore

LEMMA StartEffect ==
  ASSUME TypeInv, NEW p \in Slot, NEW d \in Epoch, StartSettle(p, d), UNCHANGED aborts,
         NEW e \in Epoch, NEW c \in PoolKey
  PROVE  Steady(e, c) \/ Started(p, e, c)
  <1> DEFINE h == SettleTask("fetch", d, {}, {}, {}, <<>>, NothingLogged)
  <1>1. /\ task[p].pc = "idle" /\ SummariesOf(d) = {} /\ Await(p, h, NoCall)
        /\ UNCHANGED <<charges, aborts, summaries>>
    BY DEF StartSettle, settleVars, Free, Idle
  <1>2. h.pc = "fetch" /\ h.epoch = d
    BY DEF SettleTask
  <1> HIDE DEF h
  <1>3. task'[p] = h /\ Others(p)
    BY <1>1, AwaitSlots DEF Others
  <1>4. CASE e = d
    BY <1>1, <1>2, <1>3, <1>4 DEF Started, MayStill, RunsOn
  <1>5. CASE e # d
    <2>1. ~ RunsOn(task'[p], e) /\ ~ MayStill(task'[p], call'[p], e, c) /\ ~ RunsOn(task[p], e)
      BY <1>1, <1>2, <1>3, <1>5 DEF MayStill, RunsOn
    <2>2. QED
      BY <1>1, <1>3, <2>1 DEF Steady, NotMore, Others
  <1>6. QED
    BY <1>4, <1>5

\* A run without receipts has charged nothing.
LEMMA FetchCharges ==
  ASSUME TypeInv, NEW p \in Slot, FetchReceipts(p), UNCHANGED aborts,
         NEW e \in Epoch, NEW c \in PoolKey
  PROVE  Steady(e, c)
  <1> DEFINE f == task[p].epoch
             batch == {r \in receipts : r.epoch = f}
             t == SettleTask("cids", f, batch, EligibleCids(batch), AutoBidCids(batch),
                             IneligibleRows(f, batch), NothingLogged)
  <1>1. /\ task[p].pc = "fetch" /\ UNCHANGED <<charges, aborts, summaries>>
        /\ Await(p, Idle, NoCall) \/ Await(p, t, NoCall)
    BY DEF FetchReceipts, settleVars, Reply
  <1>2. t.pc = "cids" /\ t.epoch = f /\ Idle.pc = "idle"
    BY DEF SettleTask, Idle
  <1> HIDE DEF t
  <1>3. (task'[p] = Idle \/ task'[p] = t) /\ Others(p)
    BY <1>1, AwaitSlots DEF Others
  <1>4. RunsOn(task[p], e) => MayStill(task[p], call[p], e, c)
    BY <1>1 DEF MayStill
  <1>5. MayStill(task'[p], call'[p], e, c) => RunsOn(task[p], e)
    BY <1>1, <1>2, <1>3 DEF MayStill, RunsOn
  <1>6. QED
    BY <1>1, <1>3, <1>4, <1>5 DEF Steady, NotMore, Others

LEMMA TurnCharges ==
  ASSUME TypeInv, NEW p \in Slot, SettleTurn(p), UNCHANGED aborts,
         NEW e \in Epoch, NEW c \in PoolKey
  PROVE  Steady(e, c)
  <1>1. PICK t \in Run, w \in SweepType : \E d : Turn(p, t, d, w)
    BY TurnStep
  <1>2. PICK d : Turn(p, t, d, w)
    BY <1>1
  <1>3. task'[p] = t /\ call'[p] = d /\ Others(p)
    BY <1>2, AwaitSlots DEF Turn, Others
  <1>4. /\ Batched(task[p]) /\ Batched(t) /\ t.epoch = task[p].epoch
        /\ t.cids \subseteq task[p].cids /\ (t.pc = "debit" => d.key \in task[p].cids)
        /\ UNCHANGED <<charges, aborts, summaries>>
    BY <1>2 DEF Turn, settleVars
  <1>5. MayStill(t, d, e, c) => MayStill(task[p], call[p], e, c)
    BY <1>4 DEF MayStill, RunsOn, Batched
  <1>6. RunsOn(task[p], e) => RunsOn(t, e)
    BY <1>4 DEF RunsOn, Batched
  <1>7. QED
    BY <1>3, <1>4, <1>5, <1>6 DEF Steady, NotMore, Others

\* A run that a row stops leaves that row.
LEMMA PersistCharges ==
  ASSUME TypeInv, NEW p \in Slot, PersistSummary(p), UNCHANGED aborts,
         NEW e \in Epoch, NEW c \in PoolKey
  PROVE  Steady(e, c)
  <1> DEFINE r == task[p]
             t == [r EXCEPT !.rows = Tail(@)]
             row == Head(r.rows)
             duplicate == \E s \in SummariesOf(row.epoch) : s.host = row.host /\ s.cid = row.cid
  <1>1. /\ r.pc = "cids" /\ r.cids = {} /\ r.rows # <<>> /\ UNCHANGED <<charges, aborts>>
        /\ summaries \subseteq summaries'
        /\ \/ duplicate /\ Await(p, Idle, NoCall)
           \/ Await(p, t, NoCall)
    BY DEF PersistSummary, BetweenCids, Reply
  <1>2. r \in Run /\ \A n \in 1..Len(r.rows) : r.rows[n].epoch = r.epoch
    BY <1>1, RunFacts DEF Batched
  <1>3. ~ MayStill(task'[p], call'[p], e, c)
    <2>1. t.pc = "cids" /\ t.cids = {}
      BY <1>1, <1>2 DEF Run
    <2>2. Idle.pc = "idle"
      BY DEF Idle
    <2>3. task'[p] = t \/ task'[p] = Idle
      BY <1>1, AwaitSlots
    <2> HIDE DEF t
    <2>4. QED
      BY <2>1, <2>2, <2>3 DEF MayStill, RunsOn
  <1>4. RunsOn(r, e) => RunsOn(task'[p], e) \/ \E s \in summaries' : s.epoch = e
    <2> DEFINE rows == r.rows
    <2>1. rows \in Seq(RowType) /\ rows # <<>> /\ \A n \in 1..Len(rows) : rows[n].epoch = r.epoch
      BY <1>1, <1>2 DEF Run
    <2> HIDE DEF rows
    <2>2. Head(rows).epoch = r.epoch
      BY <2>1, KeysTail
    <2>3. CASE duplicate
      BY <1>1, <2>2, <2>3 DEF SummariesOf, RunsOn, rows
    <2>4. CASE Await(p, t, NoCall)
      <3>1. task'[p] = t
        BY <2>4, AwaitSlots
      <3>2. t.pc = r.pc /\ t.epoch = r.epoch
        BY <1>2 DEF Run
      <3>3. QED
        BY <3>1, <3>2 DEF RunsOn
    <2>5. QED
      BY <1>1, <2>3, <2>4
  <1>5. Others(p)
    BY <1>1, AwaitSlots DEF Others
  <1>6. QED
    BY <1>1, <1>3, <1>4, <1>5 DEF Steady, NotMore, Others

\* A run that comes to its end leaves the rows of its batch.
LEMMA SummaryCharges ==
  ASSUME TypeInv, SummaryInv, NEW p \in Slot, AppendSummary(p), UNCHANGED aborts,
         NEW e \in Epoch, NEW c \in PoolKey
  PROVE  Steady(e, c)
  <1>1. /\ UNCHANGED <<charges, aborts, summaries>> /\ Await(p, Idle, NoCall)
    BY DEF AppendSummary, settleVars, Reply
  <1>2. task'[p] = Idle /\ Others(p)
    BY <1>1, AwaitSlots DEF Others
  <1>3. Batched(task[p]) /\ Unbooked(task[p]) = {}
    BY SummaryEffect DEF CloseEpoch
  <1>4. task[p].batch # {}
    BY <1>3, RunFacts
  <1>5. Groups(task[p].batch) \subseteq BookedIn(summaries, task[p].epoch)
    BY <1>3 DEF SummaryInv, RunsInv, Accounted
  <1>6. \E s \in summaries : s.epoch = task[p].epoch
    BY <1>4, <1>5 DEF BookedIn, Groups
  <1>7. ~ RunsOn(Idle, e)
    BY DEF RunsOn, Idle
  <1>8. QED
    BY <1>1, <1>2, <1>6, <1>7 DEF Steady, NotMore, MayStill, RunsOn, Others

LEMMA CallCharges ==
  ASSUME TypeInv, NEW p \in Slot, RunPoolCall(p), UNCHANGED aborts,
         NEW e \in Epoch, NEW c \in PoolKey
  PROVE  Steady(e, c) \/ Charged(p, e, c)
  <1>1. /\ PoolStep(p) /\ UNCHANGED <<task, summaries, aborts>>
        /\ charges' =
             IF task[p].pc = "debit" /\ call[p].op = "decrement"
             THEN [charges EXCEPT ![task[p].epoch][call[p].key] =
                     [times |-> @.times + 1, sats |-> @.sats + call[p].amount]]
             ELSE charges
    BY DEF RunPoolCall, pinVars
  <1>2. charges \in [Epoch -> [PoolKey -> [times : Nat, sats : Nat]]]
    BY DEF TypeInv, TableTypes
  <1>3. Others(p)
    BY <1>1, CallRuns DEF Others
  <1>4. CASE task[p].pc = "debit" /\ call[p].op = "decrement"
    <2> DEFINE f == task[p].epoch
               k == call[p].key
               new == [times |-> charges[f][k].times + 1, sats |-> charges[f][k].sats + call[p].amount]
    <2>1. f \in Epoch /\ k \in PoolKey
      BY <1>4, RunTask DEF Run, TypeInv, IInv, PoolTypeOK
    <2>2. k \notin task[p].cids
      BY <1>4 DEF TypeInv, Locals, Local
    <2>3. call'[p].op = "done" /\ call'[p].key = k
      BY <1>1, <1>4, CallRuns
    <2>4. charges' = [charges EXCEPT ![f][k] = new]
      BY <1>1, <1>4
    <2>5. new.times = charges[f][k].times + 1
      OBVIOUS
    <2> HIDE DEF new, f, k
    <2>6. CASE e = f /\ c = k
      <3>1. charges'[e][c].times = charges[e][c].times + 1
        BY <1>2, <2>1, <2>4, <2>5, <2>6
      <3>2. MayStill(task[p], call[p], e, c) /\ RunsOn(task'[p], e)
            /\ ~ MayStill(task'[p], call'[p], e, c)
        BY <1>1, <1>4, <2>2, <2>3, <2>6 DEF MayStill, RunsOn, f, k
      <3>3. QED
        BY <1>1, <1>3, <3>1, <3>2 DEF Charged
    <2>7. CASE ~ (e = f /\ c = k)
      <3>1. charges'[e][c].times = charges[e][c].times
        BY <1>2, <2>1, <2>4, <2>7
      <3>2. MayStill(task'[p], call'[p], e, c) => MayStill(task[p], call[p], e, c)
        BY <1>1, <1>4, <2>3 DEF MayStill, RunsOn
      <3>3. QED
        BY <1>1, <1>3, <3>1, <3>2 DEF Steady, NotMore, Others
    <2>8. QED
      BY <2>6, <2>7
  <1>5. CASE ~ (task[p].pc = "debit" /\ call[p].op = "decrement")
    <2>1. charges' = charges
      BY <1>1, <1>5
    <2>2. MayStill(task'[p], call'[p], e, c) => MayStill(task[p], call[p], e, c)
      BY <1>1, <1>5, CallRuns DEF MayStill
    <2>3. QED
      BY <1>1, <1>3, <2>1, <2>2 DEF Steady, NotMore, Others
  <1>6. QED
    BY <1>4, <1>5

LEMMA ChargeEffect ==
  ASSUME TypeInv, SummaryInv, [Next]_vars, NEW e \in Epoch, NEW c \in PoolKey
  PROVE  Steady(e, c) \/ \E p \in Slot : Started(p, e, c) \/ Charged(p, e, c) \/ Stopped(p, e)
  <1>1. ASSUME NEW p \in Slot, Request(p)
        PROVE  Steady(e, c) \/ Started(p, e, c)
    <2>1. CASE \E t \in Tip : ReceiveTip(p, t)
      BY <2>1, SteadyOutside DEF ReceiveTip, settleVars, Free, Idle
    <2>2. CASE \E r \in Receipt : ReceiveReceipt(p, r)
      BY <2>2, SteadyOutside DEF ReceiveReceipt, settleVars, Free, Idle
    <2>3. CASE \E i \in Pin : CreatePin(p, i) /\ UNCHANGED <<settleVars, tips, aborts>>
      BY <2>3, SteadyOutside DEF CreatePin, settleVars, Free, Idle
    <2>4. CASE \E i \in Pin : ReadPin(p, i) /\ UNCHANGED <<settleVars, tips, aborts>>
      BY <2>4, SteadyOutside DEF ReadPin, settleVars, Free, Idle
    <2>5. CASE \E d \in Epoch : StartSettle(p, d) /\ UNCHANGED <<tips, aborts>>
      BY <2>5, StartEffect
    <2>6. QED
      BY <1>1, <2>1, <2>2, <2>3, <2>4, <2>5 DEF Request
  <1>2. ASSUME NEW p \in Slot, PinStep(p), UNCHANGED <<settleVars, tips, aborts>>
        PROVE  Steady(e, c)
    <2>1. UNCHANGED <<charges, aborts, summaries>>
      BY <1>2 DEF settleVars
    <2>2. CASE AppendPinCreate(p) \/ AppendPinCancel(p)
      BY <2>1, <2>2, SteadyOutside DEF AppendPinCreate, AppendPinCancel, Reply, Idle
    <2>3. CASE CancelPin(p)
      <3> DEFINE h == [task[p] EXCEPT !.pc = "cancelLog"]
      <3>1. h.pc = "cancelLog" /\ task[p].pc = "cancel"
        BY <2>3, PinTask DEF CancelPin
      <3>2. Await(p, h, NoCall)
        BY <2>3 DEF CancelPin
      <3> HIDE DEF h
      <3>3. QED
        BY <2>1, <3>1, <3>2, SteadyOutside
    <2>4. CASE ListActivePins(p) \/ \E i \in Pin : DrainPin(p, i)
      BY <2>1, <2>4, SteadyElsewhere DEF ListActivePins, DrainPin, poolVars
    <2>5. QED
      BY <1>2, <2>2, <2>3, <2>4 DEF PinStep
  <1>3. ASSUME NEW p \in Slot, AppendTip(p) \/ StoreReceipt(p)
        PROVE  Steady(e, c)
    BY <1>3, SteadyOutside DEF AppendTip, StoreReceipt, Reply, settleVars, Idle
  <1>4. ASSUME NEW p \in Slot, SettleStep(p), UNCHANGED <<tips, aborts>>
        PROVE  Steady(e, c) \/ Charged(p, e, c)
    BY <1>4, SettleSteps, FetchCharges, TurnCharges, PersistCharges, SummaryCharges, CallCharges
  <1>5. ASSUME NEW p \in Slot, Abort(p)
        PROVE  Stopped(p, e)
    <2>1. Await(p, Idle, NoCall) /\ UNCHANGED <<charges, summaries>> /\ aborts' = aborts + 1
      BY <1>5 DEF Abort, Reply, settleVars
    <2>2. ~ RunsOn(Idle, e)
      BY DEF RunsOn, Idle
    <2>3. QED
      BY <2>1, <2>2, AwaitSlots DEF Stopped, Others
  <1>6. CASE Tick \/ Quiet \/ UNCHANGED vars
    BY <1>6, SteadyElsewhere DEF Tick, Quiet, vars, poolVars, pinVars, settleVars
  <1>7. QED
    BY <1>1, <1>2, <1>3, <1>4, <1>5, <1>6 DEF Next, Continue

LEMMA ChargesStep == TypeInv /\ SummaryInv /\ ChargesInv /\ [Next]_vars => ChargesInv'
  <1> SUFFICES ASSUME TypeInv, SummaryInv, ChargesInv, [Next]_vars
               PROVE  ChargesInv'
    OBVIOUS
  <1>1. ASSUME NEW e \in Epoch, NEW c \in PoolKey
        PROVE  ChargesNext(e, c)
    BY ChargeEffect, SteadyKeeps, StartedKeeps, ChargedKeeps, StoppedKeeps
  <1>2. QED
    BY <1>1, ChargesMade DEF ChargesNext

\* However settlements overlap, and wherever they are stopped, a pool is charged
\* for an epoch at most once per slot and once per run that was stopped.
THEOREM ChargesAreBounded == Spec => []ChargesBounded
  <1>1. TypeInv /\ ChargesInv => ChargesBounded
    <2> SUFFICES ASSUME TypeInv, ChargesInv, NEW e \in Epoch, NEW c \in PoolKey
                 PROVE  charges[e][c].times <= Cardinality(Slot) + aborts
      BY DEF ChargesBounded
    <2>1. /\ charges[e][c].times \in Nat /\ aborts \in Nat
          /\ charges[e][c].times + Cardinality(MayCharge(e, c)) <= Cardinality(Slot) + aborts
          /\ Cardinality(MayCharge(e, c)) \in Nat /\ Cardinality(Slot) \in Nat
      BY ChargesFacts, RunCounts
    <2>2. QED
      BY <2>1
  <1>2. QED
    BY <1>1, TypeInit, TypeStep, SummaryInit, SummaryStep, ChargesInit, ChargesStep, PTL DEF Spec

\* The comment on settleEpoch ("prevents double-spend") is right of a coordinator
\* that serves one request at a time and stops none halfway: no pool pays an
\* epoch twice.
THEOREM SequentialChargesOnce ==
  ASSUME Cardinality(Slot) = 1
  PROVE  Spec => [](aborts = 0 => ChargedOnce)
  <1>1. ChargesBounded => (aborts = 0 => ChargedOnce)
    BY DEF ChargesBounded, ChargedOnce
  <1>2. QED
    BY <1>1, ChargesAreBounded, PTL

-------------------------------------------------------------------------------
(* The log and the credits.                                                *)

OwedBy == [p \in Slot |-> Owed(task[p], call[p])]

LogInv == log.credits + Total(OwedBy) <= TotalCredited

\* A step moves d sats of what the handler in slot p owes to the log.
Logs(p, d) ==
  /\ log'.credits = log.credits + d
  /\ Owed(task'[p], call'[p]) + d <= Owed(task[p], call[p])
  /\ Others(p) /\ credited' = credited

\* A step adds d sats to pool k, which the handler in slot p then owes.
Credits(p, k, d) ==
  /\ credited' = [credited EXCEPT ![k] = @ + d]
  /\ Owed(task'[p], call'[p]) <= Owed(task[p], call[p]) + d
  /\ Others(p) /\ log'.credits = log.credits

LEMMA OwedNat ==
  ASSUME NEW t \in HandlerType, NEW c \in CallRecord
  PROVE  Owed(t, c) \in Nat
  <1>1. PoolCredit(c.amount, c.seen) \in Nat
    BY CreditBounds DEF CallRecord
  <1>2. t.pc \in {"cids", "debit", "bid"} => t.logged.credits \in Nat
    BY DEF HandlerType, Idle, Run
  <1>3. t.pc = "pinCredit" => PinBudget[t.pin] \in Nat
    BY BudgetType DEF HandlerType, Idle, Run
  <1>4. QED
    BY <1>1, <1>2, <1>3 DEF Owed

LEMMA OwedType ==
  ASSUME TypeInv, NEW p \in Slot
  PROVE  Owed(task[p], call[p]) \in Nat
  BY OwedNat DEF TypeInv, SlotTypes, IInv, PoolTypeOK

LEMMA OwedNext ==
  ASSUME TypeInv', NEW p \in Slot
  PROVE  Owed(task'[p], call'[p]) \in Nat
  <1>1. task'[p] \in HandlerType /\ call'[p] \in CallRecord
    BY DEF TypeInv, SlotTypes, IInv, PoolTypeOK
  <1>2. QED
    BY <1>1, OwedNat

LEMMA OwedNowhere ==
  ASSUME NEW t, NEW c, t.pc \in {"idle", "receipt", "cancel", "cancelLog", "fetch"}
  PROVE  Owed(t, c) = 0
  BY DEF Owed

LEMMA LogInit == Init => LogInv
  <1> SUFFICES ASSUME Init
               PROVE  LogInv
    OBVIOUS
  <1>1. \A p \in Slot : Owed(task[p], call[p]) = 0
    <2> SUFFICES ASSUME NEW p \in Slot
                 PROVE  Owed(task[p], call[p]) = 0
      OBVIOUS
    <2>1. task[p].pc = "idle"
      BY DEF Init, PinInit, Idle
    <2>2. QED
      BY <2>1, OwedNowhere
  <1>2. Total(OwedBy) = 0
    <2> DEFINE f == OwedBy
    <2>1. f \in [Slot -> Int] /\ \A p \in Slot : f[p] = 0
      BY <1>1 DEF OwedBy
    <2> HIDE DEF f
    <2>2. Total(f) = 0
      BY <2>1, FinitelyMany, TotalZero
    <2>3. QED
      BY <2>2 DEF f
  <1>3. TotalCredited = 0
    <2>1. credited \in [PoolKey -> Int] /\ \A k \in PoolKey : credited[k] = 0
      BY DEF Init, PoolInit
    <2>2. QED
      BY <2>1, FinitelyMany, TotalZero DEF TotalCredited
  <1>4. log.credits = 0
    BY DEF Init, SettleInit
  <1>5. QED
    BY <1>2, <1>3, <1>4 DEF LogInv

\* The sum of what the handlers owe, when that of one of them changes.
LEMMA OwedChange ==
  ASSUME TypeInv, TypeInv', NEW p \in Slot, Others(p)
  PROVE  /\ Total(OwedBy) \in Int /\ Total(OwedBy)' \in Int
         /\ Total(OwedBy)' = Total(OwedBy) + (Owed(task'[p], call'[p]) - Owed(task[p], call[p]))
  <1> DEFINE f == OwedBy
             g == [q \in Slot |-> Owed(task'[q], call'[q])]
  <1>1. f \in [Slot -> Int]
    BY OwedType DEF OwedBy
  <1>2. g \in [Slot -> Int]
    BY OwedNext
  <1>3. \A q \in Slot \ {p} : f[q] = g[q]
    BY DEF Others, OwedBy
  <1>4. f[p] = Owed(task[p], call[p]) /\ g[p] = Owed(task'[p], call'[p])
    BY DEF OwedBy
  <1>5. Total(OwedBy)' = Total(g)
    BY DEF OwedBy, Owed
  <1> HIDE DEF f, g
  <1>6. Total(f) \in Int /\ Total(g) \in Int
    BY <1>1, <1>2, FinitelyMany, TotalType
  <1>7. Total(g) = Total(f) + (g[p] - f[p])
    BY <1>1, <1>2, <1>3, FinitelyMany, TotalChange
  <1>8. QED
    BY <1>4, <1>5, <1>6, <1>7 DEF f

LEMMA CreditedTotal ==
  ASSUME TypeInv
  PROVE  TotalCredited \in Int /\ log.credits \in Int
  <1>1. credited \in [PoolKey -> Int]
    BY DEF TypeInv, IInv, PoolTypeOK
  <1>2. QED
    BY <1>1, FinitelyMany, TotalType DEF TotalCredited, TypeInv, TableTypes

LEMMA LogsKeeps ==
  ASSUME TypeInv, TypeInv', LogInv, NEW p \in Slot, NEW d \in Nat, Logs(p, d)
  PROVE  LogInv'
  <1>1. TotalCredited' = TotalCredited
    BY DEF Logs, TotalCredited
  <1> DEFINE before == Owed(task[p], call[p])
             after == Owed(task'[p], call'[p])
             a == Total(OwedBy)
             b == Total(OwedBy)'
  <1>2. a \in Int /\ b \in Int /\ b = a + (after - before)
    BY OwedChange DEF Logs
  <1>3. before \in Int /\ after \in Int
    BY OwedType, OwedNext
  <1>4. log'.credits = log.credits + d /\ after + d <= before
    BY DEF Logs
  <1>5. log.credits + a <= TotalCredited /\ (LogInv' <=> log'.credits + b <= TotalCredited')
    BY DEF LogInv
  <1> HIDE DEF before, after, a, b
  <1>6. QED
    BY <1>1, <1>2, <1>3, <1>4, <1>5, CreditedTotal

LEMMA CreditsKeeps ==
  ASSUME TypeInv, TypeInv', LogInv, NEW p \in Slot, NEW k \in PoolKey, NEW d \in Nat, Credits(p, k, d)
  PROVE  LogInv'
  <1>1. TotalCredited' = TotalCredited + d
    <2> DEFINE f == credited
               g == credited'
    <2>1. f \in [PoolKey -> Int] /\ g = [f EXCEPT ![k] = @ + d]
      BY DEF TypeInv, IInv, PoolTypeOK, Credits
    <2> HIDE DEF f, g
    <2>2. f \in [PoolKey -> Int] /\ g \in [PoolKey -> Int]
      BY <2>1
    <2>3. \A x \in PoolKey \ {k} : f[x] = g[x]
      BY <2>1
    <2>4. Total(g) = Total(f) + (g[k] - f[k])
      BY <2>2, <2>3, FinitelyMany, TotalChange
    <2>5. g[k] - f[k] = d
      BY <2>1
    <2>6. QED
      BY <2>4, <2>5 DEF TotalCredited, f, g
  <1> DEFINE before == Owed(task[p], call[p])
             after == Owed(task'[p], call'[p])
             a == Total(OwedBy)
             b == Total(OwedBy)'
  <1>2. a \in Int /\ b \in Int /\ b = a + (after - before)
    BY OwedChange DEF Credits
  <1>3. before \in Int /\ after \in Int
    BY OwedType, OwedNext
  <1>4. log'.credits = log.credits /\ after <= before + d
    BY DEF Credits
  <1>5. log.credits + a <= TotalCredited /\ (LogInv' <=> log'.credits + b <= TotalCredited')
    BY DEF LogInv
  <1> HIDE DEF before, after, a, b
  <1>6. QED
    BY <1>1, <1>2, <1>3, <1>4, <1>5, CreditedTotal

\* A step that logs nothing, and leaves the handler in slot p owing no more.
LEMMA OwesNoMore ==
  ASSUME TypeInv, NEW p \in Slot, NEW t, NEW c, Await(p, t, c),
         Owed(t, c) = 0 \/ Owed(t, c) = Owed(task[p], call[p]),
         log'.credits = log.credits, credited' = credited
  PROVE  Logs(p, 0)
  <1>1. task'[p] = t /\ call'[p] = c /\ Others(p)
    BY AwaitSlots DEF Others
  <1>2. Owed(task[p], call[p]) \in Nat /\ log.credits \in Nat
    BY OwedType DEF TypeInv, TableTypes
  <1>3. QED
    BY <1>1, <1>2 DEF Logs

\* A step that logs all that the handler in slot p owes.
LEMMA OwesNothing ==
  ASSUME TypeInv, NEW p \in Slot, Reply(p), credited' = credited,
         log'.credits = log.credits + Owed(task[p], call[p])
  PROVE  \E d \in Nat : Logs(p, d)
  <1>1. task'[p] = Idle /\ Others(p)
    BY AwaitSlots DEF Others, Reply
  <1>2. Owed(task'[p], call'[p]) = 0
    BY <1>1, OwedNowhere DEF Idle
  <1>3. Owed(task[p], call[p]) \in Nat
    BY OwedType
  <1>4. Logs(p, Owed(task[p], call[p]))
    BY <1>1, <1>2, <1>3 DEF Logs
  <1>5. QED
    BY <1>3, <1>4

Quietly == log'.credits = log.credits /\ credited' = credited /\ task' = task /\ call' = call

LEMMA QuietlyKeeps ==
  ASSUME LogInv, Quietly
  PROVE  LogInv'
  BY DEF LogInv, Quietly, OwedBy, TotalCredited

LEMMA RequestLogs ==
  ASSUME TypeInv, NEW p \in Slot, Request(p)
  PROVE  Logs(p, 0)
  <1>1. CASE \E t \in Tip : ReceiveTip(p, t)
    <2>1. PICK t \in Tip : ReceiveTip(p, t)
      BY <1>1
    <2> DEFINE h == [pc |-> "tip"]
               c == TipCall(t.key, t.amount)
    <2>2. Owed(h, c) = 0
      BY DEF Owed, TipCall, NewCall
    <2>3. Await(p, h, c) /\ log' = log /\ credited' = credited
      BY <2>1 DEF ReceiveTip, PoolUnchanged
    <2> HIDE DEF h, c
    <2>4. QED
      BY <2>2, <2>3, OwesNoMore
  <1>2. CASE \E r \in Receipt : ReceiveReceipt(p, r)
    <2>1. PICK r \in Receipt : ReceiveReceipt(p, r)
      BY <1>2
    <2> DEFINE h == [pc |-> "receipt", receipt |-> r]
    <2>2. h.pc = "receipt"
      OBVIOUS
    <2>3. Await(p, h, NoCall) /\ log' = log /\ credited' = credited
      BY <2>1 DEF ReceiveReceipt, PoolUnchanged
    <2> HIDE DEF h
    <2>4. QED
      BY <2>2, <2>3, OwedNowhere, OwesNoMore
  <1>3. CASE \E i \in Pin : CreatePin(p, i)
    <2>1. PICK i \in Pin : CreatePin(p, i)
      BY <1>3
    <2> DEFINE h == [pc |-> "pinCredit", pin |-> i]
               c == DirectCall(PinCid[i], PinBudget[i])
    <2>2. Owed(h, c) = 0
      BY DEF Owed, DirectCall, NewCall
    <2>3. Await(p, h, c) /\ log' = log /\ credited' = credited
      BY <2>1 DEF CreatePin, PoolUnchanged
    <2> HIDE DEF h, c
    <2>4. QED
      BY <2>2, <2>3, OwesNoMore
  <1>4. CASE \E i \in Pin : ReadPin(p, i)
    <2>1. PICK i \in Pin : ReadPin(p, i)
      BY <1>4
    <2> DEFINE refund == pins[i].remaining - PinCancelFee(pins[i].remaining)
               h == [pc |-> "cancel", pin |-> i, refund |-> refund]
               c == IF refund > 0 THEN DebitCall(PinCid[i], refund) ELSE NoCall
    <2>2. h.pc = "cancel"
      OBVIOUS
    <2>3. Await(p, h, c) /\ log' = log /\ credited' = credited
      BY <2>1 DEF ReadPin, PoolUnchanged
    <2> HIDE DEF h, c, refund
    <2>4. QED
      BY <2>2, <2>3, OwedNowhere, OwesNoMore
  <1>5. CASE \E e \in Epoch : StartSettle(p, e)
    <2>1. PICK e \in Epoch : StartSettle(p, e)
      BY <1>5
    <2> DEFINE h == SettleTask("fetch", e, {}, {}, {}, <<>>, NothingLogged)
    <2>2. h.pc = "fetch"
      BY DEF SettleTask
    <2>3. Await(p, h, NoCall) /\ log' = log /\ credited' = credited
      BY <2>1 DEF StartSettle, PoolUnchanged
    <2> HIDE DEF h
    <2>4. QED
      BY <2>2, <2>3, OwedNowhere, OwesNoMore
  <1>6. QED
    BY <1>1, <1>2, <1>3, <1>4, <1>5 DEF Request

\* A call that has returned in these states is done.
LEMMA CallIsDone ==
  ASSUME TypeInv, NEW p \in Slot, CallDone(p), task[p].pc \in {"tip", "pinCredit", "bid"}
  PROVE  call[p].op = "done"
  BY DEF TypeInv, Locals, Local, CallDone, Returned

LEMMA AppendLogs ==
  ASSUME TypeInv, NEW p \in Slot, AppendTip(p) \/ AppendPinCreate(p) \/ AppendSummary(p)
  PROVE  \E d \in Nat : Logs(p, d)
  <1>1. log \in [credits : Nat, debits : Nat, summaries : [Epoch -> Nat]]
    BY DEF TypeInv, TableTypes
  <1>2. CASE AppendTip(p)
    <2>1. Owed(task[p], call[p]) = ReturnedCredit(p)
      BY <1>2, CallIsDone DEF AppendTip, Owed, ReturnedCredit
    <2>2. QED
      BY <1>1, <1>2, <2>1, OwesNothing DEF AppendTip, PoolUnchanged
  <1>3. CASE AppendPinCreate(p)
    <2>1. Owed(task[p], call[p]) = PinBudget[task[p].pin]
      BY <1>3, CallIsDone DEF AppendPinCreate, Owed
    <2>2. QED
      BY <1>1, <1>3, <2>1, OwesNothing DEF AppendPinCreate, PoolUnchanged
  <1>4. CASE AppendSummary(p)
    <2>1. Owed(task[p], call[p]) = task[p].logged.credits
      BY <1>4 DEF AppendSummary, BetweenCids, Owed
    <2>2. log'.credits = log.credits + task[p].logged.credits
      BY <1>1, <1>4 DEF AppendSummary
    <2>3. QED
      BY <1>4, <2>1, <2>2, OwesNothing DEF AppendSummary, PoolUnchanged
  <1>5. QED
    BY <1>2, <1>3, <1>4

LEMMA ReplyLogs ==
  ASSUME TypeInv, NEW p \in Slot, Reply(p), log'.credits = log.credits, credited' = credited
  PROVE  Logs(p, 0)
  <1>1. Owed(Idle, NoCall) = 0
    BY OwedNowhere DEF Idle
  <1>2. QED
    BY <1>1, OwesNoMore DEF Reply

LEMMA RunLogs ==
  ASSUME TypeInv, NEW p \in Slot, FetchReceipts(p) \/ SettleTurn(p) \/ PersistSummary(p)
  PROVE  Logs(p, 0)
  <1>1. CASE FetchReceipts(p)
    <2> DEFINE f == task[p].epoch
               batch == {r \in receipts : r.epoch = f}
               t == SettleTask("cids", f, batch, EligibleCids(batch), AutoBidCids(batch),
                               IneligibleRows(f, batch), NothingLogged)
    <2>1. /\ log' = log /\ credited' = credited
          /\ Reply(p) \/ Await(p, t, NoCall)
      BY <1>1 DEF FetchReceipts, PoolUnchanged
    <2>2. Owed(t, NoCall) = 0
      BY DEF SettleTask, NothingLogged, Owed
    <2> HIDE DEF t
    <2>3. QED
      BY <2>1, <2>2, ReplyLogs, OwesNoMore
  <1>2. CASE SettleTurn(p)
    <2>1. PICK t \in Run, w \in SweepType : \E d : Turn(p, t, d, w)
      BY <1>2, TurnStep
    <2>2. QED
      BY <2>1, OwesNoMore DEF Turn
  <1>3. CASE PersistSummary(p)
    <2> DEFINE t == [task[p] EXCEPT !.rows = Tail(@)]
    <2>1. /\ log' = log /\ credited' = credited
          /\ task[p].pc = "cids"
          /\ Reply(p) \/ Await(p, t, NoCall)
      BY <1>3 DEF PersistSummary, BetweenCids, PoolUnchanged
    <2>2. t.pc = "cids" /\ t.logged = task[p].logged
      BY <2>1, RunTask DEF Run
    <2> HIDE DEF t
    <2>3. Owed(t, NoCall) = Owed(task[p], call[p])
      BY <2>1, <2>2 DEF Owed
    <2>4. QED
      BY <2>1, <2>3, ReplyLogs, OwesNoMore
  <1>4. QED
    BY <1>1, <1>2, <1>3

\* The sats of a credit are owed by the handler whose call it was.
LEMMA CallLogs ==
  ASSUME TypeInv, NEW p \in Slot, RunPoolCall(p)
  PROVE  Logs(p, 0) \/ \E k \in PoolKey, d \in Nat : Credits(p, k, d)
  <1>1. PoolStep(p) /\ UNCHANGED <<task, log>>
    BY DEF RunPoolCall, pinVars
  <1>2. /\ Others(p) /\ call'[p].key = call[p].key /\ call'[p].amount = call[p].amount
        /\ \/ call[p].op = "volume" /\ call'[p].op = "credit"
           \/ /\ call[p].op \in {"credit", "direct", "decrement"} /\ call'[p].op = "done"
              /\ call'[p].seen = call[p].seen
           \/ call[p].op = "check" /\ call'[p].op \in {"refused", "decrement"}
    BY <1>1, CallRuns DEF Others
  <1>3. /\ task[p].pc \in {"tip", "bid"} => call[p].op \in {"volume", "credit", "done"}
        /\ task[p].pc = "pinCredit"
             => call[p].op \in {"direct", "done"} /\ call[p].amount = PinBudget[task[p].pin]
    BY DEF TypeInv, Locals, Local
  <1>4. /\ Owed(task[p], call[p]) \in Nat /\ call[p].amount \in Nat
        /\ ReturnedCredit(p) \in Nat /\ log.credits \in Nat
        /\ call[p].op # "none" => call[p].key \in PoolKey
    BY OwedType, ReturnedType DEF TypeInv, TableTypes, IInv, PoolTypeOK, CallRecord
  <1>5. CASE CreditTip(p)
    <2>1. call[p].op = "credit" /\ credited' = [credited EXCEPT ![call[p].key] = @ + ReturnedCredit(p)]
      BY <1>5 DEF CreditTip
    <2>2. Owed(task'[p], call'[p]) <= Owed(task[p], call[p]) + ReturnedCredit(p)
      <3>1. CASE task[p].pc \in {"tip", "bid"}
        <4>1. PoolCredit(call'[p].amount, call'[p].seen) = ReturnedCredit(p)
          BY <1>2, <2>1 DEF ReturnedCredit
        <4>2. task[p].pc = "bid" => task[p].logged.credits \in Nat
          BY RunTask DEF Run
        <4>3. QED
          BY <1>1, <1>2, <1>4, <2>1, <3>1, <4>1, <4>2 DEF Owed
      <3>2. CASE task[p].pc \notin {"tip", "bid"}
        <4>1. Owed(task'[p], call'[p]) = Owed(task[p], call[p])
          BY <1>1, <1>3, <2>1, <3>2 DEF Owed
        <4>2. QED
          BY <1>4, <4>1
      <3>3. QED
        BY <3>1, <3>2
    <2>3. QED
      BY <1>1, <1>2, <1>4, <2>1, <2>2 DEF Credits
  <1>6. CASE CreditBountyDirect(p)
    <2>1. call[p].op = "direct" /\ credited' = [credited EXCEPT ![call[p].key] = @ + call[p].amount]
      BY <1>6 DEF CreditBountyDirect
    <2>2. Owed(task'[p], call'[p]) <= Owed(task[p], call[p]) + call[p].amount
      <3>1. CASE task[p].pc = "pinCredit"
        BY <1>1, <1>2, <1>3, <1>4, <2>1, <3>1 DEF Owed
      <3>2. CASE task[p].pc # "pinCredit"
        <4>1. Owed(task'[p], call'[p]) = Owed(task[p], call[p])
          BY <1>1, <1>3, <2>1, <3>2 DEF Owed
        <4>2. QED
          BY <1>4, <4>1
      <3>3. QED
        BY <3>1, <3>2
    <2>3. QED
      BY <1>1, <1>2, <1>4, <2>1, <2>2 DEF Credits
  <1>7. CASE ReadVolume(p) \/ CheckDebit(p) \/ DebitPayout(p)
    <2>1. credited' = credited /\ call[p].op \in {"volume", "check", "decrement"}
      BY <1>7 DEF ReadVolume, CheckDebit, DebitPayout
    <2>2. Owed(task'[p], call'[p]) = Owed(task[p], call[p])
      BY <1>1, <1>2, <1>3, <2>1 DEF Owed
    <2>3. QED
      BY <1>1, <1>2, <1>4, <2>1, <2>2 DEF Logs
  <1>8. QED
    BY <1>1, <1>5, <1>6, <1>7 DEF PoolStep

LEMMA PinLogs ==
  ASSUME TypeInv, NEW p \in Slot, PinStep(p)
  PROVE  Quietly \/ \E d \in Nat : Logs(p, d)
  <1>1. CASE AppendPinCreate(p)
    BY <1>1, AppendLogs
  <1>2. CASE AppendPinCancel(p)
    BY <1>2, ReplyLogs DEF AppendPinCancel, PoolUnchanged, TypeInv, TableTypes
  <1>3. CASE CancelPin(p)
    <2> DEFINE h == [task[p] EXCEPT !.pc = "cancelLog"]
    <2>1. h.pc = "cancelLog"
      BY <1>3, PinTask DEF CancelPin
    <2>2. Await(p, h, NoCall) /\ log' = log /\ credited' = credited
      BY <1>3 DEF CancelPin, PoolUnchanged
    <2> HIDE DEF h
    <2>3. QED
      BY <2>1, <2>2, OwedNowhere, OwesNoMore
  <1>4. CASE ListActivePins(p) \/ \E i \in Pin : DrainPin(p, i)
    BY <1>4 DEF ListActivePins, DrainPin, poolVars, Quietly
  <1>5. QED
    BY <1>1, <1>2, <1>3, <1>4 DEF PinStep

LEMMA LogStep == TypeInv /\ LogInv /\ [Next]_vars => LogInv'
  <1> SUFFICES ASSUME TypeInv, LogInv, [Next]_vars
               PROVE  LogInv'
    OBVIOUS
  <1>1. TypeInv'
    BY TypeStep
  <1>2. ASSUME NEW p \in Slot, Request(p) \/ Continue(p) \/ Abort(p)
        PROVE  \/ Quietly \/ \E d \in Nat : Logs(p, d)
               \/ \E k \in PoolKey, d \in Nat : Credits(p, k, d)
    <2>1. CASE Abort(p) \/ StoreReceipt(p)
      BY <2>1, ReplyLogs DEF Abort, StoreReceipt, PoolUnchanged
    <2>2. CASE SettleStep(p)
      BY <2>2, SettleSteps, RunLogs, AppendLogs, CallLogs
    <2>3. QED
      BY <1>2, <2>1, <2>2, RequestLogs, AppendLogs, PinLogs DEF Continue
  <1>3. CASE Tick \/ Quiet \/ UNCHANGED vars
    BY <1>3, QuietlyKeeps DEF Tick, Quiet, vars, poolVars, pinVars, Quietly
  <1>4. QED
    BY <1>1, <1>2, <1>3, QuietlyKeeps, LogsKeeps, CreditsKeeps DEF Next

\* Whatever overlaps or stops halfway, the events of the log account for no sats
\* that the pools have not received: a handler logs what its own calls credited.
THEOREM CreditsComeFirst == Spec => []LogFollowsCredits
  <1>1. TypeInv /\ LogInv => LogFollowsCredits
    <2> SUFFICES ASSUME TypeInv, LogInv
                 PROVE  log.credits <= TotalCredited
      BY DEF LogFollowsCredits
    <2> DEFINE f == OwedBy
    <2>1. f \in [Slot -> Nat]
      BY OwedType DEF OwedBy
    <2> HIDE DEF f
    <2>2. Total(f) \in Nat
      BY <2>1, FinitelyMany, TotalNat
    <2>3. log.credits + Total(f) <= TotalCredited
      BY DEF LogInv, f
    <2>4. QED
      BY <2>2, <2>3, CreditedTotal
  <1>2. QED
    BY <1>1, TypeInit, TypeStep, LogInit, LogStep, PTL DEF Spec

-------------------------------------------------------------------------------
(* One request after the other: pins.                                      *)

\* The epochs a table charges the pool of c for.
EpochsIn(table, c) == {e \in Epoch : table[e][c].times > 0}

\* A run in state t has charged the pool of pin i and has not drained it yet.
Late(t, d, w, i) ==
  \/ t.pc = "debit" /\ d.op = "done" /\ d.key = PinCid[i]
  \/ w.op = "list" /\ w.cid = PinCid[i]
  \/ w.op = "write" /\ i \in w.left

Behind(tasks, calls, sweeps, i) ==
  IF \E p \in Slot : Late(tasks[p], calls[p], sweeps[p], i) THEN 1 ELSE 0

\* A debit is covered when it is awaited, and never refused.
Solvent(p) ==
  task[p].pc = "debit" =>
    /\ call[p].op # "refused"
    /\ call[p].op \in {"check", "decrement"}
         => call[p].amount > 0 /\ call[p].amount <= balance[call[p].key]

\* A sweep writes what the pins still are.
UpToDate(p) ==
  sweep[p].op = "write" =>
    \A i \in sweep[p].left : /\ pins[i].status = "ACTIVE" /\ PinCid[i] = sweep[p].cid
                             /\ pins[i].remaining = sweep[p].seen[i]

\* What a pin has lost was taken by the n epochs charged to its pool, less the
\* one that has still to drain it: at most its rate by each.
Endures(pin, n, late, i) ==
  /\ pin.status = "ACTIVE" => PinBudget[i] <= pin.remaining + (n - late) * DrainRate(i)
  /\ pin.status = "EXHAUSTED" => n >= PinDuration[i]

Lasts(i) ==
  Endures(pins[i], Cardinality(EpochsIn(charges, PinCid[i])), Behind(task, call, sweep, i), i)

PinsInv ==
  aborts = 0 => /\ \A p \in Slot : Solvent(p) /\ UpToDate(p)
                /\ \A i \in Pin : Lasts(i)

LEMMA EpochCounts ==
  ASSUME NEW S \in SUBSET Epoch, NEW T \in SUBSET Epoch, S \subseteq T
  PROVE  /\ IsFiniteSet(S) /\ Cardinality(S) \in Nat /\ Cardinality(T) \in Nat
         /\ Cardinality(S) <= Cardinality(T)
         /\ \A e \in T \ S : Cardinality(S) + 1 <= Cardinality(T)
  <1>1. IsFiniteSet(S) /\ IsFiniteSet(T)
    <2>1. IsFiniteSet(Epoch)
      BY ReceiptAssumption, FS_Interval DEF Epoch
    <2>2. QED
      BY <2>1, FS_Subset
  <1>2. Cardinality(S) \in Nat /\ Cardinality(T) \in Nat /\ Cardinality(S) <= Cardinality(T)
    BY <1>1, FS_CardinalityType, FS_Subset
  <1>3. ASSUME NEW e \in T \ S
        PROVE  Cardinality(S) + 1 <= Cardinality(T)
    <2>1. S \cup {e} \subseteq T /\ Cardinality(S \cup {e}) = Cardinality(S) + 1
      BY <1>1, <1>3, FS_AddElement
    <2>2. QED
      BY <1>1, <2>1, FS_Subset
  <1>4. QED
    BY <1>1, <1>2, <1>3

LEMMA TimesGrow == \A a, b \in Int, r \in Nat : a <= b => a * r <= b * r
  OBVIOUS

LEMMA RateBound ==
  \A i \in Pin : /\ DrainRate(i) * PinDuration[i] <= PinBudget[i]
                 /\ PinDuration[i] \in Nat /\ PinBudget[i] > 0
  <1>1. \A a \in Nat, b \in Nat \ {0} : (a \div b) * b <= a
    OBVIOUS
  <1> SUFFICES ASSUME NEW i \in Pin
               PROVE  /\ DrainRate(i) * PinDuration[i] <= PinBudget[i]
                      /\ PinDuration[i] \in Nat /\ PinBudget[i] > 0
    OBVIOUS
  <1>2. PinBudget[i] \in Nat \ {0} /\ PinDuration[i] \in Nat \ {0}
    BY PinAssumption, AmountAssumption
  <1>3. (PinBudget[i] \div PinDuration[i]) * PinDuration[i] <= PinBudget[i]
    BY <1>1, <1>2
  <1>4. QED
    BY <1>2, <1>3 DEF DrainRate

LEMMA PinsMade ==
  ASSUME aborts' = 0 => /\ \A p \in Slot : Solvent(p)' /\ UpToDate(p)'
                        /\ \A i \in Pin : Lasts(i)'
  PROVE  PinsInv'
  BY DEF PinsInv

LEMMA LastsMade ==
  ASSUME NEW i \in Pin,
         Endures(pins'[i], Cardinality(EpochsIn(charges', PinCid[i])),
                 Behind(task', call', sweep', i), i)
  PROVE  Lasts(i)'
  BY DEF Lasts, Endures, DrainRate, EpochsIn, Behind, Late

\* A pin stays as it was, is new or is cancelled; behind is no more than before,
\* unless there is one more epoch.
LEMMA EnduresOn ==
  ASSUME NEW i \in Pin, NEW pin, NEW next, NEW n \in Nat, NEW m \in Nat,
         NEW a \in 0..1, NEW b \in 0..1, pin.remaining \in Nat,
         Endures(pin, n, a, i), n <= m, b <= a \/ n + 1 <= m,
         \/ next = pin
         \/ next.status = "CANCELLED"
         \/ next.status = "ACTIVE" /\ next.remaining = PinBudget[i] /\ b = 0
  PROVE  Endures(next, m, b, i)
  <1> DEFINE R == DrainRate(i)
  <1>1. PinBudget[i] \in Nat /\ R \in Nat /\ PinDuration[i] \in Nat
    BY BudgetType, RateBound
  <1> HIDE DEF R
  <1>2. (n - a) * R <= (m - b) * R /\ (n - a) * R \in Int /\ (m - b) * R \in Int /\ m * R \in Nat
    <2>1. n - a \in Int /\ m - b \in Int /\ n - a <= m - b
      OBVIOUS
    <2>2. QED
      BY <1>1, <2>1, TimesGrow
  <1>3. b = 0 => (m - b) * R = m * R
    OBVIOUS
  <1>4. CASE next = pin
    BY <1>1, <1>2, <1>4 DEF Endures, R
  <1>5. CASE next.status = "ACTIVE" /\ next.remaining = PinBudget[i] /\ b = 0
    BY <1>1, <1>2, <1>3, <1>5 DEF Endures, R
  <1>6. QED
    BY <1>4, <1>5 DEF Endures

LEMMA EpochsKnown ==
  ASSUME NEW i \in Pin, NEW table, NEW tasks, NEW calls, NEW sweeps
  PROVE  /\ EpochsIn(table, PinCid[i]) \in SUBSET Epoch
         /\ Cardinality(EpochsIn(table, PinCid[i])) \in Nat
         /\ Behind(tasks, calls, sweeps, i) \in 0..1
  <1>1. EpochsIn(table, PinCid[i]) \in SUBSET Epoch
    BY DEF EpochsIn
  <1>2. QED
    BY <1>1, EpochCounts DEF Behind

\* The handler of the only slot goes on without a sweep; if to a debit, then to
\* one that the pool covers.
Resumes(t, d, w) ==
  /\ w.op = "none"
  /\ t.pc = "debit" => d.op = "check" /\ d.amount > 0 /\ d.amount <= balance'[d.key]

LEMMA ResumesKeeps ==
  ASSUME \A p, q \in Slot : p = q, TypeInv, PinsInv, UNCHANGED <<charges, aborts>>,
         NEW p \in Slot, Resumes(task'[p], call'[p], sweep'[p]),
         \A i \in Pin : \/ pins'[i] = pins[i]
                        \/ pins'[i].status = "CANCELLED"
                        \/ pins'[i].status = "ACTIVE" /\ pins'[i].remaining = PinBudget[i]
  PROVE  PinsInv'
  <1> SUFFICES ASSUME aborts = 0
               PROVE  /\ \A q \in Slot : Solvent(q)' /\ UpToDate(q)'
                      /\ \A i \in Pin : Lasts(i)'
    BY PinsMade
  <1>1. \A q \in Slot : q = p
    OBVIOUS
  <1>2. Solvent(p)' /\ UpToDate(p)'
    BY DEF Resumes, Solvent, UpToDate
  <1>3. ASSUME NEW i \in Pin
        PROVE  Lasts(i)'
    <2>1. ~ Late(task'[p], call'[p], sweep'[p], i)
      BY DEF Resumes, Late
    <2> DEFINE n == Cardinality(EpochsIn(charges, PinCid[i]))
               a == Behind(task, call, sweep, i)
               b == Behind(task', call', sweep', i)
    <2>2. b = 0
      BY <1>1, <2>1 DEF Behind
    <2>3. n \in Nat /\ a \in 0..1 /\ pins[i].remaining \in Nat
      BY EpochsKnown DEF TypeInv, TableTypes, PinType
    <2>4. Endures(pins[i], n, a, i)
      BY DEF PinsInv, Lasts
    <2> HIDE DEF n, a, b
    <2>5. Endures(pins'[i], n, b, i)
      BY <2>2, <2>3, <2>4, EnduresOn
    <2>6. QED
      BY <2>5, LastsMade DEF n, b
  <1>4. QED
    BY <1>1, <1>2, <1>3

LEMMA NothingMoves ==
  ASSUME PinsInv, UNCHANGED <<charges, task, call, sweep, pins, balance>>, aborts' = aborts \/ aborts' # 0
  PROVE  PinsInv'
  BY DEF PinsInv, Solvent, UpToDate, Lasts, EpochsIn, Behind

LEMMA SweepSlot ==
  ASSUME TypeInv, NEW p \in Slot, NEW w, sweep' = [sweep EXCEPT ![p] = w]
  PROVE  sweep'[p] = w /\ \A q \in Slot \ {p} : sweep'[q] = sweep[q]
  BY DEF TypeInv, SlotTypes

\* Requests, and the steps of handlers that sweep nothing.
LEMMA RequestResumes ==
  ASSUME \A p, q \in Slot : p = q, TypeInv, PinsInv, NEW p \in Slot, Request(p)
  PROVE  PinsInv'
  <1>1. ASSUME NEW t, NEW d, Await(p, t, d), t.pc # "debit", Free(p),
               UNCHANGED <<sweep, charges, aborts>>,
               \A i \in Pin : \/ pins'[i] = pins[i]
                              \/ pins'[i].status = "ACTIVE" /\ pins'[i].remaining = PinBudget[i]
        PROVE  PinsInv'
    <2>1. task'[p] = t /\ sweep'[p].op = "none"
      BY <1>1, AwaitSlots, SweepsOnly DEF Free, Idle
    <2>2. Resumes(task'[p], call'[p], sweep'[p])
      BY <1>1, <2>1 DEF Resumes
    <2>3. QED
      BY <1>1, <2>2, ResumesKeeps
  <1>2. ASSUME NEW t \in Tip, ReceiveTip(p, t)
        PROVE  PinsInv'
    BY <1>1, <1>2 DEF ReceiveTip, settleVars
  <1>3. ASSUME NEW r \in Receipt, ReceiveReceipt(p, r)
        PROVE  PinsInv'
    BY <1>1, <1>3 DEF ReceiveReceipt, settleVars
  <1>4. ASSUME NEW i \in Pin, CreatePin(p, i), UNCHANGED <<settleVars, tips, aborts>>
        PROVE  PinsInv'
    <2>1. \A j \in Pin : \/ pins'[j] = pins[j]
                         \/ pins'[j].status = "ACTIVE" /\ pins'[j].remaining = PinBudget[j]
      BY <1>4 DEF CreatePin, TypeInv, TableTypes
    <2>2. QED
      BY <1>1, <1>4, <2>1 DEF CreatePin, settleVars
  <1>5. ASSUME NEW i \in Pin, ReadPin(p, i), UNCHANGED <<settleVars, tips, aborts>>
        PROVE  PinsInv'
    <2> DEFINE refund == pins[i].remaining - PinCancelFee(pins[i].remaining)
               t == [pc |-> "cancel", pin |-> i, refund |-> refund]
               d == IF refund > 0 THEN DebitCall(PinCid[i], refund) ELSE NoCall
    <2>1. Await(p, t, d) /\ Free(p) /\ UNCHANGED <<sweep, charges, aborts, pins>> /\ t.pc # "debit"
      BY <1>5 DEF ReadPin, settleVars
    <2> HIDE DEF t, d
    <2>2. QED
      BY <1>1, <2>1
  <1>6. ASSUME NEW e \in Epoch, StartSettle(p, e), UNCHANGED <<tips, aborts>>
        PROVE  PinsInv'
    <2> DEFINE t == SettleTask("fetch", e, {}, {}, {}, <<>>, NothingLogged)
    <2>1. Await(p, t, NoCall) /\ Free(p) /\ UNCHANGED <<sweep, charges, aborts, pins>> /\ t.pc # "debit"
      BY <1>6 DEF StartSettle, settleVars, SettleTask
    <2> HIDE DEF t
    <2>2. QED
      BY <1>1, <2>1
  <1>7. QED
    BY <1>2, <1>3, <1>4, <1>5, <1>6 DEF Request

LEMMA HandlerResumes ==
  ASSUME \A p, q \in Slot : p = q, TypeInv, PinsInv, NEW p \in Slot,
         \/ AppendTip(p) \/ StoreReceipt(p)
         \/ AppendPinCreate(p) /\ UNCHANGED <<settleVars, tips, aborts>>
         \/ CancelPin(p) /\ UNCHANGED <<settleVars, tips, aborts>>
         \/ AppendPinCancel(p) /\ UNCHANGED <<settleVars, tips, aborts>>
  PROVE  PinsInv'
  <1>1. ASSUME NEW t, NEW d, Await(p, t, d), t.pc # "debit", task[p].pc # "cids",
               UNCHANGED <<sweep, charges, aborts>>,
               \A i \in Pin : pins'[i] = pins[i] \/ pins'[i].status = "CANCELLED"
        PROVE  PinsInv'
    <2>1. task'[p] = t /\ sweep'[p].op = "none"
      BY <1>1, AwaitSlots, SweepsOnly
    <2>2. Resumes(task'[p], call'[p], sweep'[p])
      BY <1>1, <2>1 DEF Resumes
    <2>3. QED
      BY <1>1, <2>2, ResumesKeeps
  <1>2. Idle.pc # "debit"
    BY DEF Idle
  <1>3. CASE AppendTip(p) \/ StoreReceipt(p)
    BY <1>1, <1>2, <1>3 DEF AppendTip, StoreReceipt, Reply, settleVars
  <1>4. CASE /\ AppendPinCreate(p) \/ AppendPinCancel(p)
             /\ UNCHANGED <<settleVars, tips, aborts>>
    BY <1>1, <1>2, <1>4 DEF AppendPinCreate, AppendPinCancel, Reply, settleVars
  <1>5. CASE CancelPin(p) /\ UNCHANGED <<settleVars, tips, aborts>>
    <2> DEFINE h == [task[p] EXCEPT !.pc = "cancelLog"]
    <2>1. h.pc = "cancelLog" /\ task[p].pc = "cancel" /\ task[p].pin \in Pin
      BY <1>5, PinTask DEF CancelPin
    <2>2. Await(p, h, NoCall) /\ UNCHANGED <<sweep, charges, aborts>>
      BY <1>5 DEF CancelPin, settleVars
    <2>3. \A i \in Pin : pins'[i] = pins[i] \/ pins'[i].status = "CANCELLED"
      BY <1>5, <2>1 DEF CancelPin, TypeInv, TableTypes
    <2> HIDE DEF h
    <2>4. QED
      BY <1>1, <2>1, <2>2, <2>3
  <1>6. QED
    BY <1>3, <1>4, <1>5

\* The same for the steps of a settlement between its sweeps.
LEMMA SettlementResumes ==
  ASSUME \A p, q \in Slot : p = q, TypeInv, PinsInv, UNCHANGED aborts, NEW p \in Slot,
         \/ FetchReceipts(p) \/ EndAutoBid(p) \/ PersistSummary(p) \/ AppendSummary(p)
         \/ \E c \in PoolKey : \/ SkipCid(p, c) \/ StartAutoBid(p, c)
                               \/ \E uptime \in [Host -> Uptime] : PayCid(p, c, uptime)
  PROVE  PinsInv'
  <1>1. ASSUME NEW t, NEW d, Await(p, t, d),
               t.pc = "debit" => d.op = "check" /\ d.amount > 0 /\ d.amount <= balance'[d.key],
               UNCHANGED <<pins, charges>>,
               \/ sweep' = [sweep EXCEPT ![p] = NoSweep]
               \/ sweep' = sweep /\ sweep[p].op = "none"
        PROVE  PinsInv'
    <2>1. task'[p] = t /\ call'[p] = d
      BY <1>1, AwaitSlots
    <2>2. sweep'[p].op = "none"
      BY <1>1, SweepSlot, NoSweepType
    <2>3. Resumes(task'[p], call'[p], sweep'[p])
      BY <1>1, <2>1, <2>2 DEF Resumes
    <2>4. QED
      BY <1>1, <2>3, ResumesKeeps
  <1>2. Idle.pc # "debit"
    BY DEF Idle
  <1>3. CASE FetchReceipts(p)
    <2> DEFINE e == task[p].epoch
               batch == {r \in receipts : r.epoch = e}
               t == SettleTask("cids", e, batch, EligibleCids(batch), AutoBidCids(batch),
                               IneligibleRows(e, batch), NothingLogged)
    <2>1. /\ UNCHANGED <<pins, charges>> /\ sweep' = sweep /\ task[p].pc = "fetch"
          /\ Await(p, Idle, NoCall) \/ Await(p, t, NoCall)
      BY <1>3 DEF FetchReceipts, Reply, settleVars
    <2>2. t.pc = "cids" /\ sweep[p].op = "none"
      BY <2>1, SweepsOnly DEF SettleTask
    <2> HIDE DEF t
    <2>3. QED
      BY <1>1, <1>2, <2>1, <2>2
  <1>4. CASE EndAutoBid(p)
    <2> DEFINE logged == [task[p].logged EXCEPT !.credits = @ + ReturnedCredit(p)]
               t == [task[p] EXCEPT !.pc = "cids", !.logged = logged]
    <2>1. /\ UNCHANGED <<pins, charges>> /\ sweep' = sweep /\ task[p].pc = "bid"
          /\ Await(p, t, NoCall)
      BY <1>4 DEF EndAutoBid, settleVars
    <2> HIDE DEF logged
    <2>2. t.pc = "cids" /\ sweep[p].op = "none"
      BY <2>1, RunTask, SweepsOnly DEF Run
    <2> HIDE DEF t
    <2>3. QED
      BY <1>1, <2>1, <2>2
  <1>5. CASE PersistSummary(p)
    <2> DEFINE tail == Tail(task[p].rows)
               t == [task[p] EXCEPT !.rows = tail]
    <2>1. /\ UNCHANGED <<pins, charges>> /\ sweep' = [sweep EXCEPT ![p] = NoSweep]
          /\ task[p].pc = "cids"
          /\ Await(p, Idle, NoCall) \/ Await(p, t, NoCall)
      BY <1>5 DEF PersistSummary, BetweenCids, Reply
    <2> HIDE DEF tail
    <2>2. t.pc = "cids"
      BY <2>1, RunTask DEF Run
    <2> HIDE DEF t
    <2>3. QED
      BY <1>1, <1>2, <2>1, <2>2
  <1>6. CASE AppendSummary(p)
    <2>1. /\ UNCHANGED <<pins, charges>> /\ sweep' = sweep
          /\ task[p].rows = <<>> /\ Await(p, Idle, NoCall)
      BY <1>6 DEF AppendSummary, Reply, settleVars
    <2>2. sweep[p].op = "none"
      BY <2>1 DEF TypeInv, Locals, Local
    <2>3. QED
      BY <1>1, <1>2, <2>1, <2>2
  <1>7. ASSUME NEW c \in PoolKey, SkipCid(p, c)
        PROVE  PinsInv'
    <2> DEFINE nothing == [h \in EligibleHosts(task[p].batch, c) |-> 0]
               t == [task[p] EXCEPT !.cids = @ \ {c},
                                    !.rows = @ \o CidRows(task[p].epoch, c, nothing)]
    <2>1. /\ UNCHANGED <<pins, charges>> /\ sweep' = [sweep EXCEPT ![p] = NoSweep]
          /\ task[p].pc = "cids" /\ Await(p, t, NoCall)
      BY <1>7 DEF SkipCid, BetweenCids, settleVars
    <2>2. t.pc = "cids"
      BY <2>1, RunTask DEF Run
    <2> HIDE DEF t
    <2>3. QED
      BY <1>1, <2>1, <2>2
  <1>8. ASSUME NEW c \in PoolKey, StartAutoBid(p, c)
        PROVE  PinsInv'
    <2> DEFINE d == TipCall(c, AutoBid(task[p].batch, c))
               t == [task[p] EXCEPT !.pc = "bid", !.bids = @ \ {c}]
    <2>1. /\ UNCHANGED <<pins, charges>> /\ sweep' = [sweep EXCEPT ![p] = NoSweep]
          /\ task[p].pc = "cids" /\ Await(p, t, d)
      BY <1>8 DEF StartAutoBid, BetweenCids, settleVars
    <2>2. t.pc = "bid"
      BY <2>1, RunTask DEF Run
    <2> HIDE DEF t, d
    <2>3. QED
      BY <1>1, <2>1, <2>2
  <1>9. ASSUME NEW c \in PoolKey, NEW uptime \in [Host -> Uptime], PayCid(p, c, uptime)
        PROVE  PinsInv'
    <2> DEFINE r == task[p]
               rewards == Rewards(balance[c], r.batch, c, uptime)
               drain == TotalDrain(balance[c], r.batch, c, rewards)
               actualDrain == Smaller(drain, balance[c])
               rows == CidRows(r.epoch, c, rewards)
               owed == [r EXCEPT !.cids = @ \ {c}, !.rows = @ \o rows, !.logged.debits = @ + drain]
               next == [owed EXCEPT !.pc = "debit"]
               d == DebitCall(c, actualDrain)
    <2>1. /\ UNCHANGED <<pins, charges, balance>> /\ sweep' = [sweep EXCEPT ![p] = NoSweep]
          /\ r.pc = "cids"
          /\ \/ Await(p, owed, NoCall)
             \/ actualDrain > 0 /\ Await(p, next, d)
      BY <1>9 DEF PayCid, BetweenCids, settleVars, PoolUnchanged
    <2>2. balance[c] \in Nat /\ drain \in Nat
      <3>1. balance[c] \in Nat /\ r.batch \in SUBSET Receipt
        <4>1. r \in Run /\ balance[c] \in Int /\ balance[c] > 0
          BY <1>9, <2>1, RunTask DEF PayCid, TypeInv, IInv, PoolTypeOK
        <4>2. QED
          BY <4>1 DEF Run
      <3>2. QED
        BY <3>1, RewardsType, DrainType
    <2>3. d.op = "check" /\ d.key = c /\ d.amount = actualDrain /\ actualDrain <= balance[c]
      BY <2>2 DEF DebitCall, NewCall, Smaller
    <2>4. owed.pc = "cids"
      BY <2>1, RunTask DEF Run
    <2> HIDE DEF owed, next, d, actualDrain
    <2>5. CASE Await(p, owed, NoCall)
      BY <1>1, <2>1, <2>4, <2>5
    <2>6. CASE actualDrain > 0 /\ Await(p, next, d)
      <3>1. d.op = "check" /\ d.amount > 0 /\ d.amount <= balance'[d.key]
        BY <2>1, <2>3, <2>6
      <3>2. QED
        BY <1>1, <2>1, <2>6, <3>1
    <2>7. QED
      BY <2>1, <2>5, <2>6
  <1>10. QED
    BY <1>3, <1>4, <1>5, <1>6, <1>7, <1>8, <1>9

\* The sweep.
LEMMA SweepStarts ==
  ASSUME \A p, q \in Slot : p = q, TypeInv, PinsInv, UNCHANGED aborts, NEW p \in Slot, StartSweep(p)
  PROVE  PinsInv'
  <1> SUFFICES ASSUME aborts = 0
               PROVE  /\ \A q \in Slot : Solvent(q)' /\ UpToDate(q)'
                      /\ \A i \in Pin : Lasts(i)'
    BY PinsMade
  <1> DEFINE t == [task[p] EXCEPT !.pc = "cids"]
             w == SweepCall(call[p].key, call[p].amount)
  <1>1. /\ task[p].pc = "debit" /\ CallDone(p) /\ Await(p, t, NoCall)
        /\ sweep' = [sweep EXCEPT ![p] = w] /\ UNCHANGED <<pins, charges>>
    BY DEF StartSweep, settleVars
  <1>2. t.pc = "cids" /\ w.op = "list" /\ w.cid = call[p].key
    BY <1>1, RunTask DEF Run, SweepCall
  <1> HIDE DEF t, w
  <1>3. task'[p].pc = "cids" /\ sweep'[p].op = "list" /\ sweep'[p].cid = call[p].key
    BY <1>1, <1>2, AwaitSlots, SweepSlot
  <1>4. call[p].op = "done"
    BY <1>1 DEF PinsInv, Solvent, CallDone, Returned
  <1>5. Solvent(p)' /\ UpToDate(p)'
    BY <1>3 DEF Solvent, UpToDate
  <1>6. ASSUME NEW i \in Pin
        PROVE  Lasts(i)'
    <2> DEFINE n == Cardinality(EpochsIn(charges, PinCid[i]))
               a == Behind(task, call, sweep, i)
               b == Behind(task', call', sweep', i)
    <2>1. Late(task'[p], call'[p], sweep'[p], i) => Late(task[p], call[p], sweep[p], i)
      BY <1>1, <1>3, <1>4 DEF Late
    <2>2. b <= a
      BY <2>1 DEF Behind
    <2>3. n \in Nat /\ a \in 0..1 /\ b \in 0..1 /\ pins[i].remaining \in Nat
      BY EpochsKnown DEF TypeInv, TableTypes, PinType
    <2>4. Endures(pins[i], n, a, i)
      BY DEF PinsInv, Lasts
    <2> HIDE DEF n, a, b
    <2>5. Endures(pins'[i], n, b, i)
      BY <1>1, <2>2, <2>3, <2>4, EnduresOn
    <2>6. QED
      BY <1>1, <2>5, LastsMade DEF n, b
  <1>7. QED
    BY <1>5, <1>6

LEMMA SweepLists ==
  ASSUME \A p, q \in Slot : p = q, TypeInv, PinsInv, UNCHANGED <<charges, aborts>>,
         NEW p \in Slot, ListActivePins(p)
  PROVE  PinsInv'
  <1> SUFFICES ASSUME aborts = 0
               PROVE  /\ \A q \in Slot : Solvent(q)' /\ UpToDate(q)'
                      /\ \A i \in Pin : Lasts(i)'
    BY PinsMade
  <1> DEFINE active == {i \in Pin : PinCid[i] = sweep[p].cid /\ pins[i].status = "ACTIVE"}
             seen == [i \in Pin |-> IF i \in active THEN pins[i].remaining ELSE 0]
             w == [sweep[p] EXCEPT !.op = "write", !.left = active, !.seen = seen]
  <1>1. sweep[p] \in SweepType /\ sweep[p].op = "list"
    BY DEF TypeInv, SlotTypes, ListActivePins
  <1>2. sweep' = [sweep EXCEPT ![p] = w] /\ UNCHANGED <<balance, task, call, pins>>
    BY <1>1 DEF ListActivePins, poolVars
  <1>3. w.op = "write" /\ w.left = active /\ w.seen = seen /\ w.cid = sweep[p].cid
    BY <1>1 DEF SweepType
  <1> HIDE DEF w
  <1>4. /\ sweep'[p].op = "write" /\ sweep'[p].left = active /\ sweep'[p].seen = seen
        /\ sweep'[p].cid = sweep[p].cid
    <2>1. sweep'[p] = w
      BY <1>2, SweepSlot
    <2> HIDE DEF active, seen
    <2>2. QED
      BY <1>3, <2>1
  <1>5. Solvent(p)'
    BY <1>2 DEF PinsInv, Solvent
  <1>6. UpToDate(p)'
    BY <1>2, <1>4 DEF UpToDate
  <1>7. ASSUME NEW i \in Pin
        PROVE  Lasts(i)'
    <2> DEFINE n == Cardinality(EpochsIn(charges, PinCid[i]))
               a == Behind(task, call, sweep, i)
               b == Behind(task', call', sweep', i)
    <2>1. Late(task'[p], call'[p], sweep'[p], i) => Late(task[p], call[p], sweep[p], i)
      BY <1>1, <1>2, <1>4 DEF Late
    <2>2. b <= a
      BY <2>1 DEF Behind
    <2>3. n \in Nat /\ a \in 0..1 /\ b \in 0..1 /\ pins[i].remaining \in Nat
      BY EpochsKnown DEF TypeInv, TableTypes, PinType
    <2>4. Endures(pins[i], n, a, i)
      BY DEF PinsInv, Lasts
    <2> HIDE DEF n, a, b
    <2>5. Endures(pins'[i], n, b, i)
      BY <1>2, <2>2, <2>3, <2>4, EnduresOn
    <2>6. QED
      BY <2>5, LastsMade DEF n, b
  <1>8. QED
    BY <1>5, <1>6, <1>7

\* One drain of a pin: at most its rate, and it is exhausted only by so many.
LEMMA DrainOnce ==
  ASSUME NEW i \in Pin, NEW n \in Nat, NEW r \in Nat, NEW k \in Nat,
         k <= DrainRate(i), k <= r, PinBudget[i] <= r + (n - 1) * DrainRate(i)
  PROVE  /\ PinBudget[i] <= (r - k) + (n - 0) * DrainRate(i)
         /\ r - k <= 0 => n >= PinDuration[i]
  <1> DEFINE R == DrainRate(i)
             D == PinDuration[i]
             S == PinBudget[i]
  <1>1. R \in Nat /\ D \in Nat /\ S \in Nat /\ S > 0 /\ R * D <= S
    BY BudgetType, RateBound
  <1>2. k <= R /\ S <= r + (n - 1) * R
    OBVIOUS
  <1> HIDE DEF R, D, S
  <1>3. (n - 1) * R = n * R - R /\ n * R \in Nat /\ (n - 0) * R = n * R
    BY <1>1
  <1>4. S <= (r - k) + n * R
    BY <1>1, <1>2, <1>3
  <1>5. ASSUME r - k <= 0
        PROVE  n >= D
    <2>1. S <= n * R /\ R * D <= n * R
      BY <1>1, <1>3, <1>4, <1>5
    <2>2. R > 0
      <3>1. R = 0 => n * R = 0
        BY <1>1
      <3>2. QED
        BY <1>1, <2>1, <3>1
    <2>3. ASSUME n < D
          PROVE  FALSE
      <3>1. n + 1 <= D
        BY <1>1, <2>3
      <3>2. (n + 1) * R <= D * R
        BY <1>1, <3>1, TimesGrow
      <3>3. (n + 1) * R = n * R + R /\ D * R = R * D /\ R * D \in Nat
        BY <1>1
      <3>4. QED
        BY <1>1, <1>3, <2>1, <2>2, <3>2, <3>3
    <2>4. QED
      BY <1>1, <2>3
  <1>6. QED
    BY <1>3, <1>4, <1>5 DEF R, D, S

LEMMA SweepDrains ==
  ASSUME \A p, q \in Slot : p = q, TypeInv, PinsInv, UNCHANGED <<charges, aborts>>,
         NEW p \in Slot, NEW o \in Pin, DrainPin(p, o)
  PROVE  PinsInv'
  <1> SUFFICES ASSUME aborts = 0
               PROVE  /\ \A q \in Slot : Solvent(q)' /\ UpToDate(q)'
                      /\ \A i \in Pin : Lasts(i)'
    BY PinsMade
  <1> DEFINE left == sweep[p].left \ {o}
             seen == [sweep[p].seen EXCEPT ![o] = 0]
             w == [sweep[p] EXCEPT !.left = left, !.seen = seen]
             r == pins[o].remaining
             k == Smaller(sweep[p].drain, Smaller(DrainRate(o), r))
  <1>1. /\ sweep[p] \in SweepType /\ sweep[p].op = "write" /\ o \in sweep[p].left
        /\ r \in Nat /\ pins \in [Pin -> PinType]
    BY DEF TypeInv, SlotTypes, TableTypes, PinType, DrainPin
  <1>2. UpToDate(p) /\ Solvent(p)
    BY DEF PinsInv
  <1>3. pins[o].status = "ACTIVE" /\ sweep[p].seen[o] = r
    BY <1>1, <1>2 DEF UpToDate
  <1>4. /\ sweep' = [sweep EXCEPT ![p] = w] /\ UNCHANGED <<balance, task, call>>
        /\ pins' = IF r - k <= 0
                   THEN [pins EXCEPT ![o] = [status |-> "EXHAUSTED", remaining |-> 0]]
                   ELSE [pins EXCEPT ![o].remaining = r - k]
    <2>1. UNCHANGED <<balance, task, call>>
      BY DEF DrainPin, poolVars
    <2>2. sweep' = [sweep EXCEPT ![p] = w]
      BY <1>1 DEF DrainPin
    <2>3. pins' = IF r - k <= 0
                  THEN [pins EXCEPT ![o] = [status |-> "EXHAUSTED", remaining |-> 0]]
                  ELSE [pins EXCEPT ![o].remaining = r - k]
      BY <1>3 DEF DrainPin
    <2>4. QED
      BY <2>1, <2>2, <2>3
  <1>5. /\ sweep'[p].op = "write" /\ sweep'[p].left = left /\ sweep'[p].seen = seen
        /\ sweep'[p].cid = sweep[p].cid
    <2>1. w.op = "write" /\ w.left = left /\ w.seen = seen /\ w.cid = sweep[p].cid
      BY <1>1 DEF SweepType
    <2> HIDE DEF w
    <2>2. QED
      BY <1>4, <2>1, SweepSlot
  <1>6. \A j \in left : sweep[p].seen[j] = seen[j] /\ j \in sweep[p].left /\ j \in Pin
    BY <1>1 DEF SweepType
  <1>7. \A j \in Pin \ {o} : pins'[j] = pins[j]
    BY <1>1, <1>4
  <1>8. k \in Nat /\ k <= DrainRate(o) /\ k <= r
    BY <1>1, BudgetType DEF Smaller, SweepType
  <1>9. /\ r - k <= 0 => pins'[o].status = "EXHAUSTED"
        /\ ~ (r - k <= 0) => pins'[o].status = "ACTIVE" /\ pins'[o].remaining = r - k
    <2> HIDE DEF r, k
    <2>1. QED
      BY <1>1, <1>3, <1>4 DEF PinType
  <1> HIDE DEF w, k, seen
  <1>10. Solvent(p)'
    BY <1>2, <1>4 DEF Solvent
  <1>11. UpToDate(p)'
    BY <1>2, <1>1, <1>5, <1>6, <1>7 DEF UpToDate
  <1>12. ASSUME NEW i \in Pin
         PROVE  Lasts(i)'
    <2> DEFINE n == Cardinality(EpochsIn(charges, PinCid[i]))
               a == Behind(task, call, sweep, i)
               b == Behind(task', call', sweep', i)
    <2>1. n \in Nat /\ a \in 0..1 /\ b \in 0..1 /\ pins[i].remaining \in Nat
      BY EpochsKnown DEF TypeInv, TableTypes, PinType
    <2>2. Endures(pins[i], n, a, i)
      BY DEF PinsInv, Lasts
    <2>3. CASE i # o
      <3>1. Late(task'[p], call'[p], sweep'[p], i) => Late(task[p], call[p], sweep[p], i)
        BY <1>1, <1>4, <1>5 DEF Late
      <3>2. b <= a
        BY <3>1 DEF Behind
      <3>3. pins'[i] = pins[i]
        BY <1>7, <2>3
      <3> HIDE DEF n, a, b
      <3>4. Endures(pins'[i], n, b, i)
        BY <2>1, <2>2, <3>2, <3>3, EnduresOn
      <3>5. QED
        BY <3>4, LastsMade DEF n, b
    <2>4. CASE i = o
      <3>1. Late(task[p], call[p], sweep[p], i)
        BY <1>1, <2>4 DEF Late
      <3>2. ~ Late(task'[p], call'[p], sweep'[p], i)
        <4>1. task[p].pc # "debit"
          BY <1>1, SweepsOnly
        <4>2. QED
          BY <1>4, <1>5, <2>4, <4>1 DEF Late
      <3>3. a = 1
        BY <3>1 DEF Behind
      <3>4. b = 0
        BY <3>2 DEF Behind
      <3> HIDE DEF n, a, b
      <3>5. PinBudget[o] <= r + (n - 1) * DrainRate(o)
        BY <1>3, <2>2, <2>4, <3>3 DEF Endures
      <3>6. /\ PinBudget[o] <= (r - k) + (n - 0) * DrainRate(o)
            /\ r - k <= 0 => n >= PinDuration[o]
        BY <1>1, <1>8, <2>1, <3>5, DrainOnce
      <3>7. Endures(pins'[i], n, b, i)
        BY <1>9, <2>4, <3>4, <3>6 DEF Endures
      <3>8. QED
        BY <3>7, LastsMade DEF n, b
    <2>5. QED
      BY <2>3, <2>4
  <1>13. QED
    BY <1>10, <1>11, <1>12

\* The only run on e that may charge c finds nothing charged.
LEMMA FreshCharge ==
  ASSUME \A p, q \in Slot : p = q, TypeInv, ChargesInv, aborts = 0,
         NEW e \in Epoch, NEW c \in PoolKey, NEW p \in Slot, MayStill(task[p], call[p], e, c)
  PROVE  charges[e][c].times = 0
  <1>1. Slot = {p} /\ MayCharge(e, c) = {p}
    BY DEF MayCharge
  <1>2. Cardinality(Slot) = 1 /\ Cardinality(MayCharge(e, c)) = 1
    BY <1>1, FS_Singleton
  <1>3. charges[e][c].times + Cardinality(MayCharge(e, c)) <= Cardinality(Slot) + aborts
    BY DEF ChargesInv
  <1>4. charges[e][c].times \in Nat
    BY DEF TypeInv, TableTypes
  <1>5. QED
    BY <1>2, <1>3, <1>4

LEMMA CallDrains ==
  ASSUME \A p, q \in Slot : p = q, TypeInv, ChargesInv, PinsInv, UNCHANGED aborts,
         NEW p \in Slot, RunPoolCall(p)
  PROVE  PinsInv'
  <1> SUFFICES ASSUME aborts = 0
               PROVE  /\ \A q \in Slot : Solvent(q)' /\ UpToDate(q)'
                      /\ \A i \in Pin : Lasts(i)'
    BY PinsMade
  <1> DEFINE debit == task[p].pc = "debit" /\ call[p].op = "decrement"
             e == task[p].epoch
             k == call[p].key
             new == [times |-> charges[e][k].times + 1, sats |-> charges[e][k].sats + call[p].amount]
  <1>1. /\ PoolStep(p) /\ UNCHANGED <<pins, task, sweep>>
        /\ charges' = IF debit THEN [charges EXCEPT ![e][k] = new] ELSE charges
    BY DEF RunPoolCall, pinVars
  <1>2. charges \in [Epoch -> [PoolKey -> [times : Nat, sats : Nat]]] /\ pins \in [Pin -> PinType]
    BY DEF TypeInv, TableTypes
  <1>3. call'[p].key = call[p].key /\ call'[p].amount = call[p].amount
    BY <1>1, CallRuns
  <1>4. Solvent(p)'
    <2> SUFFICES ASSUME task[p].pc = "debit"
                 PROVE  /\ call'[p].op # "refused"
                        /\ call'[p].op \in {"check", "decrement"}
                             => call'[p].amount > 0 /\ call'[p].amount <= balance'[call'[p].key]
      BY <1>1 DEF Solvent
    <2>1. call[p].op \in {"check", "decrement"} => call[p].amount > 0 /\ call[p].amount <= balance[k]
      BY DEF PinsInv, Solvent
    <2>2. CASE CheckDebit(p)
      <3>1. balance[k] \in Int /\ call[p].amount \in Nat
        <4>1. k \in PoolKey
          BY DEF TypeInv, Locals, Local
        <4>2. QED
          BY <4>1 DEF TypeInv, IInv, PoolTypeOK, CallRecord
      <3>2. ~ (balance[k] < call[p].amount) /\ balance' = balance
        BY <2>1, <2>2, <3>1 DEF CheckDebit
      <3>3. call'[p].op = "decrement"
        BY <2>2, <3>2 DEF CheckDebit, TypeInv, IInv, PoolTypeOK, CallRecord
      <3>4. QED
        BY <1>3, <2>1, <2>2, <3>2, <3>3 DEF CheckDebit
    <2>3. CASE call'[p].op = "done"
      BY <2>3
    <2>4. call'[p].op = "done" \/ CheckDebit(p)
      <3>1. call[p].op \in {"check", "decrement", "done", "refused"}
        BY DEF TypeInv, Locals, Local
      <3>2. CASE call[p].op = "check"
        BY <1>1, <3>2 DEF PoolStep, ReadVolume, CreditTip, CreditBountyDirect, DebitPayout
      <3>3. QED
        BY <1>1, <3>1, <3>2, CallRuns
    <2>5. QED
      BY <2>2, <2>3, <2>4
  <1>5. UpToDate(p)'
    BY <1>1 DEF PinsInv, UpToDate
  <1>6. ASSUME debit
        PROVE  /\ e \in Epoch /\ k \in PoolKey /\ charges[e][k].times = 0
               /\ charges'[e][k].times = 1
               /\ \A f \in Epoch, c \in PoolKey : charges[f][c].times > 0 => charges'[f][c].times > 0
    <2>1. e \in Epoch /\ k \in PoolKey
      BY <1>6, RunTask DEF Run, TypeInv, Locals, Local
    <2>2. MayStill(task[p], call[p], e, k)
      BY <1>6 DEF MayStill, RunsOn
    <2>3. charges[e][k].times = 0
      BY <2>1, <2>2, FreshCharge
    <2>4. new.times = 1
      BY <2>3
    <2>5. charges' = [charges EXCEPT ![e][k] = new]
      BY <1>1, <1>6
    <2> HIDE DEF new, e, k, debit
    <2>6. charges'[e][k].times = 1
      BY <1>2, <2>1, <2>4, <2>5
    <2>7. \A f \in Epoch, c \in PoolKey : charges[f][c].times > 0 => charges'[f][c].times > 0
      BY <1>2, <2>1, <2>3, <2>5
    <2>8. QED
      BY <2>1, <2>3, <2>6, <2>7
  <1>7. ASSUME NEW i \in Pin
        PROVE  Lasts(i)'
    <2> DEFINE S == EpochsIn(charges, PinCid[i])
               T == EpochsIn(charges', PinCid[i])
               n == Cardinality(S)
               m == Cardinality(T)
               a == Behind(task, call, sweep, i)
               b == Behind(task', call', sweep', i)
    <2>1. n \in Nat /\ m \in Nat /\ a \in 0..1 /\ b \in 0..1 /\ pins[i].remaining \in Nat
      BY EpochsKnown DEF TypeInv, TableTypes, PinType
    <2>2. Endures(pins[i], n, a, i)
      BY DEF PinsInv, Lasts
    <2>3. S \in SUBSET Epoch /\ T \in SUBSET Epoch /\ PinCid[i] \in PoolKey
      BY BudgetType DEF EpochsIn
    <2>4. S \subseteq T
      <3>1. CASE debit
        BY <1>6, <2>3, <3>1 DEF EpochsIn
      <3>2. CASE ~ debit
        BY <1>1, <3>2
      <3>3. QED
        BY <3>1, <3>2
    <2>5. b <= a \/ \E f \in T : f \notin S
      <3>1. CASE debit /\ k = PinCid[i]
        <4>1. e \in T /\ e \notin S
          BY <1>6, <3>1 DEF EpochsIn
        <4>2. QED
          BY <4>1
      <3>2. CASE ~ (debit /\ k = PinCid[i])
        <4>1. call'[p].op = "done" /\ task[p].pc = "debit" => debit \/ call[p].op = "done"
          <5>1. task[p].pc = "debit" => call[p].op \in {"check", "decrement", "done", "refused"}
            BY DEF TypeInv, Locals, Local
          <5>2. QED
            BY <1>1, <5>1, CallRuns
        <4>2. Late(task'[p], call'[p], sweep'[p], i) => Late(task[p], call[p], sweep[p], i)
          BY <1>1, <1>3, <3>2, <4>1 DEF Late
        <4>3. QED
          BY <4>2 DEF Behind
      <3>3. QED
        BY <3>1, <3>2
    <2> HIDE DEF a, b, S, T
    <2>6. n <= m /\ (b <= a \/ n + 1 <= m)
      BY <2>3, <2>4, <2>5, EpochCounts
    <2> HIDE DEF n, m
    <2>7. Endures(pins'[i], m, b, i)
      BY <1>1, <2>1, <2>2, <2>6, EnduresOn
    <2>8. QED
      BY <2>7, LastsMade DEF m, b, T
  <1>8. QED
    BY <1>4, <1>5, <1>7

LEMMA PinsInit == Init => PinsInv
  <1> SUFFICES ASSUME Init
               PROVE  /\ \A p \in Slot : Solvent(p) /\ UpToDate(p)
                      /\ \A i \in Pin : Lasts(i)
    BY DEF PinsInv
  <1>1. /\ \A p \in Slot : task[p].pc = "idle" /\ sweep[p].op = "none"
        /\ \A i \in Pin : pins[i].status = "NONE"
    BY DEF Init, PinInit, Idle, NoSweep
  <1>2. QED
    BY <1>1 DEF Solvent, UpToDate, Lasts, Endures

LEMMA PinsStep ==
  ASSUME \A p, q \in Slot : p = q
  PROVE  TypeInv /\ ChargesInv /\ PinsInv /\ [Next]_vars => PinsInv'
  <1> SUFFICES ASSUME TypeInv, ChargesInv, PinsInv, [Next]_vars
               PROVE  PinsInv'
    OBVIOUS
  <1>1. ASSUME NEW p \in Slot, Request(p)
        PROVE  PinsInv'
    BY <1>1, RequestResumes
  <1>2. ASSUME NEW p \in Slot, PinStep(p), UNCHANGED <<settleVars, tips, aborts>>
        PROVE  PinsInv'
    <2>1. UNCHANGED <<charges, aborts>>
      BY <1>2 DEF settleVars
    <2>2. QED
      BY <1>2, <2>1, HandlerResumes, SweepLists, SweepDrains DEF PinStep
  <1>3. ASSUME NEW p \in Slot, SettleStep(p), UNCHANGED <<tips, aborts>>
        PROVE  PinsInv'
    BY <1>3, SettlementResumes, SweepStarts, CallDrains DEF SettleStep
  <1>4. ASSUME NEW p \in Slot, Continue(p)
        PROVE  PinsInv'
    BY <1>2, <1>3, <1>4, HandlerResumes DEF Continue
  <1>5. ASSUME NEW p \in Slot, Abort(p)
        PROVE  PinsInv'
    <2>1. aborts' = aborts + 1 /\ aborts \in Nat
      BY <1>5 DEF Abort, TypeInv, TableTypes
    <2>2. QED
      BY <2>1 DEF PinsInv
  <1>6. CASE Tick \/ Quiet \/ UNCHANGED vars
    BY <1>6, NothingMoves DEF Tick, Quiet, vars, poolVars, pinVars, settleVars
  <1>7. QED
    BY <1>1, <1>4, <1>5, <1>6 DEF Next

\* Served one at a time, and as long as no handler is stopped halfway, a pin is
\* exhausted only after as many epochs as it was bought for were charged to the
\* pool of its CID.
THEOREM PinsLast ==
  ASSUME \A p, q \in Slot : p = q
  PROVE  Spec => [](aborts = 0 => PinLastsItsDuration)
  <1>1. PinsInv => (aborts = 0 => PinLastsItsDuration)
    BY DEF PinsInv, Lasts, Endures, EpochsIn, PinLastsItsDuration
  <1>2. TypeInv /\ ChargesInv /\ PinsInv /\ [Next]_vars => PinsInv'
    BY PinsStep
  <1>3. QED
    BY <1>1, <1>2, TypeInit, TypeStep, SummaryInit, SummaryStep, ChargesInit, ChargesStep,
       PinsInit, PTL DEF Spec

-------------------------------------------------------------------------------
(* One request after the other: the books of an epoch.                     *)

RowsFor(rows, e, c) == {r \in rows : r.epoch = e /\ r.cid = c}

Booking(rows, e, c) == Total([r \in RowsFor(rows, e, c) |-> r.reward])

\* The rows that a run in state t has still to write.
Known(t) == IF Batched(t) THEN ToSet(t.rows) ELSE {}

\* What the debit that t awaits will add to the charge of c for e.
Promised(t, d, e, c) ==
  IF /\ t.pc = "debit" /\ d.op \in {"check", "decrement"}
     /\ t.epoch = e /\ d.key = c
  THEN d.amount ELSE 0

\* A run with no row of its epoch written, as it has CIDs to pay.
Early(t) == t.pc \in {"fetch", "debit"} \/ (Batched(t) /\ t.cids # {})

\* The rows of a pool, written and still to be written, are covered by what it
\* was charged, or will be by the debit on its way; those of a CID that is not
\* paid yet earn nothing.
BookedBy(t, d, table, C) ==
  /\ Early(t) => \A s \in table : s.epoch # t.epoch
  /\ \A row \in Known(t) : row.cid \in t.cids => row.reward = 0
  /\ \A e \in Epoch, c \in PoolKey :
       Booking(table \cup Known(t), e, c) <= C[e][c].sats + Promised(t, d, e, c)

BooksInv ==
  /\ IsFiniteSet(summaries)
  /\ \A e \in Epoch, c \in PoolKey : charges[e][c].times = 0 => charges[e][c].sats = 0
  /\ aborts = 0 => \A p \in Slot : BookedBy(task[p], call[p], summaries, charges)

LEMMA RowsFinite ==
  ASSUME NEW rows \in SUBSET RowType, IsFiniteSet(rows), NEW e, NEW c
  PROVE  /\ IsFiniteSet(RowsFor(rows, e, c))
         /\ \A r \in RowsFor(rows, e, c) : r \in rows /\ r.reward \in Nat
         /\ Booking(rows, e, c) \in Nat
  <1> DEFINE R == RowsFor(rows, e, c)
             f == [r \in R |-> r.reward]
  <1>1. R \subseteq rows
    BY DEF RowsFor
  <1>2. \A r \in R : r \in rows /\ r.reward \in Nat
    BY <1>1 DEF RowType
  <1> HIDE DEF R
  <1>3. IsFiniteSet(R) /\ f \in [R -> Nat]
    BY <1>1, <1>2, FS_Subset
  <1> HIDE DEF f
  <1>4. Total(f) \in Nat
    BY <1>3, TotalNat
  <1>5. QED
    BY <1>2, <1>3, <1>4 DEF Booking, R, f

\* Fewer rows, and rows that earn nothing, book no more.
LEMMA BookingLess ==
  ASSUME NEW rows \in SUBSET RowType, IsFiniteSet(rows),
         NEW all \in SUBSET RowType, IsFiniteSet(all), NEW e, NEW c,
         \A r \in RowsFor(rows, e, c) : r \in all \/ r.reward = 0
  PROVE  Booking(rows, e, c) <= Booking(all, e, c)
  <1> DEFINE R == RowsFor(rows, e, c)
             A == RowsFor(all, e, c)
             f == [r \in R |-> r.reward]
             g == [r \in A |-> r.reward]
             k == [r \in R |-> r]
  <1>1. \A r \in R : r.reward # 0 => r \in A
    BY DEF RowsFor
  <1>2. /\ IsFiniteSet(R) /\ \A r \in R : r.reward \in Nat
        /\ IsFiniteSet(A) /\ \A r \in A : r.reward \in Nat
    BY RowsFinite
  <1> HIDE DEF R, A
  <1>3. f \in [R -> Nat] /\ g \in [A -> Nat]
    BY <1>2
  <1>4. \A x \in R : f[x] # 0 => k[x] \in A /\ f[x] = g[k[x]]
    BY <1>1
  <1>5. \A x, y \in R : f[x] # 0 /\ f[y] # 0 /\ k[x] = k[y] => x = y
    OBVIOUS
  <1> HIDE DEF f, g, k
  <1>6. Total(f) <= Total(g)
    BY <1>2, <1>3, <1>4, <1>5, TotalInto
  <1>7. QED
    BY <1>6 DEF Booking, f, g, R, A

\* Rows that pay hosts, each once, what rewards says, book no more than that.
LEMMA BookingOfRewards ==
  ASSUME NEW rows \in SUBSET RowType, IsFiniteSet(rows), NEW e, NEW c,
         NEW H, IsFiniteSet(H), NEW rewards \in [H -> Nat],
         \A r \in RowsFor(rows, e, c) :
           r.reward # 0 => r.host \in H /\ r.reward = rewards[r.host]
  PROVE  Booking(rows, e, c) <= Total(rewards)
  <1> DEFINE R == RowsFor(rows, e, c)
             f == [r \in R |-> r.reward]
             k == [r \in R |-> r.host]
  <1>1. IsFiniteSet(R) /\ \A r \in R : r.reward \in Nat
    BY RowsFinite
  <1>2. \A r \in R : r.reward # 0 => r.host \in H /\ r.reward = rewards[r.host]
    OBVIOUS
  <1>3. \A r \in R : r = [epoch |-> e, host |-> r.host, cid |-> c, reward |-> r.reward]
    BY DEF RowsFor, RowType
  <1> HIDE DEF R
  <1>4. f \in [R -> Nat]
    BY <1>1
  <1>5. \A x \in R : f[x] # 0 => k[x] \in H /\ f[x] = rewards[k[x]]
    BY <1>2
  <1>6. \A x, y \in R : f[x] # 0 /\ f[y] # 0 /\ k[x] = k[y] => x = y
    <2> SUFFICES ASSUME NEW x \in R, NEW y \in R, f[x] # 0, f[y] # 0, k[x] = k[y]
                 PROVE  x = y
      OBVIOUS
    <2>1. x.host = y.host /\ x.reward = y.reward
      BY <1>2
    <2>2. QED
      BY <1>3, <2>1
  <1> HIDE DEF f, k
  <1>7. Total(f) <= Total(rewards)
    BY <1>1, <1>4, <1>5, <1>6, TotalInto
  <1>8. QED
    BY <1>7 DEF Booking, f, R

LEMMA FloorTimes == \A a \in Nat, b \in Nat \ {0} : b * (a \div b) <= a
  OBVIOUS

LEMMA LeastNext == \A m, n \in Int : ~ (m <= n) => n + 1 <= m
  OBVIOUS

\* The hosts of a CID share no more than the aggregator leaves of the cap.
LEMMA RewardsShareCap ==
  ASSUME NEW bounty \in Nat, NEW batch \in SUBSET Receipt, NEW c,
         NEW uptime \in [Host -> Uptime]
  PROVE  /\ Total(Rewards(bounty, batch, c, uptime)) \in Nat
         /\ 10000 * Total(Rewards(bounty, batch, c, uptime))
              <= CidEpochCap(bounty) * (100 - AGGREGATOR_FEE_PCT)
  <1> DEFINE H == EligibleHosts(batch, c)
             scores == Scores(batch, c, uptime)
             total == Total(scores)
             payable == CidEpochCap(bounty) * (100 - AGGREGATOR_FEE_PCT)
             rewards == Rewards(bounty, batch, c, uptime)
             paid == Total(rewards)
  <1>1. /\ scores \in [H -> Nat] /\ rewards \in [H -> Nat] /\ IsFiniteSet(H)
        /\ total \in Nat /\ paid \in Nat
    <2>1. scores \in [H -> Nat] /\ rewards \in [H -> Nat] /\ IsFiniteSet(H)
      BY ScoresType, RewardsType, GroupTypes
    <2> HIDE DEF scores, rewards, H
    <2>2. QED
      BY <2>1, TotalNat
  <1>2. payable \in Nat
    <2>1. 100 - AGGREGATOR_FEE_PCT \in Nat /\ CidEpochCap(bounty) \in Nat
      BY EconomicsAssumption, CapType
    <2>2. QED
      BY <2>1, TimesNat
  <1>3. rewards = [h \in DOMAIN scores |->
                     IF total <= 0 THEN 0 ELSE (payable * scores[h]) \div (10000 * total)]
    BY DEF Rewards
  <1> HIDE DEF H, scores, payable, rewards
  <1>4. CASE total <= 0
    <2>1. \A h \in H : rewards[h] = 0
      BY <1>1, <1>3, <1>4
    <2>2. paid = 0
      BY <1>1, <2>1, TotalZero
    <2> HIDE DEF paid
    <2>3. 10000 * paid <= payable
      BY <1>2, <2>2
    <2>4. QED
      BY <1>1, <2>3 DEF payable, paid, rewards
  <1>5. CASE total > 0
    <2> DEFINE by == 10000 * total
    <2>1. by \in Nat \ {0}
      BY <1>1, <1>5
    <2>2. \A h \in H : by * rewards[h] <= payable * scores[h]
      <3> SUFFICES ASSUME NEW h \in H
                   PROVE  by * rewards[h] <= payable * scores[h]
        OBVIOUS
      <3>1. rewards[h] = (payable * scores[h]) \div by
        BY <1>1, <1>3, <1>5
      <3>2. payable * scores[h] \in Nat
        BY <1>1, <1>2, TimesNat
      <3> HIDE DEF by
      <3>3. QED
        BY <2>1, <3>1, <3>2, FloorTimes
    <2>3. by * paid <= payable * total
      <3> HIDE DEF by
      <3>1. rewards \in [H -> Int] /\ scores \in [H -> Int] /\ by \in Int /\ payable \in Int
        BY <1>1, <1>2, <2>1
      <3>2. QED
        BY <1>1, <2>2, <3>1, TotalScale
    <2>4. (10000 * paid) * total <= payable * total
      <3> HIDE DEF paid, total
      <3>1. by * paid = (10000 * paid) * total
        BY <1>1
      <3>2. QED
        BY <2>3, <3>1
    <2> HIDE DEF by, total, paid
    <2>5. ASSUME ~ (10000 * paid <= payable)
          PROVE  FALSE
      <3>1. 10000 * paid \in Int /\ payable + 1 <= 10000 * paid
        BY <1>1, <1>2, <2>5, LeastNext
      <3>2. (payable + 1) * total <= (10000 * paid) * total
        BY <1>1, <1>2, <3>1, TimesGrow
      <3>3. (payable + 1) * total = payable * total + total
        BY <1>1, <1>2
      <3>4. payable * total \in Nat /\ (10000 * paid) * total \in Nat
        BY <1>1, <1>2, TimesNat
      <3>5. QED
        BY <1>1, <1>5, <2>4, <3>2, <3>3, <3>4
    <2>6. QED
      BY <1>1, <2>5 DEF payable, paid, rewards
  <1>6. QED
    BY <1>1, <1>4, <1>5

LEMMA CapUnderPool ==
  \A bounty \in Nat : CidEpochCap(bounty) <= 100 * bounty
  <1> SUFFICES ASSUME NEW bounty \in Nat
               PROVE  CidEpochCap(bounty) <= 100 * bounty
    OBVIOUS
  <1> DEFINE x == EPOCH_REWARD_PCT * bounty
             y == 100 * EPOCH_REWARD_BASE_SATS
                    * (1 + Lg((bounty + EPOCH_REWARD_BASE_SATS) \div EPOCH_REWARD_BASE_SATS))
  <1>1. EPOCH_REWARD_PCT \in 0..100 /\ EPOCH_REWARD_BASE_SATS \in Nat \ {0}
    BY EconomicsAssumption
  <1>2. x \in Nat /\ x <= 100 * bounty
    BY <1>1, TimesNat, TimesGrow
  <1>3. y \in Int
    <2>1. Lg((bounty + EPOCH_REWARD_BASE_SATS) \div EPOCH_REWARD_BASE_SATS) \in Nat
      BY <1>1, DivNat, LgType
    <2>2. QED
      BY <1>1, <2>1, TimesNat
  <1>4. CidEpochCap(bounty) = Smaller(x, y)
    BY DEF CidEpochCap
  <1> HIDE DEF x, y
  <1>5. QED
    BY <1>2, <1>3, <1>4 DEF Smaller

\* cidEpochCap caps all that an epoch takes from a pool for the work of its
\* hosts: their rewards and the fee of the aggregator, each rounded down, come
\* to no more than the cap, and so to no more than the pool holds.
THEOREM CapCoversPayout ==
  ASSUME NEW bounty \in Nat, NEW batch \in SUBSET Receipt, NEW c,
         NEW uptime \in [Host -> Uptime]
  PROVE  LET payout == Total(Rewards(bounty, batch, c, uptime)) + AggregatorFee(bounty)
         IN  100 * payout <= CidEpochCap(bounty) /\ payout <= bounty
  <1> DEFINE paid == Total(Rewards(bounty, batch, c, uptime))
             fee == AggregatorFee(bounty)
             cap == CidEpochCap(bounty)
             part == cap * AGGREGATOR_FEE_PCT
  <1>1. /\ paid \in Nat /\ fee \in Nat /\ cap \in Nat /\ cap <= 100 * bounty
        /\ 10000 * paid <= cap * (100 - AGGREGATOR_FEE_PCT)
    <2>1. paid \in Nat /\ 10000 * paid <= cap * (100 - AGGREGATOR_FEE_PCT)
      BY RewardsShareCap
    <2>2. fee \in Nat
      BY FeesType
    <2>3. cap \in Nat /\ cap <= 100 * bounty
      BY CapType, CapUnderPool
    <2> HIDE DEF paid, fee, cap
    <2>4. QED
      BY <2>1, <2>2, <2>3
  <1>2. AGGREGATOR_FEE_PCT \in Nat
    BY EconomicsAssumption
  <1>3. 10000 * fee <= part
    <2>1. fee = part \div 10000
      BY DEF AggregatorFee
    <2>2. part \in Nat
      BY <1>1, <1>2, TimesNat
    <2> HIDE DEF part, fee
    <2>3. QED
      BY <2>1, <2>2, FloorTimes
  <1> HIDE DEF paid, fee, cap
  <1>4. cap * (100 - AGGREGATOR_FEE_PCT) = 100 * cap - part
    BY <1>1, <1>2
  <1>5. part \in Nat
    BY <1>1, <1>2, TimesNat
  <1> HIDE DEF part
  <1>6. 100 * (paid + fee) <= cap
    BY <1>1, <1>3, <1>4, <1>5
  <1>7. paid + fee <= bounty
    BY <1>1, <1>6
  <1>8. QED
    BY <1>6, <1>7 DEF paid, fee, cap

\* The rewards of a CID are at most what its pool holds, and what the drain takes.
LEMMA RewardsCovered ==
  ASSUME NEW bounty \in Nat, NEW batch \in SUBSET Receipt, NEW c,
         NEW uptime \in [Host -> Uptime]
  PROVE  LET rewards == Rewards(bounty, batch, c, uptime)
         IN  /\ Total(rewards) <= bounty
             /\ Total(rewards) <= TotalDrain(bounty, batch, c, rewards)
  <1> DEFINE rewards == Rewards(bounty, batch, c, uptime)
             paid == Total(rewards)
  <1>1. paid \in Nat /\ AggregatorFee(bounty) \in Nat /\ EgressRoyalty(batch, c) \in Nat
    <2>1. paid \in Nat
      BY RewardsShareCap
    <2> HIDE DEF paid
    <2>2. QED
      BY <2>1, FeesType
  <1>2. paid + AggregatorFee(bounty) <= bounty
    BY CapCoversPayout
  <1>3. TotalDrain(bounty, batch, c, rewards)
          = paid + AggregatorFee(bounty) + EgressRoyalty(batch, c)
    BY DEF TotalDrain
  <1> HIDE DEF paid
  <1>4. paid <= bounty /\ paid <= TotalDrain(bounty, batch, c, rewards)
    BY <1>1, <1>2, <1>3
  <1>5. QED
    BY <1>4 DEF paid

LEMMA BooksMade ==
  ASSUME IsFiniteSet(summaries'),
         \A e \in Epoch, c \in PoolKey : charges'[e][c].times = 0 => charges'[e][c].sats = 0,
         aborts' = 0 => \A p \in Slot : BookedBy(task'[p], call'[p], summaries', charges')
  PROVE  BooksInv'
  BY DEF BooksInv

LEMMA KnownRows ==
  ASSUME NEW t, Batched(t) => t \in Run
  PROVE  Known(t) \in SUBSET RowType /\ IsFiniteSet(Known(t))
  <1>1. CASE Batched(t)
    <2> DEFINE rows == t.rows
               D == 1..Len(rows)
               f == [n \in D |-> rows[n]]
    <2>1. rows \in Seq(RowType)
      BY <1>1 DEF Run
    <2>2. Known(t) = ToSet(rows)
      BY <1>1 DEF Known
    <2> HIDE DEF rows
    <2>7. ToSet(rows) = {rows[n] : n \in D}
      BY <2>1 DEF ToSet
    <2>3. Len(rows) \in Nat /\ \A n \in D : rows[n] \in RowType
      BY <2>1
    <2>4. IsFiniteSet(D)
      BY <2>3, FS_Interval
    <2>5. f = [n \in D |-> f[n]] /\ {f[n] : n \in D} = {rows[n] : n \in D}
      OBVIOUS
    <2> HIDE DEF f, D
    <2>6. IsFiniteSet({f[n] : n \in D})
      BY <2>4, <2>5, ImageFinite
    <2>8. IsFiniteSet(ToSet(rows))
      BY <2>5, <2>6, <2>7
    <2>9. ToSet(rows) \in SUBSET RowType
      BY <2>3, <2>7 DEF D
    <2>10. QED
      BY <2>2, <2>8, <2>9
  <1>2. CASE ~ Batched(t)
    BY <1>2, FS_EmptySet DEF Known
  <1>3. QED
    BY <1>1, <1>2

\* The rows written, and those a run in slot p has still to write.
LEMMA AllRows ==
  ASSUME TypeInv, BooksInv, NEW p \in Slot
  PROVE  /\ Known(task[p]) \in SUBSET RowType /\ IsFiniteSet(Known(task[p]))
         /\ summaries \in SUBSET RowType /\ IsFiniteSet(summaries)
         /\ IsFiniteSet(summaries \cup Known(task[p]))
  <1>1. Batched(task[p]) => task[p] \in Run
    BY RunTask DEF Batched
  <1>2. Known(task[p]) \in SUBSET RowType /\ IsFiniteSet(Known(task[p]))
    BY <1>1, KnownRows
  <1>3. summaries \in SUBSET RowType /\ IsFiniteSet(summaries)
    BY DEF TypeInv, TableTypes, BooksInv
  <1>4. QED
    BY <1>2, <1>3, FS_Union

LEMMA SatsTypes ==
  ASSUME TypeInv, NEW p \in Slot, NEW e \in Epoch, NEW c \in PoolKey
  PROVE  charges[e][c].sats \in Nat /\ Promised(task[p], call[p], e, c) \in Nat
  <1>1. charges[e][c].sats \in Nat
    BY DEF TypeInv, TableTypes
  <1>2. call[p].amount \in Nat
    BY DEF TypeInv, IInv, PoolTypeOK, CallRecord
  <1>3. QED
    BY <1>1, <1>2 DEF Promised

\* The handler of the only slot goes on to t, and may know new rows if they earn
\* nothing.
LEMMA BooksHeld ==
  ASSUME \A p, q \in Slot : p = q, TypeInv, BooksInv, NEW p \in Slot,
         NEW t, NEW d, Await(p, t, d), UNCHANGED <<summaries, charges, aborts>>,
         Batched(t) => t \in Run,
         Early(t) => \A s \in summaries : s.epoch # t.epoch,
         \A row \in Known(t) : /\ row \in Known(task[p]) \/ row.reward = 0
                               /\ row.cid \in t.cids => row.reward = 0,
         task[p].pc # "debit" \/ call[p].op \notin {"check", "decrement"},
         t.pc # "debit"
  PROVE  BooksInv'
  <1>1. task'[p] = t /\ call'[p] = d /\ \A q \in Slot : q = p
    BY AwaitSlots
  <1>2. ASSUME aborts = 0
        PROVE  BookedBy(t, d, summaries, charges)
    <2> SUFFICES ASSUME NEW e \in Epoch, NEW c \in PoolKey
                 PROVE  Booking(summaries \cup Known(t), e, c)
                          <= charges[e][c].sats + Promised(t, d, e, c)
      BY DEF BookedBy
    <2> DEFINE all == summaries \cup Known(task[p])
               next == summaries \cup Known(t)
    <2>1. /\ all \in SUBSET RowType /\ IsFiniteSet(all)
          /\ next \in SUBSET RowType /\ IsFiniteSet(next)
      BY AllRows, KnownRows, FS_Union
    <2>2. \A r \in RowsFor(next, e, c) : r \in all \/ r.reward = 0
      BY DEF RowsFor
    <2>3. Booking(all, e, c) <= charges[e][c].sats + Promised(task[p], call[p], e, c)
      BY <1>2 DEF BooksInv, BookedBy
    <2>4. Promised(task[p], call[p], e, c) = 0 /\ Promised(t, d, e, c) = 0
      BY DEF Promised
    <2> HIDE DEF all, next
    <2>5. Booking(next, e, c) <= Booking(all, e, c)
      BY <2>1, <2>2, BookingLess
    <2>6. /\ Booking(next, e, c) \in Nat /\ Booking(all, e, c) \in Nat
          /\ charges[e][c].sats \in Nat
      BY <2>1, RowsFinite, SatsTypes
    <2>7. QED
      BY <2>3, <2>4, <2>5, <2>6 DEF next
  <1>3. QED
    BY <1>1, <1>2, BooksMade DEF BooksInv

\* It goes on to something else than a run that has its receipts.
LEMMA BooksRest ==
  ASSUME \A p, q \in Slot : p = q, TypeInv, BooksInv, NEW p \in Slot,
         NEW t, NEW d, Await(p, t, d), UNCHANGED <<summaries, charges, aborts>>,
         ~ Batched(t), t.pc = "fetch" => SummariesOf(t.epoch) = {}, task[p].pc # "debit"
  PROVE  BooksInv'
  <1>1. Known(t) = {}
    BY DEF Known
  <1>2. t.pc # "debit"
    BY DEF Batched
  <1>3. Early(t) => \A s \in summaries : s.epoch # t.epoch
    BY <1>2 DEF Early, SummariesOf
  <1>4. QED
    BY <1>1, <1>2, <1>3, BooksHeld

\* Its rows and the CIDs it has to take stay as they are.
LEMMA BooksGoOn ==
  ASSUME \A p, q \in Slot : p = q, TypeInv, BooksInv, NEW p \in Slot,
         NEW t \in Run, NEW d, Await(p, t, d), UNCHANGED <<summaries, charges, aborts>>,
         Batched(task[p]), t.pc \in {"cids", "bid"},
         t.epoch = task[p].epoch, t.cids = task[p].cids, t.rows = task[p].rows,
         task[p].pc # "debit" \/ call[p].op \notin {"check", "decrement"}
  PROVE  BooksInv'
  <1> SUFFICES ASSUME aborts = 0
               PROVE  BooksInv'
    BY BooksMade DEF BooksInv
  <1>1. Batched(t) /\ Known(t) = Known(task[p])
    BY DEF Known, Batched
  <1>2. BookedBy(task[p], call[p], summaries, charges)
    BY DEF BooksInv
  <1>3. Early(t) => Early(task[p])
    BY DEF Early
  <1>4. Early(t) => \A s \in summaries : s.epoch # t.epoch
    BY <1>2, <1>3 DEF BookedBy
  <1>5. \A row \in Known(t) : row.cid \in t.cids => row.reward = 0
    BY <1>1, <1>2 DEF BookedBy
  <1>6. QED
    BY <1>1, <1>4, <1>5, BooksHeld

LEMMA BooksElsewhere ==
  ASSUME BooksInv, UNCHANGED <<summaries, charges, task, call>>,
         aborts' = aborts \/ aborts' # 0
  PROVE  BooksInv'
  BY BooksMade DEF BooksInv

LEMMA RequestBooks ==
  ASSUME \A p, q \in Slot : p = q, TypeInv, BooksInv, NEW p \in Slot, Request(p)
  PROVE  BooksInv'
  <1>1. ASSUME NEW t, NEW d, Await(p, t, d), ~ Batched(t), Free(p),
               t.pc = "fetch" => SummariesOf(t.epoch) = {},
               UNCHANGED <<summaries, charges, aborts>>
        PROVE  BooksInv'
    BY <1>1, BooksRest DEF Free, Idle
  <1>2. ASSUME NEW t \in Tip, ReceiveTip(p, t)
        PROVE  BooksInv'
    BY <1>1, <1>2 DEF ReceiveTip, settleVars, Batched
  <1>3. ASSUME NEW r \in Receipt, ReceiveReceipt(p, r)
        PROVE  BooksInv'
    BY <1>1, <1>3 DEF ReceiveReceipt, settleVars, Batched
  <1>4. ASSUME NEW i \in Pin, CreatePin(p, i), UNCHANGED <<settleVars, tips, aborts>>
        PROVE  BooksInv'
    BY <1>1, <1>4 DEF CreatePin, settleVars, Batched
  <1>5. ASSUME NEW i \in Pin, ReadPin(p, i), UNCHANGED <<settleVars, tips, aborts>>
        PROVE  BooksInv'
    <2> DEFINE refund == pins[i].remaining - PinCancelFee(pins[i].remaining)
               t == [pc |-> "cancel", pin |-> i, refund |-> refund]
               d == IF refund > 0 THEN DebitCall(PinCid[i], refund) ELSE NoCall
    <2>1. /\ Await(p, t, d) /\ Free(p) /\ UNCHANGED <<summaries, charges, aborts>>
          /\ t.pc = "cancel"
      BY <1>5 DEF ReadPin, settleVars
    <2> HIDE DEF t, d
    <2>2. QED
      BY <1>1, <2>1 DEF Batched
  <1>6. ASSUME NEW e \in Epoch, StartSettle(p, e), UNCHANGED <<tips, aborts>>
        PROVE  BooksInv'
    <2> DEFINE t == SettleTask("fetch", e, {}, {}, {}, <<>>, NothingLogged)
    <2>1. /\ Await(p, t, NoCall) /\ Free(p) /\ UNCHANGED <<summaries, charges, aborts>>
          /\ t.pc = "fetch" /\ t.epoch = e /\ SummariesOf(e) = {}
      BY <1>6 DEF StartSettle, settleVars, SettleTask
    <2> HIDE DEF t
    <2>2. QED
      BY <1>1, <2>1 DEF Batched
  <1>7. QED
    BY <1>2, <1>3, <1>4, <1>5, <1>6 DEF Request

LEMMA IdleRests == ~ Batched(Idle) /\ Idle.pc # "fetch"
  BY DEF Batched, Idle

LEMMA HandlerBooks ==
  ASSUME \A p, q \in Slot : p = q, TypeInv, BooksInv, NEW p \in Slot,
         \/ AppendTip(p) \/ StoreReceipt(p)
         \/ PinStep(p) /\ UNCHANGED <<settleVars, tips, aborts>>
  PROVE  BooksInv'
  <1>1. CASE AppendTip(p) \/ StoreReceipt(p)
    BY <1>1, IdleRests, BooksRest DEF AppendTip, StoreReceipt, Reply, settleVars
  <1>2. CASE (AppendPinCreate(p) \/ AppendPinCancel(p)) /\ UNCHANGED <<settleVars, tips, aborts>>
    BY <1>2, IdleRests, BooksRest DEF AppendPinCreate, AppendPinCancel, Reply, settleVars
  <1>3. CASE CancelPin(p) /\ UNCHANGED <<settleVars, tips, aborts>>
    <2> DEFINE h == [task[p] EXCEPT !.pc = "cancelLog"]
    <2>1. h.pc = "cancelLog" /\ task[p].pc = "cancel"
      BY <1>3, PinTask DEF CancelPin
    <2>2. Await(p, h, NoCall) /\ UNCHANGED <<summaries, charges, aborts>>
      BY <1>3 DEF CancelPin, settleVars
    <2> HIDE DEF h
    <2>3. QED
      BY <2>1, <2>2, BooksRest DEF Batched
  <1>4. CASE /\ ListActivePins(p) \/ \E i \in Pin : DrainPin(p, i)
             /\ UNCHANGED <<settleVars, tips, aborts>>
    BY <1>4, BooksElsewhere DEF ListActivePins, DrainPin, settleVars, poolVars
  <1>5. QED
    BY <1>1, <1>2, <1>3, <1>4 DEF PinStep

LEMMA AbortBooks ==
  ASSUME TypeInv, BooksInv, NEW p \in Slot, Abort(p)
  PROVE  BooksInv'
  <1>1. aborts' # 0
    BY DEF Abort, TypeInv, TableTypes
  <1>2. QED
    BY <1>1, BooksMade DEF Abort, settleVars, BooksInv

LEMMA OtherBooks ==
  ASSUME BooksInv, Tick \/ Quiet \/ UNCHANGED vars
  PROVE  BooksInv'
  BY BooksElsewhere DEF Tick, Quiet, vars, poolVars, pinVars, settleVars

\* The end of a call for an auto-bid or a debit, and the log.
LEMMA TurnBooks ==
  ASSUME \A p, q \in Slot : p = q, TypeInv, BooksInv, UNCHANGED aborts, NEW p \in Slot,
         \/ StartSweep(p) \/ EndAutoBid(p) \/ AppendSummary(p)
         \/ \E c \in PoolKey : StartAutoBid(p, c)
  PROVE  BooksInv'
  <1> DEFINE r == task[p]
  <1>1. CASE StartSweep(p)
    <2> DEFINE t == [r EXCEPT !.pc = "cids"]
    <2>1. /\ r.pc = "debit" /\ Await(p, t, NoCall) /\ UNCHANGED <<summaries, charges>>
          /\ call[p].op \notin {"check", "decrement"}
      BY <1>1 DEF StartSweep, CallDone, Returned, settleVars
    <2>2. r \in Run
      BY <2>1, RunTask
    <2> HIDE DEF r
    <2>3. t \in Run /\ t.pc = "cids" /\ t.epoch = r.epoch /\ t.cids = r.cids /\ t.rows = r.rows
      BY <2>2 DEF Run
    <2>4. Batched(r)
      BY <2>1 DEF Batched
    <2> HIDE DEF t
    <2>5. QED
      BY <2>1, <2>3, <2>4, BooksGoOn DEF r
  <1>2. CASE EndAutoBid(p)
    <2> DEFINE logged == [r.logged EXCEPT !.credits = @ + ReturnedCredit(p)]
               t == [r EXCEPT !.pc = "cids", !.logged = logged]
    <2>1. r.pc = "bid" /\ Await(p, t, NoCall) /\ UNCHANGED <<summaries, charges>>
      BY <1>2 DEF EndAutoBid, settleVars
    <2>2. r \in Run /\ ReturnedCredit(p) \in Nat
      BY <2>1, RunTask, ReturnedType
    <2>3. logged \in [credits : Nat, debits : Nat]
      BY <2>2 DEF Run
    <2> HIDE DEF r, logged
    <2>4. t \in Run /\ t.pc = "cids" /\ t.epoch = r.epoch /\ t.cids = r.cids /\ t.rows = r.rows
      BY <2>2, <2>3 DEF Run
    <2>5. Batched(r)
      BY <2>1 DEF Batched
    <2> HIDE DEF t
    <2>6. QED
      BY <2>1, <2>4, <2>5, BooksGoOn DEF r
  <1>3. CASE AppendSummary(p)
    BY <1>3, IdleRests, BooksRest DEF AppendSummary, BetweenCids, Reply, settleVars
  <1>4. ASSUME NEW c \in PoolKey, StartAutoBid(p, c)
        PROVE  BooksInv'
    <2> DEFINE d == TipCall(c, AutoBid(r.batch, c))
               t == [r EXCEPT !.pc = "bid", !.bids = @ \ {c}]
    <2>1. r.pc = "cids" /\ Await(p, t, d) /\ UNCHANGED <<summaries, charges>>
      BY <1>4 DEF StartAutoBid, BetweenCids, settleVars
    <2>2. r \in Run
      BY <2>1, RunTask
    <2> HIDE DEF r, d
    <2>3. t \in Run /\ t.pc = "bid" /\ t.epoch = r.epoch /\ t.cids = r.cids /\ t.rows = r.rows
      BY <2>2 DEF Run
    <2>4. Batched(r)
      BY <2>1 DEF Batched
    <2> HIDE DEF t
    <2>5. QED
      BY <2>1, <2>3, <2>4, BooksGoOn DEF r
  <1>5. QED
    BY <1>1, <1>2, <1>3, <1>4

\* The rows of the groups that earn nothing.
LEMMA IneligibleRowsPay ==
  ASSUME NEW e \in Epoch, NEW batch \in SUBSET Receipt
  PROVE  LET rows == IneligibleRows(e, batch)
         IN  \A n \in 1..Len(rows) : rows[n].reward = 0
  <1> DEFINE G == Groups(batch) \ EligibleGroups(batch)
             groups == SetToSeq(G)
             rows == [n \in 1..Len(groups) |-> Row(e, groups[n], 0)]
  <1>1. Len(groups) \in Nat
    <2>1. IsFiniteSet(G)
      BY GroupTypes, FS_Difference
    <2> HIDE DEF G
    <2>2. QED
      BY <2>1, SetToSeqLists
  <1>2. rows = IneligibleRows(e, batch)
    BY DEF IneligibleRows
  <1> HIDE DEF groups
  <1>3. \A n \in 1..Len(groups) : rows[n].reward = 0
    BY DEF Row
  <1>4. Len(rows) = Len(groups)
    BY <1>1
  <1>5. QED
    BY <1>2, <1>3, <1>4

LEMMA FetchBooks ==
  ASSUME \A p, q \in Slot : p = q, TypeInv, BooksInv, UNCHANGED aborts, NEW p \in Slot,
         FetchReceipts(p)
  PROVE  BooksInv'
  <1> SUFFICES ASSUME aborts = 0
               PROVE  BooksInv'
    BY BooksMade DEF BooksInv, FetchReceipts, settleVars
  <1> DEFINE e == task[p].epoch
             batch == {r \in receipts : r.epoch = e}
             t == SettleTask("cids", e, batch, EligibleCids(batch), AutoBidCids(batch),
                             IneligibleRows(e, batch), NothingLogged)
  <1>1. /\ UNCHANGED <<summaries, charges>> /\ task[p].pc = "fetch"
        /\ Await(p, Idle, NoCall) \/ Await(p, t, NoCall)
    BY DEF FetchReceipts, Reply, settleVars
  <1>2. CASE Await(p, Idle, NoCall)
    BY <1>1, <1>2, IdleRests, BooksRest
  <1>3. CASE Await(p, t, NoCall)
    <2>1. e \in Epoch /\ batch \in SUBSET Receipt
      BY <1>1, RunTask DEF Run, TypeInv, TableTypes
    <2>2. t \in Run /\ t.pc = "cids" /\ t.epoch = e
      BY <2>1, Fetched
    <2>3. \A n \in 1..Len(t.rows) : t.rows[n].reward = 0
      <3>1. t.rows = IneligibleRows(e, batch)
        BY DEF SettleTask
      <3> HIDE DEF t, batch
      <3>2. QED
        BY <2>1, <3>1, IneligibleRowsPay
    <2> HIDE DEF t
    <2>4. \A row \in Known(t) : row.reward = 0
      <3>1. t.rows \in Seq(RowType) /\ Batched(t)
        BY <2>2 DEF Run, Batched
      <3>2. QED
        BY <2>3, <3>1 DEF Known, ToSet
    <2>5. \A s \in summaries : s.epoch # e
      BY <1>1 DEF BooksInv, BookedBy, Early
    <2> HIDE DEF e
    <2>6. QED
      BY <1>1, <1>3, <2>2, <2>4, <2>5, BooksHeld
  <1>4. QED
    BY <1>1, <1>2, <1>3

LEMMA CidRowsPay ==
  ASSUME NEW e \in Epoch, NEW c \in PoolKey, NEW batch \in SUBSET Receipt,
         NEW rewards \in [EligibleHosts(batch, c) -> Nat]
  PROVE  LET rows == CidRows(e, c, rewards)
         IN  \A n \in 1..Len(rows) :
               /\ rows[n].epoch = e /\ rows[n].cid = c
               /\ rows[n].host \in EligibleHosts(batch, c)
               /\ rows[n].reward = rewards[rows[n].host]
  <1> DEFINE H == EligibleHosts(batch, c)
             hosts == SetToSeq(H)
             rows == [n \in 1..Len(hosts) |->
                        Row(e, [host |-> hosts[n], cid |-> c], rewards[hosts[n]])]
  <1>1. IsFiniteSet(H)
    BY GroupTypes
  <1>2. rows = CidRows(e, c, rewards)
    BY DEF CidRows
  <1>3. Len(hosts) \in Nat /\ \A n \in 1..Len(hosts) : hosts[n] \in H
    <2> HIDE DEF H
    <2>1. QED
      BY <1>1, SetToSeqLists
  <1> HIDE DEF H, hosts
  <1>4. \A n \in 1..Len(hosts) :
          /\ rows[n].epoch = e /\ rows[n].cid = c
          /\ rows[n].host = hosts[n] /\ rows[n].reward = rewards[hosts[n]]
    BY DEF Row
  <1>5. Len(rows) = Len(hosts)
    BY <1>3
  <1> HIDE DEF rows
  <1>6. QED
    BY <1>2, <1>3, <1>4, <1>5 DEF H

LEMMA ToSetJoin ==
  ASSUME NEW T, NEW a \in Seq(T), NEW b \in Seq(T)
  PROVE  ToSet(a \o b) = ToSet(a) \cup ToSet(b)
  <1> DEFINE ab == a \o b
  <1>1. /\ DOMAIN a = 1..Len(a) /\ DOMAIN b = 1..Len(b) /\ DOMAIN ab = 1..Len(ab)
        /\ Len(a) \in Nat /\ Len(b) \in Nat /\ Len(ab) = Len(a) + Len(b)
        /\ \A n \in 1..Len(a) : n \in 1..Len(ab) /\ ab[n] = a[n]
        /\ \A n \in 1..Len(b) : Len(a) + n \in 1..Len(ab) /\ ab[Len(a) + n] = b[n]
        /\ \A n \in 1..Len(ab) : \/ n \in 1..Len(a) /\ ab[n] = a[n]
                                 \/ n - Len(a) \in 1..Len(b) /\ ab[n] = b[n - Len(a)]
    OBVIOUS
  <1> HIDE DEF ab
  <1>2. /\ ToSet(a) = {a[n] : n \in 1..Len(a)} /\ ToSet(b) = {b[n] : n \in 1..Len(b)}
        /\ ToSet(ab) = {ab[n] : n \in 1..Len(ab)}
    BY <1>1 DEF ToSet
  <1>3. ToSet(ab) \subseteq ToSet(a) \cup ToSet(b)
    BY <1>1, <1>2
  <1>4. ToSet(a) \subseteq ToSet(ab)
    BY <1>1, <1>2
  <1>5. ToSet(b) \subseteq ToSet(ab)
    BY <1>1, <1>2
  <1>6. QED
    BY <1>3, <1>4, <1>5 DEF ab

\* A run takes CID c and issues a debit of most sats, or none: what its rows for
\* c say is covered by the debit.
LEMMA PaidRowsBooked ==
  ASSUME TypeInv, BooksInv, aborts = 0, NEW p \in Slot, NEW c \in PoolKey,
         task[p].pc = "cids", c \in task[p].cids,
         NEW rewards \in [EligibleHosts(task[p].batch, c) -> Nat],
         NEW t \in Run, NEW d, t.epoch = task[p].epoch, t.cids = task[p].cids \ {c},
         t.rows = task[p].rows \o CidRows(task[p].epoch, c, rewards),
         NEW most \in Nat, Total(rewards) <= most,
         \/ t.pc = "cids" /\ most = 0
         \/ t.pc = "debit" /\ d.op = "check" /\ d.key = c /\ d.amount = most
  PROVE  BookedBy(t, d, summaries, charges)
  <1> DEFINE r == task[p]
             e == r.epoch
             H == EligibleHosts(r.batch, c)
             rows == CidRows(e, c, rewards)
             all == summaries \cup Known(r)
             next == summaries \cup Known(t)
  <1>1. r \in Run /\ e \in Epoch /\ r.batch \in SUBSET Receipt /\ Batched(r) /\ Batched(t)
    BY RunTask DEF Run, Batched
  <1>2. /\ rows \in Seq(RowType) /\ IsFiniteSet(H)
        /\ \A n \in 1..Len(rows) : /\ rows[n].epoch = e /\ rows[n].cid = c
                                   /\ rows[n].host \in H /\ rows[n].reward = rewards[rows[n].host]
    <2>1. rows \in Seq(RowType)
      BY <1>1, CidRowsList DEF Lists
    <2>2. IsFiniteSet(H)
      BY <1>1, GroupTypes
    <2>3. \A n \in 1..Len(rows) : /\ rows[n].epoch = e /\ rows[n].cid = c
                                  /\ rows[n].host \in H /\ rows[n].reward = rewards[rows[n].host]
      BY <1>1, CidRowsPay
    <2>4. QED
      BY <2>1, <2>2, <2>3
  <1>3. /\ all \in SUBSET RowType /\ IsFiniteSet(all)
        /\ next \in SUBSET RowType /\ IsFiniteSet(next)
    BY <1>1, AllRows, KnownRows, FS_Union
  <1>4. BookedBy(r, call[p], summaries, charges)
    BY DEF BooksInv
  <1>5. \A s \in summaries : s.epoch # e
    BY <1>1, <1>4 DEF BookedBy, Early
  <1>6. \A row \in Known(r) : row.cid \in r.cids => row.reward = 0
    BY <1>4 DEF BookedBy
  <1>7. \A row \in Known(t) : row \in Known(r) \/ \E n \in 1..Len(rows) : row = rows[n]
    <2> DEFINE old == r.rows
    <2>1. /\ old \in Seq(RowType) /\ Known(r) = ToSet(old) /\ Known(t) = ToSet(old \o rows)
      BY <1>1 DEF Known, Run
    <2> HIDE DEF r, rows, old
    <2>2. ToSet(old \o rows) = ToSet(old) \cup ToSet(rows)
      BY <1>2, <2>1, ToSetJoin
    <2>3. \A row \in ToSet(rows) : \E n \in 1..Len(rows) : row = rows[n]
      BY <1>2 DEF ToSet
    <2>4. QED
      BY <2>1, <2>2, <2>3
  <1>8. \A row \in Known(t) : row.cid \in t.cids => row.reward = 0
    BY <1>2, <1>6, <1>7
  <1>9. Total(rewards) \in Nat
    BY <1>2, TotalNat
  <1> HIDE DEF rows, H, all, next
  <1>10. ASSUME NEW f \in Epoch, NEW k \in PoolKey
         PROVE  Booking(next, f, k) <= charges[f][k].sats + Promised(t, d, f, k)
    <2>1. /\ charges[f][k].sats \in Nat /\ Promised(t, d, f, k) \in Nat
          /\ Booking(next, f, k) \in Nat /\ Booking(all, f, k) \in Nat
      BY <1>3, SatsTypes, RowsFinite DEF Promised
    <2>2. CASE f = e /\ k = c
      <3>1. \A row \in RowsFor(next, e, c) :
              row.reward # 0 => row.host \in H /\ row.reward = rewards[row.host]
        <4> SUFFICES ASSUME NEW row \in next, row.epoch = e, row.cid = c, row.reward # 0
                     PROVE  row.host \in H /\ row.reward = rewards[row.host]
          BY DEF RowsFor
        <4>1. row \in Known(t)
          BY <1>5 DEF next
        <4>2. QED
          BY <1>2, <1>6, <1>7, <4>1
      <3>2. Booking(next, e, c) <= Total(rewards)
        BY <1>2, <1>3, <3>1, BookingOfRewards DEF H
      <3>3. most <= Promised(t, d, e, c)
        BY <1>1 DEF Promised
      <3>4. QED
        BY <1>9, <2>1, <2>2, <3>2, <3>3
    <2>3. CASE ~ (f = e /\ k = c)
      <3>1. \A row \in RowsFor(next, f, k) : row \in all \/ row.reward = 0
        BY <1>2, <1>7, <2>3 DEF RowsFor, next, all
      <3>2. Booking(next, f, k) <= Booking(all, f, k)
        BY <1>3, <3>1, BookingLess
      <3>3. Booking(all, f, k) <= charges[f][k].sats
        <4>1. Booking(all, f, k) <= charges[f][k].sats + Promised(r, call[p], f, k)
          BY <1>4 DEF BookedBy, all
        <4>2. Promised(r, call[p], f, k) = 0
          BY DEF Promised
        <4>3. QED
          BY <2>1, <4>1, <4>2
      <3>4. QED
        BY <2>1, <3>2, <3>3
    <2>4. QED
      BY <2>2, <2>3
  <1>11. QED
    BY <1>5, <1>8, <1>10 DEF BookedBy, next

LEMMA CidBooks ==
  ASSUME \A p, q \in Slot : p = q, TypeInv, BooksInv, UNCHANGED aborts, NEW p \in Slot,
         NEW c \in PoolKey, SkipCid(p, c) \/ \E uptime \in [Host -> Uptime] : PayCid(p, c, uptime)
  PROVE  BooksInv'
  <1>1. UNCHANGED <<summaries, charges>> /\ task[p].pc = "cids" /\ c \in task[p].cids
    BY DEF SkipCid, PayCid, BetweenCids, settleVars
  <1> SUFFICES ASSUME aborts = 0
               PROVE  BooksInv'
    BY <1>1, BooksMade DEF BooksInv
  <1> DEFINE r == task[p]
             H == EligibleHosts(r.batch, c)
  <1>2. ASSUME NEW t, NEW d, Await(p, t, d), BookedBy(t, d, summaries, charges)
        PROVE  BooksInv'
    <2>1. task'[p] = t /\ call'[p] = d /\ \A q \in Slot : q = p
      BY <1>2, AwaitSlots
    <2>2. QED
      BY <1>1, <1>2, <2>1, BooksMade DEF BooksInv
  <1>3. r \in Run /\ r.batch \in SUBSET Receipt /\ r.epoch \in Epoch /\ IsFiniteSet(H)
    BY <1>1, RunTask, GroupTypes DEF Run
  <1>4. CASE SkipCid(p, c)
    <2> DEFINE nothing == [h \in H |-> 0]
               rows == CidRows(r.epoch, c, nothing)
               t == [r EXCEPT !.cids = @ \ {c}, !.rows = @ \o rows]
    <2>1. Await(p, t, NoCall)
      BY <1>4 DEF SkipCid
    <2>2. nothing \in [H -> Nat] /\ Total(nothing) = 0
      <3>1. nothing \in [H -> Nat] /\ \A h \in H : nothing[h] = 0
        OBVIOUS
      <3> HIDE DEF nothing, H
      <3>2. QED
        BY <1>3, <3>1, TotalZero
    <2>3. rows \in Seq(RowType)
      BY <1>3, <2>2, CidRowsList DEF Lists
    <2> HIDE DEF nothing
    <2>4. t \in Run /\ t.pc = "cids" /\ t.epoch = r.epoch /\ t.cids = r.cids \ {c} /\ t.rows = r.rows \o rows
      <3> DEFINE more == r.rows \o rows
      <3>1. more \in Seq(RowType)
        BY <1>3, <2>3 DEF Run
      <3> HIDE DEF more
      <3>2. [r EXCEPT !.cids = @ \ {c}, !.rows = more] \in Run
        BY <1>3, <3>1 DEF Run
      <3>3. QED
        BY <1>1, <1>3, <3>2 DEF Run, more
    <2> HIDE DEF t
    <2> HIDE DEF r, rows, H
    <2>5. BookedBy(t, NoCall, summaries, charges)
      <3>1. 0 \in Nat /\ Total(nothing) <= 0
        BY <2>2
      <3>2. QED
        BY <1>1, <2>2, <2>4, <3>1, PaidRowsBooked DEF r, rows, H
    <2>6. QED
      BY <1>2, <2>1, <2>5
  <1>5. ASSUME NEW uptime \in [Host -> Uptime], PayCid(p, c, uptime)
        PROVE  BooksInv'
    <2> DEFINE rewards == Rewards(balance[c], r.batch, c, uptime)
               drain == TotalDrain(balance[c], r.batch, c, rewards)
               actualDrain == Smaller(drain, balance[c])
               rows == CidRows(r.epoch, c, rewards)
               owed == [r EXCEPT !.cids = @ \ {c}, !.rows = @ \o rows, !.logged.debits = @ + drain]
               next == [owed EXCEPT !.pc = "debit"]
               d == DebitCall(c, actualDrain)
    <2>1. /\ balance[c] > 0
          /\ \/ actualDrain <= 0 /\ Await(p, owed, NoCall)
             \/ Await(p, next, d)
      BY <1>5 DEF PayCid
    <2>2. balance[c] \in Nat
      BY <2>1 DEF TypeInv, IInv, PoolTypeOK
    <2>3. rewards \in [H -> Nat] /\ drain \in Nat
      BY <1>3, <2>2, RewardsType, DrainType
    <2>4. Total(rewards) <= drain /\ Total(rewards) <= balance[c] /\ Total(rewards) \in Nat
      <3>1. Total(rewards) <= drain /\ Total(rewards) <= balance[c]
        BY <1>3, <2>2, RewardsCovered
      <3> HIDE DEF rewards, H
      <3>2. QED
        BY <1>3, <2>3, <3>1, TotalNat
    <2>5. rows \in Seq(RowType)
      BY <1>3, <2>3, CidRowsList DEF Lists
    <2>6. d.op = "check" /\ d.key = c /\ d.amount = actualDrain
      BY DEF DebitCall, NewCall
    <2>7. actualDrain \in Nat /\ Total(rewards) <= actualDrain
      <3> HIDE DEF rewards, drain
      <3>1. QED
        BY <2>2, <2>3, <2>4 DEF Smaller
    <2> HIDE DEF r, rows, rewards, drain, actualDrain, d, H
    <2>8. /\ owed \in Run /\ owed.pc = "cids" /\ owed.epoch = r.epoch
          /\ owed.cids = r.cids \ {c} /\ owed.rows = r.rows \o rows
      <3> DEFINE more == r.rows \o rows
                 logged == [r.logged EXCEPT !.debits = @ + drain]
      <3>1. more \in Seq(RowType)
        BY <1>3, <2>5 DEF Run
      <3>2. logged \in [credits : Nat, debits : Nat]
        BY <1>3, <2>3 DEF Run
      <3>3. owed = [r EXCEPT !.cids = @ \ {c}, !.rows = more, !.logged = logged]
        OBVIOUS
      <3>4. r.pc = "cids"
        BY <1>1 DEF r
      <3> HIDE DEF more, logged, owed
      <3>5. QED
        BY <1>3, <3>1, <3>2, <3>3, <3>4 DEF Run, more
    <2> HIDE DEF owed
    <2>9. /\ next \in Run /\ next.pc = "debit" /\ next.epoch = r.epoch
          /\ next.cids = r.cids \ {c} /\ next.rows = r.rows \o rows
      BY <2>8 DEF Run
    <2> HIDE DEF next
    <2>10. CASE actualDrain <= 0 /\ Await(p, owed, NoCall)
      <3>1. actualDrain = 0
        BY <2>7, <2>10
      <3>2. BookedBy(owed, NoCall, summaries, charges)
        BY <1>1, <2>3, <2>7, <2>8, <3>1, PaidRowsBooked DEF r, rows, H
      <3>3. QED
        BY <1>2, <2>10, <3>2
    <2>11. CASE Await(p, next, d)
      <3>1. BookedBy(next, d, summaries, charges)
        BY <1>1, <2>3, <2>6, <2>7, <2>9, PaidRowsBooked DEF r, rows, H
      <3>2. QED
        BY <1>2, <2>11, <3>1
    <2>12. QED
      BY <2>1, <2>10, <2>11
  <1>6. QED
    BY <1>4, <1>5

LEMMA BookedBooking ==
  ASSUME NEW rows, NEW e, NEW c
  PROVE  /\ Books!RowsOf(rows, e, c) = RowsFor(rows, e, c)
         /\ Books!Booked(rows, e, c) = Booking(rows, e, c)
  <1>1. Books!RowsOf(rows, e, c) = RowsFor(rows, e, c)
    BY DEF Books!RowsOf, RowsFor
  <1> DEFINE f == [r \in RowsFor(rows, e, c) |-> r.reward]
  <1>2. Books!Booked(rows, e, c) = Books!Total(f) /\ Booking(rows, e, c) = Total(f)
    BY <1>1 DEF Books!Booked, Booking
  <1> HIDE DEF f
  <1>3. Books!Total(f) = Total(f)
    BY DEF Books!Total, Total, Books!MapThenSumSet, MapThenSumSet,
           Books!MapThenFoldSet, MapThenFoldSet
  <1>4. QED
    BY <1>1, <1>2, <1>3


\* What EpochBooks sees of a table of charges.
PaidFrom(table) == [e \in Epoch |-> [c \in PoolKey |-> table[e][c].sats]]

BooksMove == [Books!Next]_<<PaidFrom(charges), summaries>>

LEMMA BooksStay ==
  ASSUME UNCHANGED <<charges, summaries>>
  PROVE  BooksMove
  BY DEF BooksMove, PaidFrom

\* A duplicate stops the run.  Any other row was known, and is covered.
LEMMA PersistBooks ==
  ASSUME \A p, q \in Slot : p = q, TypeInv, BooksInv, UNCHANGED aborts, NEW p \in Slot,
         PersistSummary(p)
  PROVE  BooksInv' /\ (aborts = 0 => BooksMove)
  <1> DEFINE r == task[p]
             rows == r.rows
             row == Head(rows)
             tail == Tail(rows)
             t == [r EXCEPT !.rows = tail]
             duplicate == \E s \in SummariesOf(row.epoch) : s.host = row.host /\ s.cid = row.cid
  <1>1. /\ r.pc = "cids" /\ r.cids = {} /\ rows # <<>> /\ UNCHANGED charges
        /\ \/ Await(p, Idle, NoCall) /\ UNCHANGED summaries
           \/ Await(p, t, NoCall) /\ ~ duplicate /\ summaries' = summaries \cup {row}
    BY DEF PersistSummary, BetweenCids, Reply
  <1>2. CASE Await(p, Idle, NoCall) /\ UNCHANGED summaries
    BY <1>1, <1>2, IdleRests, BooksRest, BooksStay
  <1>3. CASE Await(p, t, NoCall) /\ ~ duplicate /\ summaries' = summaries \cup {row}
    <2>1. r \in Run /\ Batched(r) /\ rows \in Seq(RowType)
      BY <1>1, RunTask DEF Run, Batched
    <2> HIDE DEF rows
    <2>2. /\ row \in RowType /\ tail \in Seq(RowType) /\ row \in ToSet(rows)
          /\ ToSet(tail) \subseteq ToSet(rows)
      <3>1. /\ row \in RowType /\ tail \in Seq(RowType)
            /\ \E n \in 1..Len(rows) : rows[n] = row
            /\ \A n \in 1..Len(tail) : \E m \in 1..Len(rows) : tail[n] = rows[m]
        BY <1>1, <2>1, KeysTail
      <3> HIDE DEF row, tail
      <3>2. /\ ToSet(rows) = {rows[n] : n \in 1..Len(rows)}
            /\ ToSet(tail) = {tail[n] : n \in 1..Len(tail)}
        BY <2>1, <3>1 DEF ToSet
      <3>3. ToSet(tail) \subseteq ToSet(rows) /\ row \in ToSet(rows)
        BY <3>1, <3>2
      <3>4. QED
        BY <3>1, <3>3
    <2>3. Known(r) = ToSet(rows)
      BY <2>1 DEF Known, rows
    <2> HIDE DEF row, tail
    <2>4. /\ t \in Run /\ t.pc = "cids" /\ t.epoch = r.epoch /\ t.cids = {} /\ t.rows = tail
      BY <1>1, <2>1, <2>2 DEF Run
    <2> HIDE DEF t
    <2>5. Batched(t) /\ Known(t) = ToSet(tail)
      BY <2>4 DEF Known, Batched
    <2> DEFINE all == summaries \cup Known(r)
               table == summaries \cup {row}
               next == table \cup Known(t)
    <2>6. /\ all \in SUBSET RowType /\ IsFiniteSet(all)
          /\ table \in SUBSET RowType /\ IsFiniteSet(table)
          /\ next \in SUBSET RowType /\ IsFiniteSet(next)
          /\ table \subseteq all /\ next \subseteq all
      <3>1. all \in SUBSET RowType /\ IsFiniteSet(all)
        BY AllRows
      <3>2. table \subseteq all /\ next \subseteq all
        BY <2>2, <2>3, <2>5
      <3> HIDE DEF all, table, next
      <3>3. QED
        BY <3>1, <3>2, FS_Subset
    <2>7. ASSUME aborts = 0, NEW e \in Epoch, NEW c \in PoolKey
          PROVE  /\ Booking(table, e, c) <= charges[e][c].sats
                 /\ Booking(next, e, c) <= charges[e][c].sats + Promised(t, NoCall, e, c)
      <3>1. Booking(all, e, c) <= charges[e][c].sats + Promised(r, call[p], e, c)
        BY <2>7 DEF BooksInv, BookedBy
      <3>2. Promised(r, call[p], e, c) = 0 /\ Promised(t, NoCall, e, c) = 0
        BY <1>1, <2>4 DEF Promised
      <3> HIDE DEF all, table, next
      <3>3. \A x \in RowsFor(table, e, c) : x \in all
        BY <2>6 DEF RowsFor
      <3>4. \A x \in RowsFor(next, e, c) : x \in all
        BY <2>6 DEF RowsFor
      <3>5. Booking(table, e, c) <= Booking(all, e, c)
        BY <2>6, <3>3, BookingLess
      <3>6. Booking(next, e, c) <= Booking(all, e, c)
        BY <2>6, <3>4, BookingLess
      <3>7. /\ Booking(all, e, c) \in Nat /\ Booking(table, e, c) \in Nat
            /\ Booking(next, e, c) \in Nat /\ charges[e][c].sats \in Nat
        BY <2>6, <2>7, RowsFinite, SatsTypes
      <3>8. QED
        BY <3>1, <3>2, <3>5, <3>6, <3>7
    <2>8. task'[p] = t /\ call'[p] = NoCall /\ summaries' = table /\ \A q \in Slot : q = p
      BY <1>3, AwaitSlots
    <2>9. BooksInv'
      <3>1. ASSUME aborts = 0
            PROVE  BookedBy(t, NoCall, table, charges)
        <4>1. ~ Early(t) /\ t.cids = {}
          BY <2>4 DEF Early
        <4>2. QED
          BY <2>7, <3>1, <4>1 DEF BookedBy
      <3> HIDE DEF table
      <3>2. QED
        BY <1>1, <2>6, <2>8, <3>1, BooksMade DEF BooksInv
    <2>10. ASSUME aborts = 0
           PROVE  BooksMove
      <3> DEFINE e == row.epoch
                 c == row.cid
      <3>1. e \in Epoch /\ c \in PoolKey
        BY <2>2 DEF RowType
      <3>2. \A s \in RowsFor(summaries, e, c) : s.host # row.host
        BY <1>3 DEF RowsFor, SummariesOf
      <3>3. Booking(summaries', e, c) <= PaidFrom(charges)[e][c]
        BY <2>7, <2>8, <2>10, <3>1 DEF PaidFrom
      <3>4. Books!Book(row)
        <4>1. /\ \A s \in Books!RowsOf(summaries, e, c) : s.host # row.host
              /\ Books!Booked(summaries', e, c) <= PaidFrom(charges)[e][c]
          BY <3>2, <3>3, BookedBooking
        <4>2. UNCHANGED PaidFrom(charges)
          BY <1>1 DEF PaidFrom
        <4>3. QED
          BY <1>3, <4>1, <4>2 DEF Books!Book, PaidFrom
      <3>5. row \in summaries'
        BY <2>8
      <3>6. QED
        BY <3>4, <3>5 DEF BooksMove, Books!Next
    <2>11. QED
      BY <2>9, <2>10
  <1>4. QED
    BY <1>1, <1>2, <1>3

\* A debit lands in the books as the one charge of its CID for its epoch, while
\* nothing of the epoch is written.
LEMMA CallBooks ==
  ASSUME \A p, q \in Slot : p = q, TypeInv, ChargesInv, PinsInv, BooksInv, UNCHANGED aborts,
         NEW p \in Slot, RunPoolCall(p)
  PROVE  BooksInv' /\ (aborts = 0 => BooksMove)
  <1> DEFINE t == task[p]
             d == call[p]
             e == t.epoch
             k == d.key
             debit == t.pc = "debit" /\ d.op = "decrement"
             new == [times |-> charges[e][k].times + 1, sats |-> charges[e][k].sats + d.amount]
  <1>1. /\ PoolStep(p) /\ UNCHANGED <<task, summaries>>
        /\ charges' = IF debit THEN [charges EXCEPT ![e][k] = new] ELSE charges
    BY DEF RunPoolCall, pinVars
  <1>2. charges \in [Epoch -> [PoolKey -> [times : Nat, sats : Nat]]] /\ d.amount \in Nat
    BY DEF TypeInv, TableTypes, IInv, PoolTypeOK, CallRecord
  <1>3. /\ call'[p].key = k /\ call'[p].amount = d.amount
        /\ d.op \in {"volume", "credit", "direct", "decrement", "check"}
        /\ d.op # "check" => call'[p].op \notin {"check", "decrement"}
        /\ d.op = "check" => call'[p].op \in {"refused", "decrement"}
    BY <1>1, CallRuns
  <1>4. \A q \in Slot : q = p
    OBVIOUS
  <1>5. CASE debit
    <2>1. e \in Epoch /\ k \in PoolKey
      BY <1>5, RunTask DEF Run, TypeInv, Locals, Local
    <2>2. charges' = [charges EXCEPT ![e][k] = new] /\ new \in [times : Nat, sats : Nat]
      <3>1. charges[e][k] \in [times : Nat, sats : Nat]
        BY <1>2, <2>1
      <3>2. new \in [times : Nat, sats : Nat]
        BY <1>2, <3>1
      <3> HIDE DEF new, e, k, d, t
      <3>3. QED
        BY <1>1, <1>5, <3>2
    <2>3. new.times > 0 /\ new.sats = charges[e][k].sats + d.amount
      BY <1>2, <2>1
    <2>4. call'[p].op \notin {"check", "decrement"}
      BY <1>3, <1>5
    <2> HIDE DEF new, e, k, d, t
    <2>5. /\ charges'[e][k].times > 0
          /\ charges'[e][k].sats = charges[e][k].sats + d.amount
          /\ \A f \in Epoch, c \in PoolKey : (f = e /\ c = k) \/ charges'[f][c] = charges[f][c]
      BY <1>2, <2>1, <2>2, <2>3
    <2>6. \A f \in Epoch, c \in PoolKey : charges'[f][c].times = 0 => charges'[f][c].sats = 0
      BY <2>5 DEF BooksInv
    <2>7. ASSUME aborts = 0
          PROVE  BookedBy(t, call'[p], summaries, charges')
      <3>1. BookedBy(t, d, summaries, charges)
        BY <2>7 DEF BooksInv, t, d
      <3>2. ASSUME NEW f \in Epoch, NEW c \in PoolKey
            PROVE  Booking(summaries \cup Known(t), f, c)
                     <= charges'[f][c].sats + Promised(t, call'[p], f, c)
        <4> DEFINE booked == Booking(summaries \cup Known(t), f, c)
        <4>1. booked <= charges[f][c].sats + Promised(t, d, f, c)
          BY <3>1 DEF BookedBy
        <4>2. Promised(t, call'[p], f, c) = 0
          BY <2>4 DEF Promised
        <4>3. Promised(t, d, f, c) = IF f = e /\ c = k THEN d.amount ELSE 0
          BY <1>5 DEF Promised, t, d, e, k
        <4>4. booked \in Nat /\ charges[f][c].sats \in Nat
          <5>1. /\ summaries \cup Known(t) \in SUBSET RowType
                /\ IsFiniteSet(summaries \cup Known(t))
            BY AllRows DEF t
          <5>2. QED
            BY <1>2, <5>1, RowsFinite
        <4> HIDE DEF booked
        <4>5. QED
          BY <1>2, <2>5, <4>1, <4>2, <4>3, <4>4 DEF booked
      <3>3. QED
        BY <3>1, <3>2 DEF BookedBy
    <2>8. BooksInv'
      <3>1. aborts' = 0 => \A q \in Slot : BookedBy(task'[q], call'[q], summaries', charges')
        BY <1>1, <1>4, <2>7 DEF t
      <3>2. IsFiniteSet(summaries')
        BY <1>1 DEF BooksInv
      <3>3. QED
        BY <2>6, <3>1, <3>2, BooksMade
    <2>9. ASSUME aborts = 0
          PROVE  BooksMove
      <3>1. \A s \in summaries : s.epoch # e
        BY <1>5, <2>9 DEF BooksInv, BookedBy, Early, t, e
      <3>2. charges[e][k].sats = 0
        <4>1. MayStill(t, d, e, k)
          BY <1>5 DEF MayStill, RunsOn, t, d, e, k
        <4>2. charges[e][k].times = 0
          BY <2>1, <2>9, <4>1, FreshCharge DEF t, d
        <4>3. QED
          BY <2>1, <4>2 DEF BooksInv
      <3>3. d.amount > 0
        BY <1>5, <2>9 DEF PinsInv, Solvent, t, d
      <3>4. /\ PaidFrom(charges)[e][k] = 0 /\ PaidFrom(charges)'[e][k] > 0
            /\ PaidFrom(charges)' = [PaidFrom(charges) EXCEPT ![e][k] = PaidFrom(charges)'[e][k]]
        <4>1. PaidFrom(charges)[e][k] = 0
          BY <2>1, <3>2 DEF PaidFrom
        <4>2. PaidFrom(charges)'[e][k] = d.amount
          BY <1>2, <2>1, <2>5, <3>2 DEF PaidFrom
        <4>3. PaidFrom(charges)' = [PaidFrom(charges) EXCEPT ![e][k] = d.amount]
          <5> DEFINE a == PaidFrom(charges)
                     b == PaidFrom(charges')
          <5>1. a \in [Epoch -> [PoolKey -> Nat]]
            BY <1>2 DEF PaidFrom
          <5>2. b = [f \in Epoch |-> [c \in PoolKey |-> b[f][c]]]
            BY DEF PaidFrom
          <5>3. \A f \in Epoch, c \in PoolKey : (f = e /\ c = k) \/ b[f][c] = a[f][c]
            BY <2>5 DEF PaidFrom
          <5>4. b[e][k] = d.amount
            BY <1>2, <2>1, <2>5, <3>2 DEF PaidFrom
          <5> HIDE DEF a, b
          <5>5. b = [a EXCEPT ![e][k] = d.amount]
            <6> DEFINE m == [a EXCEPT ![e][k] = d.amount]
            <6>1. m = [f \in Epoch |-> [c \in PoolKey |-> m[f][c]]]
              BY <2>1, <5>1
            <6>2. \A f \in Epoch, c \in PoolKey : m[f][c] = b[f][c]
              BY <2>1, <5>1, <5>3, <5>4
            <6> HIDE DEF m
            <6>3. QED
              BY <5>2, <6>1, <6>2 DEF m
          <5>6. QED
            BY <5>5 DEF a, b, PaidFrom
        <4>4. QED
          BY <1>2, <3>3, <4>1, <4>2, <4>3
      <3>5. PICK f \in Epoch, c \in PoolKey : f = e /\ c = k
        BY <2>1
      <3>6. Books!Charge(f, c)
        BY <1>1, <3>1, <3>4, <3>5 DEF Books!Charge, PaidFrom
      <3>7. QED
        BY <3>6 DEF BooksMove, Books!Next
    <2>10. QED
      BY <2>8, <2>9
  <1>6. CASE ~ debit
    <2>1. UNCHANGED charges
      BY <1>1, <1>6
    <2>2. ASSUME aborts = 0
          PROVE  BookedBy(t, call'[p], summaries, charges)
      <3>1. BookedBy(t, d, summaries, charges)
        BY <2>2 DEF BooksInv
      <3>2. t.pc = "debit" => d.op = "check" /\ call'[p].op = "decrement"
        <4>1. t.pc = "debit" => d.op \in {"check", "decrement", "done", "refused"}
          BY DEF TypeInv, Locals, Local
        <4>2. t.pc = "debit" => call'[p].op # "refused"
          <5>1. PinsInv'
            BY CallDrains
          <5>2. QED
            BY <1>1, <2>2, <5>1 DEF PinsInv, Solvent
        <4>3. QED
          BY <1>3, <1>6, <4>1, <4>2
      <3>3. \A f \in Epoch, c \in PoolKey :
              Promised(t, call'[p], f, c) = Promised(t, d, f, c)
        BY <1>3, <3>2 DEF Promised
      <3> HIDE DEF t, d
      <3>4. QED
        BY <3>1, <3>3 DEF BookedBy
    <2>3. BooksInv'
      <3>1. aborts' = 0 => \A q \in Slot : BookedBy(task'[q], call'[q], summaries', charges')
        BY <1>1, <1>4, <2>1, <2>2
      <3>2. QED
        BY <1>1, <2>1, <3>1, BooksMade DEF BooksInv
    <2>4. QED
      BY <1>1, <2>1, <2>3, BooksStay
  <1>7. QED
    BY <1>5, <1>6

LEMMA BooksInit == Init => BooksInv
  <1> SUFFICES ASSUME Init
               PROVE  BooksInv
    OBVIOUS
  <1>1. summaries = {} /\ \A e \in Epoch, c \in PoolKey : charges[e][c] = [times |-> 0, sats |-> 0]
    BY DEF Init, SettleInit
  <1>2. ASSUME NEW p \in Slot
        PROVE  BookedBy(task[p], call[p], summaries, charges)
    <2>1. task[p] = Idle
      BY DEF Init, PinInit
    <2>2. ~ Early(task[p]) /\ Known(task[p]) = {}
      BY <2>1, IdleRests DEF Early, Known, Idle
    <2>3. ASSUME NEW e \in Epoch, NEW c \in PoolKey
          PROVE  Booking({}, e, c) <= charges[e][c].sats + Promised(task[p], call[p], e, c)
      <3> DEFINE f == [r \in RowsFor({}, e, c) |-> r.reward]
      <3>1. f \in [{} -> Int]
        BY DEF RowsFor
      <3>2. Booking({}, e, c) = Total(f)
        BY DEF Booking
      <3> HIDE DEF f
      <3>3. Total(f) = 0
        BY <3>1, TotalEmpty
      <3>4. Promised(task[p], call[p], e, c) = 0
        BY <2>1 DEF Promised, Idle
      <3>5. QED
        BY <1>1, <3>2, <3>3, <3>4
    <2>4. QED
      BY <1>1, <2>2, <2>3 DEF BookedBy
  <1>3. QED
    BY <1>1, <1>2, FS_EmptySet DEF BooksInv

LEMMA BooksStep ==
  ASSUME \A p, q \in Slot : p = q
  PROVE  TypeInv /\ ChargesInv /\ PinsInv /\ BooksInv /\ [Next]_vars
           => BooksInv' /\ (aborts = 0 => BooksMove)
  <1> SUFFICES ASSUME TypeInv, ChargesInv, PinsInv, BooksInv, [Next]_vars
               PROVE  BooksInv' /\ (aborts = 0 => BooksMove)
    OBVIOUS
  <1>1. ASSUME NEW p \in Slot, Request(p)
        PROVE  BooksInv' /\ BooksMove
    <2>1. UNCHANGED <<charges, summaries>>
      BY <1>1 DEF Request, ReceiveTip, ReceiveReceipt, StartSettle, settleVars
    <2>2. QED
      BY <1>1, <2>1, RequestBooks, BooksStay
  <1>2. ASSUME NEW p \in Slot, \/ AppendTip(p) \/ StoreReceipt(p)
                               \/ PinStep(p) /\ UNCHANGED <<settleVars, tips, aborts>>
        PROVE  BooksInv' /\ BooksMove
    <2>1. UNCHANGED <<charges, summaries>>
      BY <1>2 DEF AppendTip, StoreReceipt, settleVars
    <2>2. QED
      BY <1>2, <2>1, HandlerBooks, BooksStay
  <1>3. ASSUME NEW p \in Slot, SettleStep(p), UNCHANGED <<tips, aborts>>
        PROVE  BooksInv' /\ (aborts = 0 => BooksMove)
    <2>1. CASE FetchReceipts(p)
      BY <1>3, <2>1, FetchBooks, BooksStay DEF FetchReceipts, settleVars
    <2>2. CASE StartSweep(p) \/ EndAutoBid(p) \/ AppendSummary(p)
      BY <1>3, <2>2, TurnBooks, BooksStay DEF StartSweep, EndAutoBid, AppendSummary, settleVars
    <2>3. ASSUME NEW c \in PoolKey,
                 SkipCid(p, c) \/ \E uptime \in [Host -> Uptime] : PayCid(p, c, uptime)
          PROVE  BooksInv' /\ BooksMove
      BY <1>3, <2>3, CidBooks, BooksStay DEF SkipCid, PayCid, settleVars
    <2>4. ASSUME NEW c \in PoolKey, StartAutoBid(p, c)
          PROVE  BooksInv' /\ BooksMove
      BY <1>3, <2>4, TurnBooks, BooksStay DEF StartAutoBid, settleVars
    <2>5. QED
      BY <1>3, <2>1, <2>2, <2>3, <2>4, PersistBooks, CallBooks DEF SettleStep
  <1>4. ASSUME NEW p \in Slot, Abort(p)
        PROVE  BooksInv' /\ BooksMove
    BY <1>4, AbortBooks, BooksStay DEF Abort, settleVars
  <1>5. CASE Tick \/ Quiet \/ UNCHANGED vars
    BY <1>5, OtherBooks, BooksStay DEF Tick, Quiet, vars, settleVars
  <1>6. QED
    BY <1>1, <1>2, <1>3, <1>4, <1>5 DEF Next, Continue

\* Served one at a time and with no handler stopped halfway, settlements keep
\* the books as EpochBooks promises: every step of the coordinator is a charge,
\* a booking, or none of the two.
THEOREM SettlementKeepsBooks ==
  ASSUME \A p, q \in Slot : p = q
  PROVE  Spec /\ [](aborts = 0) => BooksKept
  <1>1. Init => Books!Init
    BY DEF Init, SettleInit, Books!Init
  <1>2. /\ TypeInv /\ ChargesInv /\ PinsInv /\ BooksInv /\ [Next]_vars /\ aborts = 0
        => [Books!Next]_<<[e \in Epoch |-> [c \in PoolKey |-> charges[e][c].sats]], summaries>>
    BY BooksStep DEF BooksMove, PaidFrom
  <1>3. TypeInv /\ ChargesInv /\ PinsInv /\ BooksInv /\ [Next]_vars => BooksInv'
    BY BooksStep
  <1>4. TypeInv /\ ChargesInv /\ PinsInv /\ [Next]_vars => PinsInv'
    BY PinsStep
  <1>5. QED
    BY <1>1, <1>2, <1>3, <1>4, TypeInit, TypeStep, SummaryInit, SummaryStep, ChargesInit,
       ChargesStep, PinsInit, BooksInit, PTL DEF Spec, BooksKept, Books!Spec
-------------------------------------------------------------------------------
(* Pins that ended.                                                        *)

Ended(i) == pins[i].status \in {"EXHAUSTED", "CANCELLED"}

LEMMA EndedUnwritten ==
  UNCHANGED pins => \A i \in Pin : Ended(i) => Ended(i)'
  BY DEF Ended

LEMMA EndedCreate ==
  ASSUME TypeInv, NEW p \in Slot, NEW j \in Pin, CreatePin(p, j)
  PROVE  \A i \in Pin : Ended(i) => Ended(i)'
  <1>1. /\ pins' = [pins EXCEPT ![j] = [status |-> "ACTIVE", remaining |-> PinBudget[j]]]
        /\ ~ Ended(j)
    BY DEF CreatePin, Ended
  <1>2. \A i \in Pin : i # j => pins'[i] = pins[i]
    BY <1>1 DEF TypeInv, TableTypes
  <1>3. QED
    BY <1>1, <1>2 DEF Ended

LEMMA EndedCancel ==
  ASSUME TypeInv, NEW p \in Slot, CancelPin(p)
  PROVE  \A i \in Pin : Ended(i) => Ended(i)'
  <1>1. pins' = [pins EXCEPT ![task[p].pin] = [status |-> "CANCELLED", remaining |-> 0]]
    BY DEF CancelPin
  <1>2. \A i \in Pin : pins'[i] = pins[i] \/ pins'[i].status = "CANCELLED"
    BY <1>1 DEF TypeInv, TableTypes
  <1>3. QED
    BY <1>2 DEF Ended

LEMMA EndedDrain ==
  ASSUME TypeInv, NEW p \in Slot, NEW j \in Pin, DrainPin(p, j)
  PROVE  \A i \in Pin : Ended(i) => Ended(i)'
  <1>1. \A i \in Pin : pins[i] \in PinType
    BY DEF TypeInv, TableTypes
  <1>2. PICK left : \/ pins' = [pins EXCEPT ![j] = [status |-> "EXHAUSTED", remaining |-> 0]]
                    \/ pins' = [pins EXCEPT ![j].remaining = left]
    BY DEF DrainPin
  <1>3. \A i \in Pin : pins'[i].status \in {pins[i].status, "EXHAUSTED"}
    BY <1>1, <1>2 DEF TypeInv, TableTypes, PinType
  <1>4. QED
    BY <1>3 DEF Ended

LEMMA EndedStep ==
  ASSUME TypeInv, [Next]_vars
  PROVE  \A i \in Pin : Ended(i) => Ended(i)'
  <1>1. ASSUME NEW p \in Slot, Request(p)
        PROVE  \A i \in Pin : Ended(i) => Ended(i)'
    <2>1. CASE \E j \in Pin : CreatePin(p, j)
      BY <2>1, EndedCreate
    <2>2. CASE ~ \E j \in Pin : CreatePin(p, j)
      BY <1>1, <2>2, EndedUnwritten
      DEF Request, ReceiveTip, ReceiveReceipt, ReadPin, StartSettle
    <2>3. QED
      BY <2>1, <2>2
  <1>2. ASSUME NEW p \in Slot, PinStep(p)
        PROVE  \A i \in Pin : Ended(i) => Ended(i)'
    <2>1. CASE AppendPinCreate(p) \/ AppendPinCancel(p) \/ ListActivePins(p)
      BY <2>1, EndedUnwritten DEF AppendPinCreate, AppendPinCancel, ListActivePins
    <2>2. QED
      BY <1>2, <2>1, EndedCancel, EndedDrain DEF PinStep
  <1>3. ASSUME NEW p \in Slot, SettleStep(p)
        PROVE  UNCHANGED pins
    BY <1>3 DEF SettleStep, FetchReceipts, SkipCid, PayCid, StartAutoBid, StartSweep,
                EndAutoBid, PersistSummary, AppendSummary, RunPoolCall, pinVars
  <1>4. ASSUME NEW p \in Slot, AppendTip(p) \/ StoreReceipt(p) \/ Abort(p)
        PROVE  UNCHANGED pins
    BY <1>4 DEF AppendTip, StoreReceipt, Abort, pinVars
  <1>5. CASE Tick \/ Quiet \/ UNCHANGED vars
    BY <1>5, EndedUnwritten DEF Tick, Quiet, vars, pinVars
  <1>6. QED
    BY <1>1, <1>2, <1>3, <1>4, <1>5, EndedUnwritten DEF Next, Continue

\* A pin that was cancelled or exhausted is never active again, whatever
\* settlement listed it before, and wherever that or the cancellation is stopped.
THEOREM PinsEnd == Spec => EndedPinsStayEnded
  <1>1. TypeInv /\ [Next]_vars
          => [\A i \in Pin : pins[i].status \in {"EXHAUSTED", "CANCELLED"}
                => pins'[i].status \in {"EXHAUSTED", "CANCELLED"}]_vars
    BY EndedStep DEF Ended
  <1>2. QED
    BY <1>1, TypeInit, TypeStep, PTL DEF Spec, EndedPinsStayEnded

===============================================================================
