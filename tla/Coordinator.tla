------------------------------ MODULE Coordinator ------------------------------
(***************************************************************************)
(* The coordinator (apps/coordinator/src/server.ts) serving requests that  *)
(* move sats: tips, receipts, pins, cancellations and settlements, one per *)
(* slot, interleaved at every database round trip.                         *)
(*                                                                         *)
(* A slot per request the model lets be in flight: with one slot requests  *)
(* are served one after the other, with two they overlap.  A settlement    *)
(* asked for over HTTP and one started by the scheduler's timer are the    *)
(* same here: the timer only asks for the epoch before the present one.    *)
(*                                                                         *)
(* A handler can stop at any await (Abort): the database rejects the call, *)
(* or the process dies.  What the handler did so far stays.                *)
(***************************************************************************)
EXTENDS EpochSettlement

CONSTANTS
  Tip,         \* tips clients may send: [key, amount]
  MaxTips,     \* bound: tips ever sent
  MaxAborts    \* bound: handlers that stop halfway

ASSUME CoordinatorAssumption ==
  /\ \A t \in Tip : t.key \in PoolKey /\ t.amount \in Amount
  /\ MaxTips \in Nat /\ MaxAborts \in Nat

\* Requests in flight are finitely many, and so are keys, of 32 bytes each.
ASSUME FinitelyMany == IsFiniteSet(Slot) /\ IsFiniteSet(PoolKey)

VARIABLES
  tips,     \* counter of the bound MaxTips
  aborts    \* history: handlers stopped halfway

vars == <<poolVars, pinVars, settleVars, tips, aborts>>

-------------------------------------------------------------------------------
(* POST /tip.                                                              *)

ReceiveTip(p, t) ==
  /\ Free(p)
  /\ tips < MaxTips
  /\ tips' = tips + 1
  /\ Await(p, [pc |-> "tip"], TipCall(t.key, t.amount))
  /\ PoolUnchanged
  /\ UNCHANGED <<pins, sweep, log, settleVars, aborts>>

AppendTip(p) ==
  /\ task[p].pc = "tip"
  /\ CallDone(p)
  /\ log' = [log EXCEPT !.credits = @ + ReturnedCredit(p)]
  /\ Reply(p)
  /\ PoolUnchanged
  /\ UNCHANGED <<pins, sweep, settleVars, tips, aborts>>

-------------------------------------------------------------------------------
(* POST /receipt/submit.  The event it logs moves no sats.                 *)

\* The window and the findUnique on the payment hash.
ReceiveReceipt(p, r) ==
  /\ Free(p)
  /\ r.epoch <= now /\ r.epoch >= now - 2
  /\ \A s \in receipts : s.hash # r.hash
  /\ Await(p, [pc |-> "receipt", receipt |-> r], NoCall)
  /\ PoolUnchanged
  /\ UNCHANGED <<pins, sweep, log, settleVars, tips, aborts>>

\* The insert, unique on the payment hash: a violation is thrown.
StoreReceipt(p) ==
  LET r == task[p].receipt
  IN  /\ task[p].pc = "receipt"
      /\ receipts' = IF \E s \in receipts : s.hash = r.hash
                     THEN receipts ELSE receipts \cup {r}
      /\ Reply(p)
      /\ PoolUnchanged
      /\ UNCHANGED <<pins, sweep, log, now, summaries, charges, tips, aborts>>

-------------------------------------------------------------------------------
Tick ==
  /\ now < MaxEpoch
  /\ now' = now + 1
  /\ UNCHANGED <<poolVars, pinVars, receipts, summaries, charges, tips, aborts>>

Abort(p) ==
  /\ ~ Free(p)
  /\ aborts < MaxAborts
  /\ aborts' = aborts + 1
  /\ Reply(p)
  /\ sweep' = [sweep EXCEPT ![p] = NoSweep]
  /\ PoolUnchanged
  /\ UNCHANGED <<pins, log, settleVars, tips>>

Request(p) ==
  \/ \E t \in Tip : ReceiveTip(p, t)
  \/ \E r \in Receipt : ReceiveReceipt(p, r)
  \/ \E i \in Pin : CreatePin(p, i) /\ UNCHANGED <<settleVars, tips, aborts>>
  \/ \E i \in Pin : ReadPin(p, i) /\ UNCHANGED <<settleVars, tips, aborts>>
  \/ \E e \in Epoch : StartSettle(p, e) /\ UNCHANGED <<tips, aborts>>

\* What a handler does once started, without the help of any client.
Continue(p) ==
  \/ AppendTip(p)
  \/ StoreReceipt(p)
  \/ PinStep(p) /\ UNCHANGED <<settleVars, tips, aborts>>
  \/ SettleStep(p) /\ UNCHANGED <<tips, aborts>>

\* All slots free: nothing happens until a client comes.
Quiet ==
  /\ \A p \in Slot : Free(p)
  /\ UNCHANGED vars

Init ==
  /\ PoolInit
  /\ PinInit
  /\ SettleInit
  /\ tips = 0
  /\ aborts = 0

Next ==
  \/ \E p \in Slot : Request(p) \/ Continue(p) \/ Abort(p)
  \/ Tick
  \/ Quiet

Spec == Init /\ [][Next]_vars

\* Node runs a handler on whenever its database call has returned.
FairSpec == Spec /\ \A p \in Slot : WF_vars(Continue(p))

-------------------------------------------------------------------------------
(* The types of the tables and of the handlers' local state; in particular *)
(* remaining_budget of a pin stays within its budget, and a settlement     *)
(* never carries a negative reward to its rows.                            *)
CoordinatorTypeOK ==
  /\ PoolTypeOK
  /\ \A i \in Pin : /\ pins[i].status \in {"NONE", "ACTIVE", "EXHAUSTED", "CANCELLED"}
                    /\ pins[i].remaining \in 0..PinBudget[i]
  /\ now \in Epoch
  /\ receipts \subseteq Receipt
  /\ \A s \in summaries : /\ s.epoch \in Epoch /\ s.host \in Host
                          /\ s.cid \in PoolKey /\ s.reward \in Nat
  /\ \A p \in Slot : sweep[p].op # "none" => task[p].pc \in {"cids"}
  /\ \A p \in Slot : call[p].op # "none" => task[p].pc \in AwaitsPool
  /\ log.credits \in Nat /\ log.debits \in Nat

(* The handlers use the pools only as the general caller of BountyPool     *)
(* does: one call at a time per slot, and sats moved by no other way.  So  *)
(* what is proved of PoolSpec holds of the coordinator.                    *)
PoolsAsSpecified == PoolSpec

Books == INSTANCE EpochBooks WITH
  Cid <- PoolKey,
  paid <- [e \in Epoch |-> [c \in PoolKey |-> charges[e][c].sats]],
  booked <- summaries

(* settleEpoch, one request at a time and not stopped halfway, keeps the   *)
(* books of EpochBooks: one charge per epoch and CID, none once rows       *)
(* exist, and rewards backed by the charge.  It rests on the count guard,  *)
(* on the debit coming before the rows, and on the cap of reward.ts.       *)
BooksKept == Books!Spec

(* The damage of overlapping or interrupted settlements is bounded: a pool *)
(* is charged for an epoch once per run that could start before the first  *)
(* row, and those are at most the runs in flight together plus the runs    *)
(* that were stopped halfway (the guard in settleEpoch, and a run that     *)
(* ends by itself leaves a row).                                           *)
ChargesBounded ==
  \A e \in Epoch, c \in PoolKey :
    charges[e][c].times <= Cardinality(Slot) + aborts

(* Whatever overlaps or is interrupted, the log never holds two summaries  *)
(* of an epoch: of two runs that reach the rows, the batch of one contains *)
(* that of the other, and the unique key stops one of them.                *)
OneSummaryEvent == \A e \in Epoch : log.summaries[e] <= 1

\* Sats ever added to, and taken from, all pools.
TotalCredited == Total(credited)
TotalDebited == Total(debited)

(* Every handler appends its event after the sats have moved: the log      *)
(* never accounts for a credit the pools have not received.                *)
LogFollowsCredits == log.credits <= TotalCredited

(* duration_epochs means what it says when settlements do not overlap: a   *)
(* pin is exhausted only after as many epochs were charged to its pool.    *)
PinLastsItsDuration ==
  \A i \in Pin :
    pins[i].status = "EXHAUSTED"
      => Cardinality({e \in Epoch : charges[e][PinCid[i]].times > 0})
           >= PinDuration[i]

(* drainPinBudgets writes pins it has listed before, and a cancellation    *)
(* may have come in between.  The write does not undo it: a pin that was   *)
(* cancelled or exhausted is never ACTIVE again, to be drained or refunded *)
(* anew, whatever overlaps or is interrupted.                              *)
EndedPinsStayEnded ==
  [][\A i \in Pin :
       pins[i].status \in {"EXHAUSTED", "CANCELLED"}
         => pins'[i].status \in {"EXHAUSTED", "CANCELLED"}]_vars

(* Every handler replies, if the database keeps answering: no state waits  *)
(* for something no step of the handler brings about.                      *)
HandlersFinish == \A p \in Slot : []<>Free(p)

(* A settlement that found receipts, overlapped or not, leaves the epoch   *)
(* with a row: either its own, or the one whose unique key stopped it.     *)
SettlementLeavesRow ==
  \A e \in Epoch :
    (\E p \in Slot : task[p].pc = "cids" /\ task[p].epoch = e) ~> SummariesOf(e) # {}

-------------------------------------------------------------------------------
(* "Idempotent: if EpochSummaryRecords already exist for this epoch,       *)
(* returns early with zero payouts (prevents double-spend)", says the      *)
(* comment on settleEpoch: no pool pays an epoch twice.                    *)
ChargedOnce == \A e \in Epoch, c \in PoolKey : charges[e][c].times <= 1

(* "Replayable from event log.", says the comment on the bounty pool: with *)
(* no request in flight and none ever stopped halfway, the pools hold what *)
(* the log accounts for.                                                   *)
LogRebuildsPools ==
  aborts = 0 /\ (\A p \in Slot : Free(p))
    => TotalCredited - TotalDebited = log.credits - log.debits

===============================================================================
