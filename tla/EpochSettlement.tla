---------------------------- MODULE EpochSettlement ----------------------------
(***************************************************************************)
(* settleEpoch (views/epoch-settlement.ts): for a closed epoch, debit the  *)
(* pool of every served CID with the rewards of its hosts, drain the pins  *)
(* of that CID, credit the auto-bids, and persist one summary row per      *)
(* (host, CID) group.  Rows of the epoch are the mark that it is settled.  *)
(*                                                                         *)
(* Abstractions.  The lists the handler walks come from queries without an *)
(* order: it takes CIDs and auto-bids in any order, and hosts in a fixed   *)
(* one.  The host rows are read with the pool balance (nothing here writes *)
(* them), with any uptime in Uptime.  Of a summary row only its key and    *)
(* reward are kept: the counts, auto-bid and egress columns are derived    *)
(* from the receipts and read for display.                                 *)
(***************************************************************************)
EXTENDS PinContracts, SequencesExt

CONSTANTS
  Receipt,   \* the receipts clients may submit, see Economics
  Uptime,    \* availability scores of hosts, in tenths
  MaxEpoch   \* bound: the epoch in which the model's clock stops

ASSUME ReceiptAssumption ==
  /\ MaxEpoch \in Nat
  /\ IsFiniteSet(Receipt)
  /\ Uptime \subseteq 0..10
  /\ \A r \in Receipt : /\ r.epoch \in 0..MaxEpoch
                        /\ r.cid \in PoolKey
                        /\ r.price \in Nat

VARIABLES
  now,         \* currentEpoch()
  receipts,    \* the receipt table
  summaries,   \* the epoch_summary table
  charges      \* history: per epoch and CID, the debits settlement made

settleVars == <<now, receipts, summaries, charges>>

Epoch == 0..MaxEpoch

Host == {r.host : r \in Receipt}

SummariesOf(e) == {s \in summaries : s.epoch = e}

Row(e, g, reward) == [epoch |-> e, host |-> g.host, cid |-> g.cid, reward |-> reward]

\* Fault: hosts that earn nothing get no row.
PaidRows(e, c, rewards) ==
  LET hosts == SetToSeq({h \in DOMAIN rewards : rewards[h] > 0})
  IN  [n \in 1..Len(hosts) |->
         Row(e, [host |-> hosts[n], cid |-> c], rewards[hosts[n]])]

\* The rows of the eligible groups of c, paying each host what rewards says.
CidRows(e, c, rewards) ==
  LET hosts == SetToSeq(DOMAIN rewards)
  IN  [n \in 1..Len(hosts) |->
         Row(e, [host |-> hosts[n], cid |-> c], rewards[hosts[n]])]

IneligibleRows(e, batch) ==
  LET groups == SetToSeq(Groups(batch) \ EligibleGroups(batch))
  IN  [n \in 1..Len(groups) |-> Row(e, groups[n], 0)]

SettleTask(pc, e, batch, cids, bids, rows, logged) ==
  [pc |-> pc, epoch |-> e, batch |-> batch, cids |-> cids, bids |-> bids,
   rows |-> rows, logged |-> logged]

NothingLogged == [credits |-> 0, debits |-> 0]

-------------------------------------------------------------------------------
\* Fault: the count of summaries is left out.
SettleAgain(p, e) ==
  /\ Free(p)
  /\ e < now
  /\ Await(p, SettleTask("fetch", e, {}, {}, {}, <<>>, NothingLogged), NoCall)
  /\ PoolUnchanged
  /\ UNCHANGED <<pins, sweep, log, settleVars>>

(***************************************************************************)
(* POST /epoch/settle and the scheduler, for a closed epoch.  The count of *)
(* the guard: an epoch with rows is answered with zero payouts.            *)
(***************************************************************************)
StartSettle(p, e) ==
  /\ Free(p)
  /\ e < now
  /\ SummariesOf(e) = {}
  /\ Await(p, SettleTask("fetch", e, {}, {}, {}, <<>>, NothingLogged), NoCall)
  /\ PoolUnchanged
  /\ UNCHANGED <<pins, sweep, log, settleVars>>

\* Receipts without any are answered with zero payouts, and leave no row.
FetchReceipts(p) ==
  LET e == task[p].epoch
      batch == {r \in receipts : r.epoch = e}
  IN  /\ task[p].pc = "fetch"
      /\ \/ /\ batch = {}
            /\ Reply(p)
         \/ /\ batch # {}
            /\ Await(p, SettleTask("cids", e, batch, EligibleCids(batch),
                                   AutoBidCids(batch), IneligibleRows(e, batch),
                                   NothingLogged),
                        NoCall)
      /\ PoolUnchanged
      /\ UNCHANGED <<pins, sweep, log, settleVars>>

\* The handler comes back from drainPinBudgets, or did not call it.
BetweenCids(p) ==
  /\ task[p].pc = "cids"
  /\ call[p] = NoCall
  /\ sweep[p] = NoSweep \/ SweepDone(p)

\* getPool with an empty pool: the hosts earn nothing.
SkipCid(p, c) ==
  LET t == task[p]
      nothing == [h \in EligibleHosts(t.batch, c) |-> 0]
  IN  /\ BetweenCids(p)
      /\ c \in t.cids
      /\ balance[c] <= 0
      /\ Await(p, [t EXCEPT !.cids = @ \ {c},
                            !.rows = @ \o CidRows(t.epoch, c, nothing)], NoCall)
      /\ sweep' = [sweep EXCEPT ![p] = NoSweep]
      /\ PoolUnchanged
      /\ UNCHANGED <<pins, log, settleVars>>

\* getPool: rewards are computed from the balance read here, and the debit
\* is issued.  The totals for the log do not cap the drain to the balance.
PayCid(p, c, uptime) ==
  LET t == task[p]
      rewards == Rewards(balance[c], t.batch, c, uptime)
      drain == TotalDrain(balance[c], t.batch, c, rewards)
      actualDrain == Smaller(drain, balance[c])
      owed == [t EXCEPT !.cids = @ \ {c},
                        !.rows = @ \o CidRows(t.epoch, c, rewards),
                        !.logged.debits = @ + drain]
  IN  /\ BetweenCids(p)
      /\ c \in t.cids
      /\ balance[c] > 0
      /\ \/ /\ actualDrain <= 0
            /\ Await(p, owed, NoCall)
         \/ /\ actualDrain > 0 /\ actualDrain \in Amount
            /\ Await(p, [owed EXCEPT !.pc = "debit"], DebitCall(c, actualDrain))
      /\ sweep' = [sweep EXCEPT ![p] = NoSweep]
      /\ PoolUnchanged
      /\ UNCHANGED <<pins, log, settleVars>>

\* debitPayout returned, true or false: drainPinBudgets is called.
StartSweep(p) ==
  /\ task[p].pc = "debit"
  /\ CallDone(p)
  /\ sweep' = [sweep EXCEPT ![p] = SweepCall(call[p].key, call[p].amount)]
  /\ Await(p, [task[p] EXCEPT !.pc = "cids"], NoCall)
  /\ PoolUnchanged
  /\ UNCHANGED <<pins, log, settleVars>>

\* The next auto-bid.  creditTip has credited it once the handler goes on.
StartAutoBid(p, c) ==
  LET t == task[p]
  IN  /\ BetweenCids(p)
      /\ t.cids = {}
      /\ c \in t.bids
      /\ AutoBid(t.batch, c) \in Amount
      /\ Await(p, [t EXCEPT !.pc = "bid", !.bids = @ \ {c}],
                  TipCall(c, AutoBid(t.batch, c)))
      /\ sweep' = [sweep EXCEPT ![p] = NoSweep]
      /\ PoolUnchanged
      /\ UNCHANGED <<pins, log, settleVars>>

EndAutoBid(p) ==
  /\ task[p].pc = "bid"
  /\ CallDone(p)
  /\ Await(p, [task[p] EXCEPT !.pc = "cids",
                              !.logged.credits = @ + ReturnedCredit(p)], NoCall)
  /\ PoolUnchanged
  /\ UNCHANGED <<pins, sweep, log, settleVars>>

\* Fault: rows that are there already are skipped.
SkipDuplicates(p) ==
  LET t == task[p]
      row == Head(t.rows)
      duplicate == \E s \in SummariesOf(row.epoch) : s.host = row.host /\ s.cid = row.cid
  IN  /\ BetweenCids(p)
      /\ t.cids = {} /\ t.bids = {} /\ t.rows # <<>>
      /\ summaries' = IF duplicate THEN summaries ELSE summaries \cup {row}
      /\ Await(p, [t EXCEPT !.rows = Tail(@)], NoCall)
      /\ sweep' = [sweep EXCEPT ![p] = NoSweep]
      /\ PoolUnchanged
      /\ UNCHANGED <<pins, log, now, receipts, charges>>

\* Fault: a unique violation is retried.
RetryDuplicates(p) ==
  LET t == task[p]
      row == Head(t.rows)
  IN  /\ BetweenCids(p)
      /\ t.cids = {} /\ t.bids = {} /\ t.rows # <<>>
      /\ \A s \in SummariesOf(row.epoch) : s.host # row.host \/ s.cid # row.cid
      /\ summaries' = summaries \cup {row}
      /\ Await(p, [t EXCEPT !.rows = Tail(@)], NoCall)
      /\ sweep' = [sweep EXCEPT ![p] = NoSweep]
      /\ PoolUnchanged
      /\ UNCHANGED <<pins, log, now, receipts, charges>>

\* The insert of the next row, unique on (epoch, host, cid).  A violation is
\* thrown out of settleEpoch, and what is left is never written.
PersistSummary(p) ==
  LET t == task[p]
      row == Head(t.rows)
      duplicate == \E s \in SummariesOf(row.epoch) : s.host = row.host /\ s.cid = row.cid
  IN  /\ BetweenCids(p)
      /\ t.cids = {} /\ t.bids = {} /\ t.rows # <<>>
      /\ \/ /\ duplicate
            /\ Reply(p)
            /\ UNCHANGED summaries
         \/ /\ ~ duplicate
            /\ summaries' = summaries \cup {row}
            /\ Await(p, [t EXCEPT !.rows = Tail(@)], NoCall)
      /\ sweep' = [sweep EXCEPT ![p] = NoSweep]
      /\ PoolUnchanged
      /\ UNCHANGED <<pins, log, now, receipts, charges>>

AppendSummary(p) ==
  LET t == task[p]
  IN  /\ BetweenCids(p)
      /\ t.cids = {} /\ t.bids = {} /\ t.rows = <<>>
      /\ log' = [log EXCEPT !.credits = @ + t.logged.credits,
                            !.debits = @ + t.logged.debits,
                            !.summaries[t.epoch] = @ + 1]
      /\ Reply(p)
      /\ PoolUnchanged
      /\ UNCHANGED <<pins, sweep, settleVars>>

\* A pool call of the handler in slot p runs; a settlement's debit is charged
\* to its epoch.
RunPoolCall(p) ==
  /\ PoolStep(p)
  /\ charges' =
       IF task[p].pc = "debit" /\ call[p].op = "decrement"
       THEN [charges EXCEPT ![task[p].epoch][call[p].key] =
               [times |-> @.times + 1, sats |-> @.sats + call[p].amount]]
       ELSE charges
  /\ UNCHANGED <<pinVars, now, receipts, summaries>>

SettleStep(p) ==
  \/ FetchReceipts(p)
  \/ \E c \in PoolKey : \/ SkipCid(p, c)
                        \/ \E uptime \in [Host -> Uptime] : PayCid(p, c, uptime)
                        \/ StartAutoBid(p, c)
  \/ StartSweep(p)
  \/ EndAutoBid(p)
  \/ PersistSummary(p)
  \/ AppendSummary(p)
  \/ RunPoolCall(p)

SettleInit ==
  /\ now = 0
  /\ receipts = {}
  /\ summaries = {}
  /\ charges = [e \in Epoch |-> [c \in PoolKey |-> [times |-> 0, sats |-> 0]]]
  /\ log = [credits |-> 0, debits |-> 0, summaries |-> [e \in Epoch |-> 0]]

===============================================================================
