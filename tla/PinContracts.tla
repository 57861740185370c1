----------------------------- MODULE PinContracts -----------------------------
(***************************************************************************)
(* Pin contracts (views/pin-contracts.ts): a client puts a budget into the *)
(* pool of a CID for a number of epochs; each settled epoch deducts from   *)
(* what remains; cancelling refunds the rest less a fee.                   *)
(*                                                                         *)
(* createPin returns the id of the contract: here a pin is its id, with    *)
(* the contents PinCid, PinBudget and PinDuration it was derived from.     *)
(*                                                                         *)
(* The event log is kept as the sats its events account for: added to      *)
(* pools, taken from pools, and the number of epoch summaries per epoch.   *)
(*                                                                         *)
(* A handler that computes the amount of a pool call has `... \in Amount`  *)
(* in its guard, the bound of the model on such amounts.  An instance      *)
(* whose Amount is too small for it gets stuck, and TLC reports that.      *)
(***************************************************************************)
EXTENDS Handlers, Economics

CONSTANTS
  Pin,          \* ids of pin contracts
  PinCid,       \* the asset root of each
  PinBudget,    \* budget_sats of each
  PinDuration   \* duration_epochs of each

ASSUME PinAssumption ==
  \A i \in Pin : /\ PinCid[i] \in PoolKey
                 /\ PinBudget[i] \in Amount \ {0}
                 /\ PinDuration[i] \in Nat \ {0}

VARIABLES
  pins,    \* the pin_contract table
  sweep,   \* the drainPinBudgets call each slot is in
  log      \* what the event table accounts for

pinVars == <<pins, task, sweep, log>>

\* Fault: the budget is not spread over the duration.
DrainAtOnce(i) == PinBudget[i]

DrainRate(i) == PinBudget[i] \div PinDuration[i]

-------------------------------------------------------------------------------
(* POST /pin: createPin.                                                   *)

\* Fault: the event is logged with the insert, before the pool is credited.
LogThenCredit(p, i) ==
  /\ Free(p)
  /\ pins[i].status = "NONE"
  /\ pins' = [pins EXCEPT ![i] = [status |-> "ACTIVE", remaining |-> PinBudget[i]]]
  /\ log' = [log EXCEPT !.credits = @ + PinBudget[i]]
  /\ Await(p, [pc |-> "pinCredit", pin |-> i], DirectCall(PinCid[i], PinBudget[i]))
  /\ PoolUnchanged
  /\ UNCHANGED sweep

\* The insert; a pin id already there is a unique violation, answered 409.
CreatePin(p, i) ==
  /\ Free(p)
  /\ pins[i].status = "NONE"
  /\ pins' = [pins EXCEPT ![i] = [status |-> "ACTIVE", remaining |-> PinBudget[i]]]
  /\ Await(p, [pc |-> "pinCredit", pin |-> i], DirectCall(PinCid[i], PinBudget[i]))
  /\ PoolUnchanged
  /\ UNCHANGED <<sweep, log>>

AppendPinCreate(p) ==
  /\ task[p].pc = "pinCredit"
  /\ CallDone(p)
  /\ log' = [log EXCEPT !.credits = @ + PinBudget[task[p].pin]]
  /\ Reply(p)
  /\ PoolUnchanged
  /\ UNCHANGED <<pins, sweep>>

-------------------------------------------------------------------------------
(* POST /pin/:id/cancel: cancelPin.                                        *)

\* Fault: the refund goes around the check of debitPayout.
UncheckedRefund(p, i) ==
  LET remaining == pins[i].remaining
      refund == remaining - PinCancelFee(remaining)
  IN  /\ Free(p)
      /\ pins[i].status = "ACTIVE"
      /\ Await(p, [pc |-> "cancel", pin |-> i, refund |-> refund],
                  NewCall("decrement", PinCid[i], refund))
      /\ PoolUnchanged
      /\ UNCHANGED <<pins, sweep, log>>

\* The findUnique; anything but an ACTIVE pin is answered with an error.
ReadPin(p, i) ==
  LET remaining == pins[i].remaining
      refund == remaining - PinCancelFee(remaining)
  IN  /\ Free(p)
      /\ pins[i].status = "ACTIVE"
      /\ refund \in Amount
      /\ Await(p, [pc |-> "cancel", pin |-> i, refund |-> refund],
                  IF refund > 0 THEN DebitCall(PinCid[i], refund) ELSE NoCall)
      /\ PoolUnchanged
      /\ UNCHANGED <<pins, sweep, log>>

\* Whether the debit was refused is not looked at.
CancelPin(p) ==
  /\ task[p].pc = "cancel"
  /\ call[p] = NoCall \/ CallDone(p)
  /\ pins' = [pins EXCEPT ![task[p].pin] = [status |-> "CANCELLED", remaining |-> 0]]
  /\ Await(p, [task[p] EXCEPT !.pc = "cancelLog"], NoCall)
  /\ PoolUnchanged
  /\ UNCHANGED <<sweep, log>>

AppendPinCancel(p) ==
  /\ task[p].pc = "cancelLog"
  /\ log' = [log EXCEPT !.debits = @ + task[p].refund]
  /\ Reply(p)
  /\ PoolUnchanged
  /\ UNCHANGED <<pins, sweep>>

-------------------------------------------------------------------------------
(***************************************************************************)
(* drainPinBudgets, called by settlement after a debit of a CID's pool.    *)
(* The ACTIVE pins are listed once; then each is written, in any order,    *)
(* from the remaining budget the list showed.                              *)
(***************************************************************************)
NoBudget == [i \in Pin |-> 0]

NoSweep == [op |-> "none", cid |-> NoKey, drain |-> 0, left |-> {}, seen |-> NoBudget]

SweepCall(c, drain) ==
  [op |-> "list", cid |-> c, drain |-> drain, left |-> {}, seen |-> NoBudget]

SweepDone(p) == sweep[p].op = "write" /\ sweep[p].left = {}

ListActivePins(p) ==
  LET active == {i \in Pin : PinCid[i] = sweep[p].cid /\ pins[i].status = "ACTIVE"}
  IN  /\ sweep[p].op = "list"
      /\ sweep' = [sweep EXCEPT
                     ![p].op = "write",
                     ![p].left = active,
                     ![p].seen = [i \in Pin |->
                                    IF i \in active THEN pins[i].remaining ELSE 0]]
      /\ UNCHANGED <<poolVars, pins, task, log>>

\* Fault: a pin is written back with the status the list showed.
WriteBack(p, i) ==
  LET remaining == sweep[p].seen[i]
      deduction == Smaller(sweep[p].drain, Smaller(DrainRate(i), remaining))
  IN  /\ sweep[p].op = "write"
      /\ i \in sweep[p].left
      /\ pins' = IF remaining - deduction <= 0
                 THEN [pins EXCEPT ![i] = [status |-> "EXHAUSTED", remaining |-> 0]]
                 ELSE [pins EXCEPT ![i] = [status |-> "ACTIVE",
                                           remaining |-> remaining - deduction]]
      /\ sweep' = [sweep EXCEPT ![p].left = @ \ {i}, ![p].seen[i] = 0]
      /\ UNCHANGED <<poolVars, task, log>>

DrainPin(p, i) ==
  LET remaining == sweep[p].seen[i]
      deduction == Smaller(sweep[p].drain, Smaller(DrainRate(i), remaining))
  IN  /\ sweep[p].op = "write"
      /\ i \in sweep[p].left
      /\ pins' = IF remaining - deduction <= 0
                 THEN [pins EXCEPT ![i] = [status |-> "EXHAUSTED", remaining |-> 0]]
                 ELSE [pins EXCEPT ![i].remaining = remaining - deduction]
      /\ sweep' = [sweep EXCEPT ![p].left = @ \ {i}, ![p].seen[i] = 0]
      /\ UNCHANGED <<poolVars, task, log>>

PinStep(p) ==
  \/ AppendPinCreate(p)
  \/ CancelPin(p)
  \/ AppendPinCancel(p)
  \/ ListActivePins(p)
  \/ \E i \in Pin : DrainPin(p, i)

PinInit ==
  /\ pins = [i \in Pin |-> [status |-> "NONE", remaining |-> 0]]
  /\ task = [p \in Slot |-> Idle]
  /\ sweep = [p \in Slot |-> NoSweep]

===============================================================================
