------------------------------ MODULE BountyPool ------------------------------
(***************************************************************************)
(* The bounty pools of the coordinator (views/bounty-pool.ts): one balance *)
(* per pool key, kept in a PostgreSQL row.  Every handler of the           *)
(* coordinator that moves sats does so by one of three calls,              *)
(*                                                                         *)
(*   creditTip           volume read, then an atomic upsert                *)
(*   creditBountyDirect  an atomic upsert                                  *)
(*   debitPayout         balance read and compared, then an atomic update  *)
(*                                                                         *)
(* Each database round trip is an `await`, and the handlers of other       *)
(* requests run between two of them.  An action below is therefore one     *)
(* round trip, and what a call has read so far is kept in call[p] for the  *)
(* request slot p that makes it.                                           *)
(*                                                                         *)
(* This module closes the system with the most general caller (Call): any  *)
(* slot may start any of the three calls at any time and may give up at    *)
(* any await.  What is proved about it therefore holds for every handler.  *)
(*                                                                         *)
(* Abstractions.  A missing row is a balance of 0: the callers only debit  *)
(* positive amounts, so the two cannot be told apart.  The totalTipped     *)
(* column is read only through its sum over all pools, which is `volume`.  *)
(* lastPayoutEpoch is written and displayed but never decides anything,    *)
(* and is left out.                                                        *)
(***************************************************************************)
EXTENDS Integers

CONSTANTS
  Slot,          \* requests that can be in flight together
  PoolKey,       \* bytes32 keys: CIDs, event ids or topic hashes
  NoKey,         \* the key of a call record that stands for no call
  Amount,        \* the sats a call may be asked to move
  TaperEnd,      \* the volume up to which the royalty rate is tabulated
  RatePermille   \* the founder royalty rate at each volume, in 1/1000

\* Rates are counted in thousandths.
Permille == 1000

(***************************************************************************)
(* founderRoyaltyRate is 0.15 * (1 + v/125M)^(-0.3155): it lies between 0  *)
(* and R0 and never grows with the volume.                                 *)
(***************************************************************************)
ASSUME RoyaltyAssumption ==
  /\ TaperEnd \in Nat
  /\ \A v \in 0..TaperEnd : RatePermille[v] \in 0..Permille
  /\ \A v, w \in 0..TaperEnd : v <= w => RatePermille[w] <= RatePermille[v]

ASSUME NoKeyAssumption == NoKey \notin PoolKey

ASSUME AmountAssumption == Amount \subseteq Nat

VARIABLES
  balance,   \* bounty_pool.balance, per key
  volume,    \* the sum of bounty_pool.totalTipped over all keys
  call,      \* the pool call each slot is in, with what it has read
  credited,  \* history: sats ever added to each pool
  debited    \* history: sats ever taken from each pool

poolVars == <<balance, volume, call, credited, debited>>

-------------------------------------------------------------------------------
(* Royalty arithmetic (packages/physics/src/royalty.ts).                   *)

FounderRoyaltyRate(v) == RatePermille[IF v < TaperEnd THEN v ELSE TaperEnd]

Royalty(amount, v) == (amount * FounderRoyaltyRate(v)) \div Permille

PoolCredit(amount, v) == amount - Royalty(amount, v)

-------------------------------------------------------------------------------
(***************************************************************************)
(* A call record: the round trip it waits for (op), its arguments, the     *)
(* cumulative volume it has read (seen), and, for a debit that passed its  *)
(* check, how much had been taken from the pool at that moment (mark, a    *)
(* history value the code does not keep).                                  *)
(***************************************************************************)
Pending == {"volume", "credit", "direct", "check", "decrement"}
Returned == {"done", "refused"}

CallRecord ==
  [op : Pending \cup Returned \cup {"none"}, key : PoolKey \cup {NoKey},
   amount : Nat, seen : Nat, mark : Nat]

NoCall == [op |-> "none", key |-> NoKey, amount |-> 0, seen |-> 0, mark |-> 0]

NewCall(op, k, amount) ==
  [op |-> op, key |-> k, amount |-> amount, seen |-> 0, mark |-> 0]

TipCall(k, amount)    == NewCall("volume", k, amount)
DirectCall(k, amount) == NewCall("direct", k, amount)
DebitCall(k, amount)  == NewCall("check", k, amount)

CallDone(p) == call[p].op \in Returned

\* Fault: the royalty is not deducted.
WholeAmount(p) == call[p].amount

\* What creditTip returned to the caller in slot p as poolCredit.
ReturnedCredit(p) == PoolCredit(call[p].amount, call[p].seen)

-------------------------------------------------------------------------------
(* creditTip, first await: getCumulativeVolume.                            *)
ReadVolume(p) ==
  /\ call[p].op = "volume"
  /\ call' = [call EXCEPT ![p].op = "credit", ![p].seen = volume]
  /\ UNCHANGED <<balance, volume, credited, debited>>

\* Fault: the upsert sets the balance instead of incrementing it.
SetTip(p) ==
  LET k == call[p].key
      credit == ReturnedCredit(p)
  IN  /\ call[p].op = "credit"
      /\ balance' = [balance EXCEPT ![k] = credit]
      /\ volume' = volume + call[p].amount
      /\ credited' = [credited EXCEPT ![k] = @ + credit]
      /\ call' = [call EXCEPT ![p].op = "done"]
      /\ UNCHANGED debited

(* creditTip, second await: the upsert increments balance and totalTipped  *)
(* in the database, by a credit computed from the volume read before.      *)
CreditTip(p) ==
  LET k == call[p].key
      credit == ReturnedCredit(p)
  IN  /\ call[p].op = "credit"
      /\ balance' = [balance EXCEPT ![k] = @ + credit]
      /\ volume' = volume + call[p].amount
      /\ credited' = [credited EXCEPT ![k] = @ + credit]
      /\ call' = [call EXCEPT ![p].op = "done"]
      /\ UNCHANGED debited

(* creditBountyDirect: no royalty, totalTipped untouched.                  *)
CreditBountyDirect(p) ==
  LET k == call[p].key
  IN  /\ call[p].op = "direct"
      /\ balance' = [balance EXCEPT ![k] = @ + call[p].amount]
      /\ credited' = [credited EXCEPT ![k] = @ + call[p].amount]
      /\ call' = [call EXCEPT ![p].op = "done"]
      /\ UNCHANGED <<volume, debited>>

\* Fault: any pool that is not empty passes the check.
CheckNotEmpty(p) ==
  LET k == call[p].key
  IN  /\ call[p].op = "check"
      /\ \/ /\ balance[k] <= 0
            /\ call' = [call EXCEPT ![p].op = "refused"]
         \/ /\ balance[k] > 0
            /\ call' = [call EXCEPT ![p].op = "decrement",
                                    ![p].mark = debited[k]]
      /\ UNCHANGED <<balance, volume, credited, debited>>

(* debitPayout, first await: findUnique, and the early `return false`.     *)
CheckDebit(p) ==
  LET k == call[p].key
  IN  /\ call[p].op = "check"
      /\ \/ /\ balance[k] < call[p].amount
            /\ call' = [call EXCEPT ![p].op = "refused"]
         \/ /\ balance[k] >= call[p].amount
            /\ call' = [call EXCEPT ![p].op = "decrement",
                                    ![p].mark = debited[k]]
      /\ UNCHANGED <<balance, volume, credited, debited>>

(* debitPayout, second await: the decrement does not look at the balance.  *)
DebitPayout(p) ==
  LET k == call[p].key
  IN  /\ call[p].op = "decrement"
      /\ balance' = [balance EXCEPT ![k] = @ - call[p].amount]
      /\ debited' = [debited EXCEPT ![k] = @ + call[p].amount]
      /\ call' = [call EXCEPT ![p].op = "done"]
      /\ UNCHANGED <<volume, credited>>

PoolStep(p) ==
  \/ ReadVolume(p)
  \/ CreditTip(p)
  \/ CreditBountyDirect(p)
  \/ CheckDebit(p)
  \/ DebitPayout(p)

(* The most general caller: a slot with no call pending starts one.        *)
Call(p, k, amount) ==
  /\ call[p].op \notin Pending
  /\ call' \in {[call EXCEPT ![p] = c] :
                  c \in {TipCall(k, amount), DirectCall(k, amount),
                         DebitCall(k, amount)}}
  /\ UNCHANGED <<balance, volume, credited, debited>>

(* The handler takes the result and goes on, or stops at an await: a       *)
(* database error rejects it, or the coordinator process dies.             *)
Drop(p) ==
  /\ call[p] # NoCall
  /\ call' = [call EXCEPT ![p] = NoCall]
  /\ UNCHANGED <<balance, volume, credited, debited>>

PoolInit ==
  /\ balance = [k \in PoolKey |-> 0]
  /\ volume = 0
  /\ call = [p \in Slot |-> NoCall]
  /\ credited = [k \in PoolKey |-> 0]
  /\ debited = [k \in PoolKey |-> 0]

PoolNext ==
  \E p \in Slot :
    \/ PoolStep(p)
    \/ Drop(p)
    \/ \E k \in PoolKey, amount \in Amount : Call(p, k, amount)

PoolSpec == PoolInit /\ [][PoolNext]_poolVars

-------------------------------------------------------------------------------
(* The types of the pool state and of the calls in flight on it, as        *)
(* bounty-pool.ts builds them: balances may be negative (a BigInt column), *)
(* the volume and the amounts of calls are natural numbers.                *)
PoolTypeOK ==
  /\ balance \in [PoolKey -> Int]
  /\ volume \in Nat
  /\ call \in [Slot -> CallRecord]
  /\ \A p \in Slot : call[p].op # "none" => call[p].key \in PoolKey
  /\ credited \in [PoolKey -> Nat]
  /\ debited \in [PoolKey -> Nat]

(* No update of a balance is lost: whatever calls interleave, a balance is *)
(* what was ever credited to the pool less what was ever debited.  It      *)
(* rests on the atomic increment and decrement of the upserts in           *)
(* creditTip, creditBountyDirect and debitPayout.                          *)
PoolLedger == \A k \in PoolKey : balance[k] = credited[k] - debited[k]

(* debitPayout checks the balance and decrements it in two awaits.  A step *)
(* that leaves a pool overdrawn is the decrement of a debit after whose    *)
(* check another debit of the same pool landed: a debit that no other      *)
(* debit overtakes never overdraws, whatever credits happen meanwhile.     *)
OverdraftNeedsRace ==
  [][\A k \in PoolKey :
       balance'[k] < balance[k] /\ balance'[k] < 0
         => \E p \in Slot : /\ call[p].op = "decrement"
                            /\ call[p].key = k
                            /\ call[p].mark < debited[k]]_poolVars

(* creditTip computes the royalty from a volume that other tips may have   *)
(* moved on since.  The stale read never favours the tipper: the pool gets *)
(* at most what the rate at the present volume would leave it, and at      *)
(* least what the initial rate R0 would.                                   *)
StaleVolumeFavoursFounder ==
  [][volume' # volume
       => \E k \in PoolKey :
            LET amount == volume' - volume
                credit == balance'[k] - balance[k]
            IN  /\ credit <= PoolCredit(amount, volume)
                /\ credit >= PoolCredit(amount, 0)
                /\ \A j \in PoolKey \ {k} : balance'[j] = balance[j]]_poolVars

(* A pool is never overdrawn.  bounty-pool.ts promises it to one request   *)
(* at a time only (see OverdraftNeedsRace).                                *)
NoOverdraft == \A k \in PoolKey : balance[k] >= 0

===============================================================================
