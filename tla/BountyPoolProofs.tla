--------------------------- MODULE BountyPoolProofs ---------------------------
(***************************************************************************)
(* Proofs about the bounty pools for every number of slots, keys and sats, *)
(* and for every non-increasing royalty rate; and about the steps that all *)
(* handlers are made of: to the pools each of them is a step of the        *)
(* general caller, or nothing.                                             *)
(***************************************************************************)
EXTENDS Handlers, TLAPS

-------------------------------------------------------------------------------
(* The founder royalty.                                                    *)

LEMMA PermilleType == Permille \in Nat \ {0}
  BY DEF Permille

\* The rate is a proportion, and never grows with the cumulative volume.
LEMMA RateBounds ==
  ASSUME NEW v \in Nat
  PROVE  FounderRoyaltyRate(v) \in 0..Permille
  <1> DEFINE cut == IF v < TaperEnd THEN v ELSE TaperEnd
  <1>1. cut \in 0..TaperEnd
    BY RoyaltyAssumption
  <1>2. FounderRoyaltyRate(v) = RatePermille[cut]
    BY DEF FounderRoyaltyRate
  <1> HIDE DEF cut
  <1>3. QED
    BY <1>1, <1>2, RoyaltyAssumption

LEMMA RateTapers ==
  ASSUME NEW v \in Nat, NEW w \in Nat, v <= w
  PROVE  FounderRoyaltyRate(w) <= FounderRoyaltyRate(v)
  <1> DEFINE Cut(n) == IF n < TaperEnd THEN n ELSE TaperEnd
  <1>1. Cut(v) \in 0..TaperEnd /\ Cut(w) \in 0..TaperEnd /\ Cut(v) <= Cut(w)
    BY RoyaltyAssumption
  <1>2. QED
    BY <1>1, RoyaltyAssumption DEF FounderRoyaltyRate

\* A royalty lies within the tip and never grows as the volume does.
LEMMA RoyaltyBounds ==
  ASSUME NEW a \in Nat, NEW v \in Nat, NEW w \in Nat, v <= w
  PROVE  /\ Royalty(a, v) \in 0..a
         /\ Royalty(a, w) \in 0..a
         /\ Royalty(a, w) <= Royalty(a, v)
  <1> DEFINE s == FounderRoyaltyRate(v)
             r == FounderRoyaltyRate(w)
             x == a * r
             y == a * s
  <1>1. s \in 0..Permille
    BY RateBounds
  <1>2. r \in 0..Permille
    BY RateBounds
  <1>3. r <= s
    BY RateTapers
  <1> HIDE DEF r, s
  <1>4. x \in Nat /\ y \in Nat
    BY <1>1, <1>2, PermilleType
  <1>5. x <= y
    BY <1>1, <1>2, <1>3, PermilleType
  <1>6. y <= a * Permille
    BY <1>1, PermilleType
  <1>7. Royalty(a, v) = y \div Permille /\ Royalty(a, w) = x \div Permille
    BY DEF Royalty, r, s
  <1> HIDE DEF x, y
  <1>8. /\ x \div Permille \in Nat /\ y \div Permille \in Nat
        /\ x \div Permille <= y \div Permille /\ y \div Permille <= a
    BY <1>4, <1>5, <1>6, PermilleType
  <1>9. QED
    BY <1>7, <1>8

\* A tip splits into a royalty and a pool credit, both within the tip.
LEMMA CreditBounds ==
  ASSUME NEW a \in Nat, NEW v \in Nat
  PROVE  PoolCredit(a, v) \in 0..a
  <1>1. Royalty(a, v) \in 0..a
    BY RoyaltyBounds
  <1>2. QED
    BY <1>1 DEF PoolCredit

\* The credit of a tip never falls as the volume grows.
LEMMA CreditGrows ==
  ASSUME NEW a \in Nat, NEW v \in Nat, NEW w \in Nat, v <= w
  PROVE  PoolCredit(a, v) <= PoolCredit(a, w)
  <1>1. /\ Royalty(a, w) \in 0..a /\ Royalty(a, v) \in 0..a
        /\ Royalty(a, w) <= Royalty(a, v)
    BY RoyaltyBounds
  <1>2. QED
    BY <1>1 DEF PoolCredit

-------------------------------------------------------------------------------
(* Type correctness.                                                       *)

LEMMA PoolTypeInit == PoolInit => PoolTypeOK
  BY DEF PoolInit, PoolTypeOK, CallRecord, NoCall

\* What PoolTypeOK says of one call.
LEMMA CallType ==
  ASSUME PoolTypeOK, NEW p \in Slot
  PROVE  /\ call[p] \in CallRecord
         /\ call[p].amount \in Nat /\ call[p].seen \in Nat
         /\ call[p].mark \in Nat
         /\ call[p].op # "none" => call[p].key \in PoolKey
  BY DEF PoolTypeOK, CallRecord

\* A step that replaces one call by a well-typed one.
LEMMA CallUpdate ==
  ASSUME PoolTypeOK, NEW p \in Slot, NEW c \in CallRecord,
         c.op # "none" => c.key \in PoolKey,
         call' = [call EXCEPT ![p] = c]
  PROVE  /\ call' \in [Slot -> CallRecord]
         /\ \A q \in Slot : call'[q].op # "none" => call'[q].key \in PoolKey
  BY DEF PoolTypeOK

LEMMA PoolTypeStep == PoolTypeOK /\ [PoolNext]_poolVars => PoolTypeOK'
  <1> SUFFICES ASSUME PoolTypeOK, [PoolNext]_poolVars
               PROVE  PoolTypeOK'
    OBVIOUS
  <1>1. ASSUME NEW p \in Slot, ReadVolume(p)
        PROVE  PoolTypeOK'
    <2> DEFINE c == [call[p] EXCEPT !.op = "credit", !.seen = volume]
    <2>1. c \in CallRecord /\ c.key \in PoolKey
      BY <1>1, CallType DEF ReadVolume, CallRecord, Pending, PoolTypeOK
    <2>2. call' = [call EXCEPT ![p] = c]
      BY <1>1 DEF ReadVolume
    <2>3. QED
      BY <1>1, <2>1, <2>2, CallUpdate DEF PoolTypeOK, ReadVolume
  <1>2. ASSUME NEW p \in Slot, CreditTip(p)
        PROVE  PoolTypeOK'
    <2> DEFINE c == [call[p] EXCEPT !.op = "done"]
               k == call[p].key
               credit == ReturnedCredit(p)
    <2>1. c \in CallRecord /\ c.key \in PoolKey /\ k \in PoolKey
      BY <1>2, CallType DEF CreditTip, CallRecord, Returned
    <2>2. call' = [call EXCEPT ![p] = c]
      BY <1>2 DEF CreditTip
    <2>3. call[p].amount \in Nat /\ call[p].seen \in Nat
      BY CallType
    <2>4. credit \in 0..call[p].amount
      BY <2>3, CreditBounds, Zenon DEF ReturnedCredit
    <2>5. /\ balance' = [balance EXCEPT ![k] = @ + credit]
          /\ credited' = [credited EXCEPT ![k] = @ + credit]
          /\ volume' = volume + call[p].amount
          /\ UNCHANGED debited
      BY <1>2 DEF CreditTip
    <2> HIDE DEF credit, k
    <2>6. /\ balance' \in [PoolKey -> Int]
          /\ credited' \in [PoolKey -> Nat]
          /\ debited' \in [PoolKey -> Nat]
          /\ volume' \in Nat
      BY <2>1, <2>3, <2>4, <2>5 DEF PoolTypeOK
    <2>7. QED
      BY <2>1, <2>2, <2>6, CallUpdate DEF PoolTypeOK
  <1>3. ASSUME NEW p \in Slot, CreditBountyDirect(p)
        PROVE  PoolTypeOK'
    <2> DEFINE c == [call[p] EXCEPT !.op = "done"]
               k == call[p].key
    <2>1. c \in CallRecord /\ c.key \in PoolKey /\ k \in PoolKey
      BY <1>3, CallType DEF CreditBountyDirect, CallRecord, Returned
    <2>2. call' = [call EXCEPT ![p] = c]
      BY <1>3 DEF CreditBountyDirect
    <2>3. call[p].amount \in Nat
      BY CallType
    <2>4. /\ balance' = [balance EXCEPT ![k] = @ + call[p].amount]
          /\ credited' = [credited EXCEPT ![k] = @ + call[p].amount]
          /\ UNCHANGED <<volume, debited>>
      BY <1>3 DEF CreditBountyDirect
    <2> HIDE DEF k
    <2>5. /\ balance' \in [PoolKey -> Int]
          /\ credited' \in [PoolKey -> Nat]
          /\ debited' \in [PoolKey -> Nat]
          /\ volume' \in Nat
      BY <2>1, <2>3, <2>4 DEF PoolTypeOK
    <2>6. QED
      BY <2>1, <2>2, <2>5, CallUpdate DEF PoolTypeOK
  <1>4. ASSUME NEW p \in Slot, CheckDebit(p)
        PROVE  PoolTypeOK'
    <2>1. /\ call[p].key \in PoolKey
          /\ debited[call[p].key] \in Nat
      BY <1>4, CallType DEF CheckDebit, PoolTypeOK
    <2>2. CASE call' = [call EXCEPT ![p].op = "refused"]
      <3> DEFINE c == [call[p] EXCEPT !.op = "refused"]
      <3>1. c \in CallRecord /\ c.key \in PoolKey
        BY <2>1, CallType DEF CallRecord, Returned
      <3>2. call' = [call EXCEPT ![p] = c]
        BY <2>2
      <3>3. QED
        BY <1>4, <3>1, <3>2, CallUpdate DEF PoolTypeOK, CheckDebit
    <2>3. CASE call' = [call EXCEPT ![p].op = "decrement",
                                    ![p].mark = debited[call[p].key]]
      <3> DEFINE c == [call[p] EXCEPT !.op = "decrement",
                                      !.mark = debited[call[p].key]]
      <3>1. c \in CallRecord /\ c.key \in PoolKey
        BY <2>1, CallType DEF CallRecord, Pending
      <3>2. call' = [call EXCEPT ![p] = c]
        BY <2>3
      <3>3. QED
        BY <1>4, <3>1, <3>2, CallUpdate DEF PoolTypeOK, CheckDebit
    <2>4. QED
      BY <1>4, <2>2, <2>3 DEF CheckDebit
  <1>5. ASSUME NEW p \in Slot, DebitPayout(p)
        PROVE  PoolTypeOK'
    <2> DEFINE c == [call[p] EXCEPT !.op = "done"]
               k == call[p].key
    <2>1. c \in CallRecord /\ c.key \in PoolKey /\ k \in PoolKey
      BY <1>5, CallType DEF DebitPayout, CallRecord, Returned
    <2>2. call' = [call EXCEPT ![p] = c]
      BY <1>5 DEF DebitPayout
    <2>3. call[p].amount \in Nat
      BY CallType
    <2>4. /\ balance' = [balance EXCEPT ![k] = @ - call[p].amount]
          /\ debited' = [debited EXCEPT ![k] = @ + call[p].amount]
          /\ UNCHANGED <<volume, credited>>
      BY <1>5 DEF DebitPayout
    <2> HIDE DEF k
    <2>5. /\ balance' \in [PoolKey -> Int]
          /\ credited' \in [PoolKey -> Nat]
          /\ debited' \in [PoolKey -> Nat]
          /\ volume' \in Nat
      BY <2>1, <2>3, <2>4 DEF PoolTypeOK
    <2>6. QED
      BY <2>1, <2>2, <2>5, CallUpdate DEF PoolTypeOK
  <1>6. ASSUME NEW p \in Slot, Drop(p)
        PROVE  PoolTypeOK'
    <2>1. NoCall \in CallRecord /\ NoCall.op = "none"
      BY DEF NoCall, CallRecord
    <2>2. QED
      BY <1>6, <2>1, CallUpdate DEF PoolTypeOK, Drop
  <1>7. ASSUME NEW p \in Slot, NEW k \in PoolKey, NEW amount \in Amount,
               Call(p, k, amount)
        PROVE  PoolTypeOK'
    <2>1. PICK c \in {TipCall(k, amount), DirectCall(k, amount),
                      DebitCall(k, amount)} :
            call' = [call EXCEPT ![p] = c]
      BY <1>7 DEF Call
    <2>2. c \in CallRecord /\ c.key \in PoolKey
      BY AmountAssumption DEF TipCall, DirectCall, DebitCall, NewCall, CallRecord, Pending
    <2>3. QED
      BY <1>7, <2>1, <2>2, CallUpdate DEF PoolTypeOK, Call
  <1>8. CASE UNCHANGED poolVars
    BY <1>8 DEF poolVars, PoolTypeOK
  <1>9. QED
    BY <1>1, <1>2, <1>3, <1>4, <1>5, <1>6, <1>7, <1>8 DEF PoolNext, PoolStep

\* The pool state keeps its types, whatever calls interleave.
THEOREM PoolTypeCorrect == PoolSpec => []PoolTypeOK
  BY PoolTypeInit, PoolTypeStep, PTL DEF PoolSpec

-------------------------------------------------------------------------------
(* What a step does to the pools: it leaves every balance and both         *)
(* histories alone, or adds the same amount to balance and credited of one *)
(* pool, or moves the same amount from balance to debited of one pool.     *)

Credit(k, x) ==
  /\ balance' = [balance EXCEPT ![k] = @ + x]
  /\ credited' = [credited EXCEPT ![k] = @ + x]
  /\ debited' = debited

Debit(k, x) ==
  /\ balance' = [balance EXCEPT ![k] = @ - x]
  /\ debited' = [debited EXCEPT ![k] = @ + x]
  /\ credited' = credited

LEMMA PoolEffect ==
  ASSUME PoolTypeOK, [PoolNext]_poolVars
  PROVE  \/ UNCHANGED <<balance, volume, credited, debited>>
         \/ \E p \in Slot :
              /\ call[p].op = "credit"
              /\ call[p].key \in PoolKey
              /\ Credit(call[p].key, ReturnedCredit(p))
              /\ volume' = volume + call[p].amount
              /\ call' = [call EXCEPT ![p].op = "done"]
         \/ \E p \in Slot :
              /\ call[p].op = "direct"
              /\ call[p].key \in PoolKey
              /\ Credit(call[p].key, call[p].amount)
              /\ volume' = volume
              /\ call' = [call EXCEPT ![p].op = "done"]
         \/ \E p \in Slot :
              /\ call[p].op = "decrement"
              /\ call[p].key \in PoolKey
              /\ Debit(call[p].key, call[p].amount)
              /\ volume' = volume
              /\ call' = [call EXCEPT ![p].op = "done"]
  <1>1. ASSUME NEW p \in Slot, CreditTip(p)
        PROVE  /\ call[p].op = "credit"
               /\ call[p].key \in PoolKey
               /\ Credit(call[p].key, ReturnedCredit(p))
               /\ volume' = volume + call[p].amount
               /\ call' = [call EXCEPT ![p].op = "done"]
    BY <1>1, CallType DEF CreditTip, Credit
  <1>2. ASSUME NEW p \in Slot, CreditBountyDirect(p)
        PROVE  /\ call[p].op = "direct"
               /\ call[p].key \in PoolKey
               /\ Credit(call[p].key, call[p].amount)
               /\ volume' = volume
               /\ call' = [call EXCEPT ![p].op = "done"]
    BY <1>2, CallType DEF CreditBountyDirect, Credit
  <1>3. ASSUME NEW p \in Slot, DebitPayout(p)
        PROVE  /\ call[p].op = "decrement"
               /\ call[p].key \in PoolKey
               /\ Debit(call[p].key, call[p].amount)
               /\ volume' = volume
               /\ call' = [call EXCEPT ![p].op = "done"]
    BY <1>3, CallType DEF DebitPayout, Debit
  <1>4. ASSUME NEW p \in Slot,
               \/ ReadVolume(p) \/ CheckDebit(p) \/ Drop(p)
               \/ \E k \in PoolKey, amount \in Amount : Call(p, k, amount)
        PROVE  UNCHANGED <<balance, volume, credited, debited>>
    BY <1>4 DEF ReadVolume, CheckDebit, Drop, Call
  <1>5. CASE UNCHANGED poolVars
    BY <1>5 DEF poolVars
  <1>6. QED
    BY <1>1, <1>2, <1>3, <1>4, <1>5 DEF PoolNext, PoolStep

-------------------------------------------------------------------------------
(* No balance update is lost.                                              *)

LEMMA LedgerInit == PoolInit => PoolLedger
  BY DEF PoolInit, PoolLedger

LEMMA LedgerCredit ==
  ASSUME PoolTypeOK, PoolLedger, NEW k \in PoolKey, NEW x \in Nat, Credit(k, x)
  PROVE  PoolLedger'
  BY DEF PoolTypeOK, PoolLedger, Credit

LEMMA LedgerDebit ==
  ASSUME PoolTypeOK, PoolLedger, NEW k \in PoolKey, NEW x \in Nat, Debit(k, x)
  PROVE  PoolLedger'
  BY DEF PoolTypeOK, PoolLedger, Debit

LEMMA LedgerStep == PoolTypeOK /\ PoolLedger /\ [PoolNext]_poolVars => PoolLedger'
  <1> SUFFICES ASSUME PoolTypeOK, PoolLedger, [PoolNext]_poolVars
               PROVE  PoolLedger'
    OBVIOUS
  <1>1. CASE UNCHANGED <<balance, volume, credited, debited>>
    BY <1>1 DEF PoolLedger
  <1>2. ASSUME NEW p \in Slot, call[p].key \in PoolKey,
               Credit(call[p].key, ReturnedCredit(p))
        PROVE  PoolLedger'
    <2>1. call[p].amount \in Nat /\ call[p].seen \in Nat
      BY CallType
    <2>2. ReturnedCredit(p) \in 0..call[p].amount
      BY <2>1, CreditBounds, Zenon DEF ReturnedCredit
    <2>3. ReturnedCredit(p) \in Nat
      BY <2>1, <2>2
    <2>4. QED
      BY <1>2, <2>3, LedgerCredit, Zenon
  <1>3. ASSUME NEW p \in Slot, call[p].key \in PoolKey,
               Credit(call[p].key, call[p].amount)
        PROVE  PoolLedger'
    BY <1>3, CallType, LedgerCredit, Zenon
  <1>4. ASSUME NEW p \in Slot, call[p].key \in PoolKey,
               Debit(call[p].key, call[p].amount)
        PROVE  PoolLedger'
    BY <1>4, CallType, LedgerDebit, Zenon
  <1>5. QED
    BY <1>1, <1>2, <1>3, <1>4, PoolEffect, Zenon

\* A balance is what was credited to the pool less what was debited from it.
THEOREM LedgerCorrect == PoolSpec => []PoolLedger
  BY LedgerInit, LedgerStep, PoolTypeCorrect, PTL DEF PoolSpec

-------------------------------------------------------------------------------
(* Overdrafts need a race.  The strengthening: a debit that has passed its *)
(* check is still covered, but for what other debits took since.           *)

Covered(p) ==
  LET k == call[p].key
  IN  /\ call[p].mark <= debited[k]
      /\ balance[k] >= call[p].amount - (debited[k] - call[p].mark)

CheckedDebits == \A p \in Slot : call[p].op = "decrement" => Covered(p)

\* Credits and debits of any pool keep a call covered that is not changed.
LEMMA CoveredStable ==
  ASSUME PoolTypeOK, NEW q \in Slot, call[q].op # "none", Covered(q),
         call'[q] = call[q], NEW k \in PoolKey, NEW x \in Nat,
         Credit(k, x) \/ Debit(k, x)
  PROVE  Covered(q)'
  <1>1. call[q].key \in PoolKey /\ call[q].amount \in Nat /\ call[q].mark \in Nat
    BY CallType
  <1> DEFINE j == call[q].key
  <1>2. /\ balance[j] \in Int /\ debited[j] \in Nat /\ credited[j] \in Nat
        /\ j \in PoolKey
    BY <1>1 DEF PoolTypeOK
  <1>3. CASE Credit(k, x)
    <2>1. debited'[j] = debited[j] /\ balance'[j] >= balance[j]
      BY <1>2, <1>3 DEF Credit, PoolTypeOK
    <2>2. balance'[j] \in Int
      BY <1>2, <1>3 DEF Credit, PoolTypeOK
    <2>3. QED
      BY <1>1, <1>2, <2>1, <2>2 DEF Covered
  <1>4. CASE Debit(k, x)
    <2>1. CASE j = k
      <3>1. debited'[j] = debited[j] + x /\ balance'[j] = balance[j] - x
        BY <1>2, <1>4, <2>1 DEF Debit, PoolTypeOK
      <3>2. QED
        BY <1>1, <1>2, <3>1 DEF Covered
    <2>2. CASE j # k
      <3>1. debited'[j] = debited[j] /\ balance'[j] = balance[j]
        BY <1>2, <1>4, <2>2 DEF Debit, PoolTypeOK
      <3>2. QED
        BY <1>1, <1>2, <3>1 DEF Covered
    <2>3. QED
      BY <2>1, <2>2
  <1>5. QED
    BY <1>3, <1>4

LEMMA CheckedInit == PoolInit => CheckedDebits
  BY DEF PoolInit, CheckedDebits, NoCall

LEMMA CheckedStep ==
  PoolTypeOK /\ CheckedDebits /\ [PoolNext]_poolVars => CheckedDebits'
  <1> SUFFICES ASSUME PoolTypeOK, CheckedDebits, [PoolNext]_poolVars,
                      NEW q \in Slot, call'[q].op = "decrement"
               PROVE  Covered(q)'
    BY DEF CheckedDebits
  <1>1. ASSUME call'[q] = call[q]
        PROVE  call[q].op # "none" /\ Covered(q)
    BY <1>1 DEF CheckedDebits
  <1>2. ASSUME NEW p \in Slot, call' = [call EXCEPT ![p].op = "done"]
        PROVE  call'[q] = call[q]
    <2>1. CASE p = q
      <3>1. call'[q] = [call[q] EXCEPT !.op = "done"]
        BY <1>2, <2>1 DEF PoolTypeOK
      <3>2. call[q] \in CallRecord
        BY CallType
      <3>3. call'[q].op = "done"
        BY <3>1, <3>2 DEF CallRecord
      <3>4. QED
        BY <3>3
    <2>2. CASE p # q
      BY <1>2, <2>2 DEF PoolTypeOK
    <2>3. QED
      BY <2>1, <2>2
  <1>3. ASSUME NEW p \in Slot, CreditTip(p) \/ CreditBountyDirect(p) \/ DebitPayout(p)
        PROVE  Covered(q)'
    <2>1. call' = [call EXCEPT ![p].op = "done"]
      BY <1>3 DEF CreditTip, CreditBountyDirect, DebitPayout
    <2>2. call'[q] = call[q] /\ call[q].op # "none" /\ Covered(q)
      BY <2>1, <1>1, <1>2
    <2>3. call[p].amount \in Nat /\ call[p].seen \in Nat
      BY CallType
    <2>4. ReturnedCredit(p) \in 0..call[p].amount
      BY <2>3, CreditBounds, Zenon DEF ReturnedCredit
    <2>5. ReturnedCredit(p) \in Nat
      BY <2>3, <2>4
    <2>6. call[p].op # "none"
      BY <1>3 DEF CreditTip, CreditBountyDirect, DebitPayout
    <2>7. call[p].key \in PoolKey
      BY <2>6, CallType
    <2>8. \/ Credit(call[p].key, ReturnedCredit(p))
          \/ Credit(call[p].key, call[p].amount)
          \/ Debit(call[p].key, call[p].amount)
      BY <1>3 DEF CreditTip, CreditBountyDirect, DebitPayout, Credit, Debit
    <2>9. QED
      BY <2>2, <2>3, <2>5, <2>7, <2>8, CoveredStable, Zenon
  <1>4. ASSUME UNCHANGED <<balance, debited>>, call'[q] = call[q]
        PROVE  Covered(q)'
    BY <1>1, <1>4 DEF Covered
  <1>5. ASSUME NEW p \in Slot, CheckDebit(p)
        PROVE  Covered(q)'
    <2>1. CASE p = q
      <3> DEFINE k == call[p].key
      <3>1. k \in PoolKey /\ call[p] \in CallRecord /\ call[p].amount \in Nat
        BY <1>5, CallType DEF CheckDebit
      <3>2. call' = [call EXCEPT ![p].op = "refused"] => call'[q].op = "refused"
        BY <2>1, <3>1 DEF PoolTypeOK, CallRecord
      <3>3. /\ balance[k] >= call[p].amount
            /\ call' = [call EXCEPT ![p].op = "decrement",
                                    ![p].mark = debited[k]]
            /\ UNCHANGED <<balance, debited>>
        BY <1>5, <3>2 DEF CheckDebit
      <3>4. call'[q] = [call[p] EXCEPT !.op = "decrement", !.mark = debited[k]]
        BY <2>1, <3>3 DEF PoolTypeOK
      <3>5. /\ call'[q].key = k
            /\ call'[q].amount = call[p].amount
            /\ call'[q].mark = debited[k]
        BY <3>1, <3>4 DEF CallRecord
      <3>6. balance[k] \in Int /\ debited[k] \in Nat
        BY <3>1 DEF PoolTypeOK
      <3>7. QED
        BY <3>1, <3>3, <3>5, <3>6 DEF Covered
    <2>2. CASE p # q
      BY <1>4, <1>5, <2>2 DEF CheckDebit, PoolTypeOK
    <2>3. QED
      BY <2>1, <2>2
  <1>6. ASSUME NEW p \in Slot, ReadVolume(p)
        PROVE  Covered(q)'
    <2>1. CASE p = q
      <3>1. call'[q] = [call[q] EXCEPT !.op = "credit", !.seen = volume]
        BY <1>6, <2>1 DEF ReadVolume, PoolTypeOK
      <3>2. call[q] \in CallRecord
        BY CallType
      <3>3. call'[q].op = "credit"
        BY <3>1, <3>2 DEF CallRecord
      <3>4. QED
        BY <3>3
    <2>2. CASE p # q
      BY <1>4, <1>6, <2>2 DEF ReadVolume, PoolTypeOK
    <2>3. QED
      BY <2>1, <2>2
  <1>7. ASSUME NEW p \in Slot, NEW c, c.op # "decrement",
               call' = [call EXCEPT ![p] = c],
               UNCHANGED <<balance, debited>>
        PROVE  Covered(q)'
    BY <1>4, <1>7 DEF PoolTypeOK
  <1>8. ASSUME NEW p \in Slot, Drop(p)
        PROVE  Covered(q)'
    BY <1>7, <1>8 DEF Drop, NoCall
  <1>9. ASSUME NEW p \in Slot, NEW k \in PoolKey, NEW amount \in Amount,
               Call(p, k, amount)
        PROVE  Covered(q)'
    BY <1>7, <1>9 DEF Call, TipCall, DirectCall, DebitCall, NewCall
  <1>10. CASE UNCHANGED poolVars
    BY <1>4, <1>10 DEF poolVars
  <1>11. QED
    BY <1>3, <1>5, <1>6, <1>8, <1>9, <1>10 DEF PoolNext, PoolStep

LEMMA OverdraftStep ==
  ASSUME PoolTypeOK, CheckedDebits, [PoolNext]_poolVars,
         NEW k \in PoolKey, balance'[k] < balance[k], balance'[k] < 0
  PROVE  \E p \in Slot : /\ call[p].op = "decrement"
                         /\ call[p].key = k
                         /\ call[p].mark < debited[k]
  <1>1. balance[k] \in Int /\ debited[k] \in Nat
    BY DEF PoolTypeOK
  <1>2. ASSUME NEW j \in PoolKey, NEW x \in Nat, Credit(j, x)
        PROVE  FALSE
    BY <1>1, <1>2 DEF Credit, PoolTypeOK
  <1>3. ASSUME NEW p \in Slot, call[p].op = "decrement", call[p].key \in PoolKey,
               Debit(call[p].key, call[p].amount)
        PROVE  call[p].key = k /\ call[p].mark < debited[k]
    <2>1. call[p].amount \in Nat /\ call[p].mark \in Nat
      BY CallType
    <2>2. call[p].key = k
      BY <1>1, <1>3 DEF Debit, PoolTypeOK
    <2>3. balance'[k] = balance[k] - call[p].amount
      BY <1>3, <2>2 DEF Debit, PoolTypeOK
    <2>4. Covered(p)
      BY <1>3 DEF CheckedDebits
    <2>5. /\ call[p].mark <= debited[k]
          /\ balance[k] >= call[p].amount - (debited[k] - call[p].mark)
      BY <2>2, <2>4 DEF Covered
    <2>6. QED
      BY <1>1, <2>1, <2>2, <2>3, <2>5
  <1>4. ASSUME NEW p \in Slot
        PROVE  call[p].amount \in Nat /\ ReturnedCredit(p) \in Nat
    <2>1. call[p].amount \in Nat /\ call[p].seen \in Nat
      BY CallType
    <2>2. ReturnedCredit(p) \in 0..call[p].amount
      BY <2>1, CreditBounds, Zenon DEF ReturnedCredit
    <2>3. QED
      BY <2>1, <2>2
  <1>5. balance' # balance
    BY <1>1
  <1>6. QED
    BY <1>2, <1>3, <1>4, <1>5, PoolEffect, Zenon

\* A pool is overdrawn only by a debit that another debit overtook between
\* its check and its decrement.
THEOREM OverdraftCorrect == PoolSpec => OverdraftNeedsRace
  <1> DEFINE A == \A k \in PoolKey :
       balance'[k] < balance[k] /\ balance'[k] < 0
         => \E p \in Slot : /\ call[p].op = "decrement"
                            /\ call[p].key = k
                            /\ call[p].mark < debited[k]
  <1>1. PoolTypeOK /\ CheckedDebits /\ [PoolNext]_poolVars => [A]_poolVars
    BY OverdraftStep
  <1> HIDE DEF A
  <1>2. PoolSpec => [][A]_poolVars
    BY <1>1, CheckedInit, CheckedStep, PoolTypeCorrect, PTL DEF PoolSpec
  <1>3. QED
    BY <1>2 DEF A, OverdraftNeedsRace

-------------------------------------------------------------------------------
(* The royalty of a tip under a stale volume.                              *)

\* A volume read by a call in flight is never ahead of the present volume.
SeenVolumes == \A p \in Slot : call[p].seen <= volume

LEMMA SeenInit == PoolInit => SeenVolumes
  <1> SUFFICES ASSUME PoolInit, NEW p \in Slot
               PROVE  call[p].seen <= volume
    BY DEF SeenVolumes
  <1>1. call[p] = NoCall
    BY DEF PoolInit
  <1>2. call[p].seen = 0 /\ volume = 0
    BY <1>1 DEF NoCall, PoolInit
  <1>3. QED
    BY <1>2

LEMMA SeenStep ==
  PoolTypeOK /\ SeenVolumes /\ [PoolNext]_poolVars => SeenVolumes'
  <1> SUFFICES ASSUME PoolTypeOK, SeenVolumes, [PoolNext]_poolVars,
                      NEW q \in Slot
               PROVE  call'[q].seen <= volume'
    BY DEF SeenVolumes
  <1>1. /\ call[q] \in CallRecord /\ call[q].seen \in Nat
        /\ call[q].seen <= volume /\ volume \in Nat
    BY CallType DEF SeenVolumes, PoolTypeOK
  <1>2. volume' \in Nat /\ volume <= volume'
    <2>1. ASSUME NEW p \in Slot
          PROVE  call[p].amount \in Nat
      BY CallType
    <2>2. volume' = volume \/ \E p \in Slot : volume' = volume + call[p].amount
      BY PoolEffect, Zenon
    <2>3. QED
      BY <1>1, <2>1, <2>2
  <1>3. ASSUME call'[q].seen = call[q].seen
        PROVE  call'[q].seen <= volume'
    BY <1>1, <1>2, <1>3
  <1>4. ASSUME NEW p \in Slot, ReadVolume(p)
        PROVE  call'[q].seen <= volume'
    <2>1. CASE p = q
      <3>1. call'[q] = [call[q] EXCEPT !.op = "credit", !.seen = volume]
        BY <1>4, <2>1 DEF ReadVolume, PoolTypeOK
      <3>2. call'[q].seen = volume
        BY <1>1, <3>1 DEF CallRecord
      <3>3. QED
        BY <1>1, <1>2, <3>2
    <2>2. CASE p # q
      BY <1>3, <1>4, <2>2 DEF ReadVolume, PoolTypeOK
    <2>3. QED
      BY <2>1, <2>2
  <1>5. ASSUME NEW p \in Slot, call' = [call EXCEPT ![p].op = "done"]
        PROVE  call'[q].seen = call[q].seen
    BY <1>1, <1>5 DEF PoolTypeOK, CallRecord
  <1>6. ASSUME NEW p \in Slot, CreditTip(p) \/ CreditBountyDirect(p) \/ DebitPayout(p)
        PROVE  call'[q].seen <= volume'
    BY <1>3, <1>5, <1>6 DEF CreditTip, CreditBountyDirect, DebitPayout
  <1>7. ASSUME NEW p \in Slot, CheckDebit(p)
        PROVE  call'[q].seen <= volume'
    <2>1. call'[q].seen = call[q].seen
      BY <1>1, <1>7 DEF CheckDebit, PoolTypeOK, CallRecord
    <2>2. QED
      BY <1>3, <2>1
  <1>8. ASSUME NEW p \in Slot, NEW c, c.seen = 0, call' = [call EXCEPT ![p] = c]
        PROVE  call'[q].seen <= volume'
    <2>1. call'[q].seen = 0 \/ call'[q].seen = call[q].seen
      BY <1>8 DEF PoolTypeOK
    <2>2. QED
      BY <1>1, <1>2, <2>1
  <1>9. ASSUME NEW p \in Slot, Drop(p)
        PROVE  call'[q].seen <= volume'
    BY <1>8, <1>9 DEF Drop, NoCall
  <1>10. ASSUME NEW p \in Slot, NEW k \in PoolKey, NEW amount \in Amount,
               Call(p, k, amount)
        PROVE  call'[q].seen <= volume'
    BY <1>8, <1>10 DEF Call, TipCall, DirectCall, DebitCall, NewCall
  <1>11. CASE UNCHANGED poolVars
    BY <1>3, <1>11 DEF poolVars
  <1>12. QED
    BY <1>4, <1>6, <1>7, <1>9, <1>10, <1>11 DEF PoolNext, PoolStep

LEMMA RoyaltyStep ==
  ASSUME PoolTypeOK, SeenVolumes, [PoolNext]_poolVars, volume' # volume
  PROVE  \E k \in PoolKey :
            LET amount == volume' - volume
                credit == balance'[k] - balance[k]
            IN  /\ credit <= PoolCredit(amount, volume)
                /\ credit >= PoolCredit(amount, 0)
                /\ \A j \in PoolKey \ {k} : balance'[j] = balance[j]
  <1>1. PICK p \in Slot : /\ call[p].key \in PoolKey
                          /\ Credit(call[p].key, ReturnedCredit(p))
                          /\ volume' = volume + call[p].amount
    BY PoolEffect, Zenon
  <1> DEFINE a == call[p].amount
             v == call[p].seen
             k == call[p].key
  <1>2. a \in Nat /\ v \in Nat /\ volume \in Nat /\ 0 <= v /\ v <= volume
    BY CallType DEF PoolTypeOK, SeenVolumes
  <1>3. /\ PoolCredit(a, v) <= PoolCredit(a, volume)
        /\ PoolCredit(a, 0) <= PoolCredit(a, v)
    BY <1>2, CreditGrows
  <1>4. PoolCredit(a, v) \in Nat
    <2>1. PoolCredit(a, v) \in 0..a
      BY <1>2, CreditBounds
    <2>2. QED
      BY <1>2, <2>1
  <1>5. volume' - volume = a
    BY <1>1, <1>2
  <1>6. balance'[k] - balance[k] = PoolCredit(a, v)
    BY <1>1, <1>4 DEF Credit, ReturnedCredit, PoolTypeOK
  <1>7. \A j \in PoolKey \ {k} : balance'[j] = balance[j]
    BY <1>1 DEF Credit, PoolTypeOK
  <1>8. QED
    BY <1>1, <1>3, <1>5, <1>6, <1>7

\* A tip priced with a stale volume never gives the pool more than the
\* present rate would, nor less than the initial rate.
THEOREM RoyaltyCorrect == PoolSpec => StaleVolumeFavoursFounder
  <1> DEFINE A == volume' # volume
       => \E k \in PoolKey :
            LET amount == volume' - volume
                credit == balance'[k] - balance[k]
            IN  /\ credit <= PoolCredit(amount, volume)
                /\ credit >= PoolCredit(amount, 0)
                /\ \A j \in PoolKey \ {k} : balance'[j] = balance[j]
  <1>1. PoolTypeOK /\ SeenVolumes /\ [PoolNext]_poolVars => [A]_poolVars
    BY RoyaltyStep
  <1> HIDE DEF A
  <1>2. PoolSpec => [][A]_poolVars
    BY <1>1, SeenInit, SeenStep, PoolTypeCorrect, PTL DEF PoolSpec
  <1>3. QED
    BY <1>2 DEF A, StaleVolumeFavoursFounder

-------------------------------------------------------------------------------
(* One request at a time.  When no two requests are in flight together, no *)
(* debit can be overtaken: the pool still holds what the check saw.        *)

StillCovered == \A p \in Slot : call[p].op = "decrement"
                                 => balance[call[p].key] >= call[p].amount

SequentialInv == NoOverdraft /\ StillCovered

LEMMA SequentialInit == PoolInit => SequentialInv
  <1> SUFFICES ASSUME PoolInit
               PROVE  NoOverdraft /\ StillCovered
    BY DEF SequentialInv
  <1>1. NoOverdraft
    BY DEF PoolInit, NoOverdraft
  <1>2. ASSUME NEW p \in Slot
        PROVE  call[p].op # "decrement"
    <2>1. call[p] = NoCall
      BY DEF PoolInit
    <2>2. QED
      BY <2>1 DEF NoCall
  <1>3. QED
    BY <1>1, <1>2 DEF StillCovered

LEMMA SequentialStep ==
  ASSUME \A p, q \in Slot : p = q,
         PoolTypeOK, SequentialInv, [PoolNext]_poolVars
  PROVE  SequentialInv'
  <1>1. NoOverdraft'
    <2> SUFFICES ASSUME NEW j \in PoolKey
                 PROVE  balance'[j] >= 0
      BY DEF NoOverdraft
    <2>1. balance[j] \in Int /\ balance[j] >= 0
      BY DEF PoolTypeOK, SequentialInv, NoOverdraft
    <2>2. ASSUME NEW k \in PoolKey, NEW x \in Nat, Credit(k, x)
          PROVE  balance'[j] >= 0
      BY <2>1, <2>2 DEF Credit, PoolTypeOK
    <2>3. ASSUME NEW p \in Slot, call[p].op = "decrement",
                 call[p].key \in PoolKey, Debit(call[p].key, call[p].amount)
          PROVE  balance'[j] >= 0
      <3>1. call[p].amount \in Nat
        BY CallType
      <3>2. balance[call[p].key] >= call[p].amount
        BY <2>3 DEF SequentialInv, StillCovered
      <3>3. \/ balance'[j] = balance[j]
            \/ j = call[p].key /\ balance'[j] = balance[j] - call[p].amount
        BY <2>3 DEF Debit, PoolTypeOK
      <3>4. QED
        BY <2>1, <3>1, <3>2, <3>3
    <2>4. ASSUME NEW p \in Slot
          PROVE  call[p].amount \in Nat /\ ReturnedCredit(p) \in Nat
      <3>1. call[p].amount \in Nat /\ call[p].seen \in Nat
        BY CallType
      <3>2. ReturnedCredit(p) \in 0..call[p].amount
        BY <3>1, CreditBounds, Zenon DEF ReturnedCredit
      <3>3. QED
        BY <3>1, <3>2
    <2>5. CASE balance' = balance
      BY <2>1, <2>5
    <2>6. QED
      BY <2>2, <2>3, <2>4, <2>5, PoolEffect, Zenon
  <1>2. ASSUME NEW q \in Slot, call'[q].op = "decrement"
        PROVE  balance'[call'[q].key] >= call'[q].amount
    <2>1. /\ call[q] \in CallRecord /\ call \in [Slot -> CallRecord]
          /\ \A p \in Slot : p = q
      BY DEF PoolTypeOK
    <2>2. CASE UNCHANGED poolVars
      BY <1>2, <2>2 DEF poolVars, SequentialInv, StillCovered
    <2>3. CASE CheckDebit(q)
      <3>1. balance' = balance
        BY <2>3 DEF CheckDebit
      <3>2. /\ call'[q] = [call[q] EXCEPT !.op = "decrement",
                                          !.mark = debited[call[q].key]]
            /\ balance[call[q].key] >= call[q].amount
        <4>1. ASSUME call' = [call EXCEPT ![q].op = "refused"]
              PROVE  FALSE
          <5>1. call'[q].op = "refused"
            BY <2>1, <4>1 DEF CallRecord
          <5>2. QED
            BY <1>2, <5>1
        <4>2. /\ balance[call[q].key] >= call[q].amount
              /\ call' = [call EXCEPT ![q].op = "decrement",
                                      ![q].mark = debited[call[q].key]]
          BY <2>3, <4>1 DEF CheckDebit
        <4>3. QED
          BY <2>1, <4>2
      <3>3. call'[q].key = call[q].key /\ call'[q].amount = call[q].amount
        BY <2>1, <3>2 DEF CallRecord
      <3>4. QED
        BY <3>1, <3>2, <3>3
    <2>4. ASSUME NEW op \in {"credit", "done"}, NEW seen,
                 call' = [call EXCEPT ![q].op = op, ![q].seen = seen]
          PROVE  FALSE
      <3>1. call'[q].op = op
        BY <2>1, <2>4 DEF CallRecord
      <3>2. QED
        BY <1>2, <3>1
    <2>5. ASSUME call' = [call EXCEPT ![q].op = "done"]
          PROVE  FALSE
      <3>1. call'[q].op = "done"
        BY <2>1, <2>5 DEF CallRecord
      <3>2. QED
        BY <1>2, <3>1
    <2>6. ASSUME Drop(q)
          PROVE  FALSE
      <3>1. call'[q] = NoCall
        BY <2>1, <2>6 DEF Drop
      <3>2. QED
        BY <1>2, <3>1 DEF NoCall
    <2>7. ASSUME NEW k \in PoolKey, NEW amount \in Amount, Call(q, k, amount)
          PROVE  FALSE
      <3>1. PICK c \in {TipCall(k, amount), DirectCall(k, amount),
                        DebitCall(k, amount)} :
              call' = [call EXCEPT ![q] = c]
        BY <2>7 DEF Call
      <3>2. call'[q] = c /\ c.op # "decrement"
        BY <2>1, <3>1 DEF TipCall, DirectCall, DebitCall, NewCall
      <3>3. QED
        BY <1>2, <3>2
    <2>8. ~ ReadVolume(q)
      BY <2>4 DEF ReadVolume
    <2>9. ~ CreditTip(q) /\ ~ CreditBountyDirect(q) /\ ~ DebitPayout(q)
      BY <2>5 DEF CreditTip, CreditBountyDirect, DebitPayout
    <2>10. QED
      BY <2>1, <2>2, <2>3, <2>6, <2>7, <2>8, <2>9 DEF PoolNext, PoolStep
  <1>3. QED
    BY <1>1, <1>2 DEF SequentialInv, StillCovered

\* With one request in flight at a time a pool is never overdrawn.
THEOREM SequentialNoOverdraft ==
  ASSUME \A p, q \in Slot : p = q
  PROVE  PoolSpec => []NoOverdraft
  <1>1. PoolTypeOK /\ SequentialInv /\ [PoolNext]_poolVars => SequentialInv'
    BY SequentialStep
  <1>2. SequentialInv => NoOverdraft
    BY DEF SequentialInv
  <1>3. QED
    BY <1>1, <1>2, SequentialInit, PoolTypeCorrect, PTL DEF PoolSpec


-------------------------------------------------------------------------------
(* The handlers.                                                           *)

\* No call is pending in a slot whose handler has not issued one: the part
\* of the inductive invariant that is about handlers.
HandlerOK(t, c) ==
  /\ "pc" \in DOMAIN t
  /\ t.pc \notin AwaitsPool => c = NoCall

TasksOK ==
  /\ task = [p \in Slot |-> task[p]]
  /\ \A p \in Slot : HandlerOK(task[p], call[p])

IInv == PoolTypeOK /\ TasksOK

-------------------------------------------------------------------------------
(* What Await does to the invariant and to the pools.                      *)

LEMMA AwaitTasks ==
  ASSUME IInv, NEW p \in Slot, NEW t, NEW c, Await(p, t, c), HandlerOK(t, c)
  PROVE  TasksOK'
  <1>1. call = [q \in Slot |-> call[q]]
    BY DEF IInv, PoolTypeOK
  <1>2. task' = [q \in Slot |-> IF q = p THEN t ELSE task[q]]
    BY DEF IInv, TasksOK, Await
  <1>3. call' = [q \in Slot |-> IF q = p THEN c ELSE call[q]]
    BY <1>1 DEF Await
  <1>4. \A q \in Slot : HandlerOK(task'[q], call'[q])
    BY <1>2, <1>3 DEF IInv, TasksOK
  <1>5. task' = [q \in Slot |-> task'[q]]
    BY <1>2
  <1>6. QED
    BY <1>4, <1>5, Zenon DEF TasksOK, HandlerOK

\* A handler that takes a result, goes on, replies or stops drops its call.
LEMMA AwaitNothing ==
  ASSUME IInv, NEW p \in Slot, NEW t, Await(p, t, NoCall), PoolUnchanged
  PROVE  [PoolNext]_poolVars
  <1>1. CASE call[p] = NoCall
    <2>1. call' = call
      BY <1>1 DEF IInv, PoolTypeOK, Await
    <2>2. QED
      BY <2>1 DEF PoolUnchanged, poolVars
  <1>2. CASE call[p] # NoCall
    <2>1. Drop(p)
      BY <1>2 DEF Await, PoolUnchanged, Drop
    <2>2. QED
      BY <2>1 DEF PoolNext
  <1>3. QED
    BY <1>1, <1>2

LEMMA AwaitCall ==
  ASSUME IInv, NEW p \in Slot, NEW t, NEW k \in PoolKey, NEW amount \in Amount,
         NEW c \in {TipCall(k, amount), DirectCall(k, amount), DebitCall(k, amount)},
         call[p] = NoCall, Await(p, t, c), PoolUnchanged
  PROVE  [PoolNext]_poolVars
  <1>1. call[p].op \notin Pending
    BY DEF NoCall, Pending
  <1>2. Call(p, k, amount)
    BY <1>1 DEF Await, PoolUnchanged, Call
  <1>3. QED
    BY <1>2 DEF PoolNext

LEMMA FreeSlot ==
  ASSUME IInv, NEW p \in Slot, Free(p)
  PROVE  call[p] = NoCall
  BY DEF IInv, TasksOK, HandlerOK, Free, Idle, AwaitsPool

LEMMA IdleHandler == HandlerOK(Idle, NoCall)
  BY DEF HandlerOK, Idle, AwaitsPool

-------------------------------------------------------------------------------
(* A step of a handler, as the pools see it.                               *)

StepOK == [PoolNext]_poolVars /\ TasksOK'

LEMMA StepOnNothing ==
  ASSUME IInv, NEW p \in Slot, NEW t, Await(p, t, NoCall), PoolUnchanged,
         "pc" \in DOMAIN t
  PROVE  StepOK
  <1>1. HandlerOK(t, NoCall)
    BY DEF HandlerOK
  <1>2. QED
    BY <1>1, AwaitTasks, AwaitNothing DEF StepOK

LEMMA StepOnCall ==
  ASSUME IInv, NEW p \in Slot, NEW t, NEW k \in PoolKey, NEW amount \in Amount,
         NEW c \in {TipCall(k, amount), DirectCall(k, amount), DebitCall(k, amount)},
         call[p] = NoCall, Await(p, t, c), PoolUnchanged,
         "pc" \in DOMAIN t, t.pc \in AwaitsPool
  PROVE  StepOK
  <1>1. HandlerOK(t, c)
    BY DEF HandlerOK
  <1>2. QED
    BY <1>1, AwaitTasks, AwaitCall DEF StepOK

LEMMA StepElsewhere ==
  ASSUME IInv, UNCHANGED <<poolVars, task>>
  PROVE  StepOK
  BY DEF IInv, TasksOK, HandlerOK, StepOK, poolVars

LEMMA StepReply ==
  ASSUME IInv, NEW p \in Slot, Reply(p), PoolUnchanged
  PROVE  StepOK
  <1>1. "pc" \in DOMAIN Idle
    BY DEF Idle
  <1>2. QED
    BY <1>1, StepOnNothing DEF Reply

LEMMA StepPoolCall ==
  ASSUME IInv, NEW p \in Slot, PoolStep(p), UNCHANGED task
  PROVE  StepOK
  <1>1. PoolNext
    BY DEF PoolNext
  <1>2. call[p].op \in Pending
    BY DEF PoolStep, ReadVolume, CreditTip, CreditBountyDirect, CheckDebit,
           DebitPayout, Pending
  <1>3. call[p] # NoCall
    BY <1>2 DEF NoCall, Pending
  <1>4. \A q \in Slot \ {p} : call'[q] = call[q]
    BY DEF PoolStep, ReadVolume, CreditTip, CreditBountyDirect, CheckDebit,
           DebitPayout, IInv, PoolTypeOK
  <1>5. \A q \in Slot : HandlerOK(task'[q], call'[q])
    BY <1>3, <1>4 DEF IInv, TasksOK, HandlerOK
  <1>6. TasksOK'
    BY <1>5 DEF IInv, TasksOK
  <1>7. QED
    BY <1>1, <1>6 DEF StepOK

===============================================================================
