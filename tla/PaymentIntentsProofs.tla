------------------------- MODULE PaymentIntentsProofs -------------------------
(***************************************************************************)
(* Proofs about funded events, for every number of slots, events, invoices *)
(* and every time to live: the two maps of the payment store agree, the    *)
(* pools are used as specified, and an invoice is credited at most once    *)
(* per request in flight, and so once where requests do not overlap.       *)
(* Whatever was tipped was paid, the log and the index of events follow    *)
(* the credits, and a paid request that waits for its event stays          *)
(* claimable until it expires.                                             *)
(***************************************************************************)
EXTENDS PaymentIntents, BountyPoolProofs, TotalsProofs, FiniteSetTheorems

\* A record is in the map under its own payment hash, and its invoice exists.
HashesOwn ==
  \A h \in Invoice :
    byPaymentHash[h] # NoPayment => /\ byPaymentHash[h].hash = h
                                    /\ lnd[h].state # "NONE"

StoreInv == StoresAgree /\ HashesOwn

MapTypes ==
  /\ byEventHash \in [Event -> PaymentRecord \cup {NoPayment}]
  /\ byPaymentHash \in [Invoice -> PaymentRecord \cup {NoPayment}]

PayInv == PaymentTypeOK /\ TasksOK /\ StoreInv

-------------------------------------------------------------------------------
(* Local state of the handlers.                                            *)

LEMMA HandlerCases ==
  ASSUME NEW t \in HandlerRecord
  PROVE  /\ t.pc = "invoice" => t \in [pc : {"invoice"}, event : Event, sats : RequestSats]
         /\ t.pc \in {"lookup", "event", "index"}
              => t \in [pc : {"lookup", "event", "index"}, event : Event,
                        payment : PaymentRecord]
         /\ t.pc \in {"idle", "invoice", "lookup", "event", "index"}
         /\ t.pc = "idle" => t = Idle
  BY DEF HandlerRecord, Idle

\* Slot p goes on with a handler state that fits the call it awaits.
LEMMA AwaitTypes ==
  ASSUME PaymentTypeOK, NEW p \in Slot, NEW t \in HandlerRecord, NEW c,
         Await(p, t, c), c.op # "none" => t.pc = "event",
         t.pc \in {"lookup", "event", "index"}
           => t.payment.event = t.event /\ t.payment.sats = EventSats[t.event]
  PROVE  /\ task' \in [Slot -> HandlerRecord]
         /\ \A q \in Slot :
              /\ call'[q].op # "none" => task'[q].pc = "event"
              /\ task'[q].pc \in {"lookup", "event", "index"}
                   => /\ task'[q].payment.event = task'[q].event
                      /\ task'[q].payment.sats = EventSats[task'[q].event]
  <1>1. task' = [task EXCEPT ![p] = t] /\ call' = [call EXCEPT ![p] = c]
    BY DEF Await
  <1>2. DOMAIN task = Slot /\ DOMAIN call = Slot
    BY DEF PaymentTypeOK, PoolTypeOK
  <1>3. task'[p] = t /\ call'[p] = c
    BY <1>1, <1>2
  <1>4. \A q \in Slot \ {p} : task'[q] = task[q] /\ call'[q] = call[q]
    BY <1>1, <1>2
  <1>5. task' \in [Slot -> HandlerRecord]
    BY <1>1 DEF PaymentTypeOK
  <1>6. QED
    BY <1>3, <1>4, <1>5 DEF PaymentTypeOK

-------------------------------------------------------------------------------
(* The two maps.                                                           *)

LEMMA DeleteKeeps ==
  ASSUME MapTypes, StoreInv, NEW h \in Invoice, DeletePayment(h), UNCHANGED lnd
  PROVE  /\ MapTypes' /\ StoreInv'
         /\ byPaymentHash'[h] = NoPayment
         /\ \A i \in Invoice : byPaymentHash'[i] \in {byPaymentHash[i], NoPayment}
  <1>1. CASE byPaymentHash[h] = NoPayment
    BY <1>1 DEF DeletePayment, MapTypes, StoreInv, StoresAgree, HashesOwn, storeVars
  <1>2. CASE byPaymentHash[h] # NoPayment
    <2> DEFINE old == byPaymentHash[h].event
    <2>1. /\ byEventHash' = [byEventHash EXCEPT ![old] = NoPayment]
          /\ byPaymentHash' = [byPaymentHash EXCEPT ![h] = NoPayment]
      BY <1>2 DEF DeletePayment
    <2>2. MapTypes'
      BY <2>1 DEF MapTypes
    <2>3. /\ \A i \in Invoice : byPaymentHash'[i] =
                IF i = h THEN NoPayment ELSE byPaymentHash[i]
          /\ \A e \in Event : byEventHash'[e] =
                IF e = old THEN NoPayment ELSE byEventHash[e]
      BY <2>1 DEF MapTypes
    <2>4. HashesOwn'
      BY <2>3 DEF HashesOwn, StoreInv
    <2>5. ASSUME NEW e \in Event, byEventHash'[e] # NoPayment
          PROVE  /\ byEventHash'[e].event = e
                 /\ byPaymentHash'[byEventHash'[e].hash] = byEventHash'[e]
      <3>1. e # old /\ byEventHash'[e] = byEventHash[e]
        BY <2>3, <2>5
      <3>2. /\ byEventHash[e].event = e
            /\ byPaymentHash[byEventHash[e].hash] = byEventHash[e]
        BY <2>5, <3>1 DEF StoreInv, StoresAgree
      <3>3. byEventHash[e].hash \in Invoice
        BY <2>5, <3>1 DEF MapTypes, PaymentRecord
      <3>4. byEventHash[e].hash # h
        BY <3>1, <3>2
      <3>5. QED
        BY <2>3, <3>1, <3>2, <3>3, <3>4
    <2>6. StoresAgree'
      BY <2>5 DEF StoresAgree
    <2>7. QED
      BY <2>2, <2>3, <2>4, <2>6 DEF StoreInv
  <1>3. QED
    BY <1>1, <1>2

LEMMA LookUpKeeps ==
  ASSUME MapTypes, StoreInv, NEW e \in Event, LookUp(e), UNCHANGED lnd
  PROVE  /\ MapTypes' /\ StoreInv'
         /\ \A i \in Invoice : byPaymentHash'[i] \in {byPaymentHash[i], NoPayment}
         /\ Live(byEventHash[e]) => UNCHANGED storeVars
  <1>1. CASE byEventHash[e] # NoPayment /\ Expired(byEventHash[e])
    <2>1. DeletePayment(byEventHash[e].hash) /\ byEventHash[e].hash \in Invoice
      BY <1>1 DEF LookUp, MapTypes, PaymentRecord
    <2>2. QED
      BY <1>1, <2>1, DeleteKeeps DEF Live
  <1>2. CASE ~ (byEventHash[e] # NoPayment /\ Expired(byEventHash[e]))
    BY <1>2 DEF LookUp, storeVars, MapTypes, StoreInv, StoresAgree, HashesOwn
  <1>3. QED
    BY <1>1, <1>2

LEMMA CleanupKeeps ==
  ASSUME MapTypes, StoreInv, Cleanup
  PROVE  /\ MapTypes' /\ StoreInv'
         /\ \A i \in Invoice : byPaymentHash'[i] \in {byPaymentHash[i], NoPayment}
  <1> DEFINE old == {h \in Invoice : byPaymentHash[h] # NoPayment /\ Expired(byPaymentHash[h])}
  <1>1. /\ byPaymentHash' = [h \in Invoice |-> IF h \in old THEN NoPayment
                                                             ELSE byPaymentHash[h]]
        /\ byEventHash' = [e \in Event |->
                             IF \E h \in old : byPaymentHash[h].event = e
                             THEN NoPayment ELSE byEventHash[e]]
        /\ UNCHANGED lnd
    BY DEF Cleanup
  <1> HIDE DEF old
  <1>2. MapTypes'
    BY <1>1 DEF MapTypes
  <1>3. HashesOwn'
    BY <1>1 DEF HashesOwn, StoreInv
  <1>4. ASSUME NEW e \in Event, byEventHash'[e] # NoPayment
        PROVE  /\ byEventHash'[e].event = e
               /\ byPaymentHash'[byEventHash'[e].hash] = byEventHash'[e]
    <2>1. /\ byEventHash'[e] = byEventHash[e]
          /\ \A h \in old : byPaymentHash[h].event # e
      BY <1>1, <1>4
    <2>2. /\ byEventHash[e].event = e
          /\ byPaymentHash[byEventHash[e].hash] = byEventHash[e]
      BY <1>4, <2>1 DEF StoreInv, StoresAgree
    <2>3. byEventHash[e].hash \in Invoice \ old
      BY <1>4, <2>1, <2>2 DEF MapTypes, PaymentRecord
    <2>4. QED
      BY <1>1, <2>1, <2>2, <2>3
  <1>5. StoresAgree'
    BY <1>4 DEF StoresAgree
  <1>6. QED
    BY <1>1, <1>2, <1>3, <1>5 DEF StoreInv

-------------------------------------------------------------------------------
(* What one step does: to the pools, to the types and to the two maps.     *)

PayStep ==
  /\ StepOK
  /\ PoolTypeOK' => PaymentTypeOK'
  /\ StoreInv'

LEMMA InvParts ==
  ASSUME PayInv
  PROVE  /\ IInv /\ MapTypes /\ StoreInv /\ PaymentTypeOK
         /\ \A p \in Slot : task[p] \in HandlerRecord
  BY DEF PayInv, IInv, MapTypes, PaymentTypeOK

\* A handler that goes on without a pool call; the maps as they may be.
LEMMA GoesOn ==
  ASSUME PayInv, NEW p \in Slot, NEW t \in HandlerRecord,
         Await(p, t, NoCall), PoolUnchanged,
         t.pc \in {"lookup", "event", "index"}
           => t.payment.event = t.event /\ t.payment.sats = EventSats[t.event],
         MapTypes', StoreInv', lnd' \in [Invoice -> InvoiceRecord],
         UNCHANGED <<clock, credits>>, indexed' \subseteq Event
  PROVE  PayStep
  <1>1. "pc" \in DOMAIN t
    BY DEF HandlerRecord, Idle
  <1>2. StepOK
    BY <1>1, InvParts, StepOnNothing
  <1>3. NoCall.op = "none"
    BY DEF NoCall
  <1>4. PoolTypeOK' => PaymentTypeOK'
    BY <1>3, InvParts, AwaitTypes DEF PaymentTypeOK, MapTypes
  <1>5. QED
    BY <1>2, <1>4 DEF PayStep

LEMMA Replies ==
  ASSUME PayInv, NEW p \in Slot, Reply(p), PoolUnchanged,
         UNCHANGED <<storeVars, lnd, clock, credits>>, indexed' \subseteq Event
  PROVE  PayStep
  <1>1. Idle \in HandlerRecord /\ Idle.pc = "idle"
    BY DEF HandlerRecord, Idle
  <1>2. MapTypes' /\ StoreInv' /\ lnd' \in [Invoice -> InvoiceRecord]
    BY InvParts DEF storeVars, MapTypes, StoreInv, StoresAgree, HashesOwn, PaymentTypeOK
  <1>3. QED
    BY <1>1, <1>2, GoesOn DEF Reply

\* A step outside the handlers.
LEMMA Surroundings ==
  ASSUME PayInv, UNCHANGED <<poolVars, task, indexed>>,
         MapTypes', StoreInv', lnd' \in [Invoice -> InvoiceRecord],
         clock' \in 0..MaxClock, credits' \in [Invoice -> Nat]
  PROVE  PayStep
  <1>1. StepOK
    BY InvParts, StepElsewhere
  <1>2. QED
    BY <1>1 DEF PayInv, PayStep, PaymentTypeOK, MapTypes, poolVars

LEMMA DoRequest ==
  ASSUME PayInv, NEW p \in Slot, NEW e \in Event, NEW sats \in RequestSats,
         RequestInvoice(p, e, sats)
  PROVE  PayStep
  <1> DEFINE t == [pc |-> "invoice", event |-> e, sats |-> sats]
  <1>1. t \in HandlerRecord /\ t.pc = "invoice"
    BY DEF HandlerRecord
  <1>2. MapTypes' /\ StoreInv'
    BY InvParts, LookUpKeeps DEF RequestInvoice
  <1>3. /\ Await(p, t, NoCall) /\ PoolUnchanged
        /\ UNCHANGED <<lnd, clock, credits, indexed>>
    BY DEF RequestInvoice, eventVars, historyVars
  <1> HIDE DEF t
  <1>4. QED
    BY <1>1, <1>2, <1>3, GoesOn DEF PayInv, PaymentTypeOK

\* An invoice LND hands out is in neither map, so entering its record takes
\* no other event's record away.
LEMMA DoStore ==
  ASSUME PayInv, NEW p \in Slot, StorePayment(p)
  PROVE  PayStep
  <1> DEFINE t == task[p]
             expiry == clock + Ttl
  <1>1. PICK h \in Invoice :
          LET r == [hash |-> h, event |-> t.event, sats |-> t.sats, expiresAt |-> expiry]
          IN  /\ t.pc = "invoice"
              /\ lnd[h].state = "NONE"
              /\ lnd' = [lnd EXCEPT ![h] = [state |-> "OPEN", event |-> t.event,
                                            sats |-> t.sats, expiresAt |-> expiry]]
              /\ byEventHash' = [byEventHash EXCEPT ![t.event] = r]
              /\ byPaymentHash' = [byPaymentHash EXCEPT ![h] = r]
              /\ Reply(p) /\ PoolUnchanged
              /\ UNCHANGED <<clock, credits, indexed>>
    BY DEF StorePayment, CreateInvoice, eventVars, historyVars
  <1> DEFINE r == [hash |-> h, event |-> t.event, sats |-> t.sats, expiresAt |-> expiry]
             i == [state |-> "OPEN", event |-> t.event, sats |-> t.sats,
                   expiresAt |-> expiry]
             e == t.event
  <1>2. t \in [pc : {"invoice"}, event : Event, sats : RequestSats]
    BY <1>1, InvParts, HandlerCases
  <1>3. e \in Event /\ t.sats \in RequestSats
    BY <1>2
  <1>4. expiry \in 0..(MaxClock + Ttl)
    BY PaymentAssumption DEF PayInv, PaymentTypeOK
  <1> HIDE DEF expiry
  <1>5. r \in PaymentRecord /\ r.hash = h /\ r.event = e
    BY <1>3, <1>4 DEF PaymentRecord
  <1>6. i \in InvoiceRecord /\ i.state # "NONE"
    BY <1>3, <1>4 DEF InvoiceRecord
  <1> HIDE DEF r, i
  <1>7. /\ lnd' = [lnd EXCEPT ![h] = i]
        /\ byEventHash' = [byEventHash EXCEPT ![e] = r]
        /\ byPaymentHash' = [byPaymentHash EXCEPT ![h] = r]
    BY <1>1 DEF r, i
  <1> HIDE DEF t
  <1>8. MapTypes' /\ lnd' \in [Invoice -> InvoiceRecord]
    BY <1>3, <1>5, <1>6, <1>7, InvParts DEF MapTypes, PaymentTypeOK
  <1>9. \A g \in Invoice : /\ lnd'[g] = IF g = h THEN i ELSE lnd[g]
                           /\ byPaymentHash'[g] = IF g = h THEN r ELSE byPaymentHash[g]
    BY <1>7, InvParts DEF MapTypes, PaymentTypeOK
  <1>10. HashesOwn'
    BY <1>5, <1>6, <1>9, InvParts DEF StoreInv, HashesOwn
  <1>11. ASSUME NEW f \in Event, byEventHash'[f] # NoPayment
         PROVE  /\ byEventHash'[f].event = f
                /\ byPaymentHash'[byEventHash'[f].hash] = byEventHash'[f]
    <2>1. CASE f = e
      <3>1. byEventHash'[f] = r
        BY <1>7, <2>1, <1>3, InvParts DEF MapTypes
      <3>2. QED
        BY <1>5, <1>9, <2>1, <3>1
    <2>2. CASE f # e
      <3>1. byEventHash'[f] = byEventHash[f]
        BY <1>7, <2>2, InvParts DEF MapTypes
      <3>2. /\ byEventHash[f].event = f
            /\ byPaymentHash[byEventHash[f].hash] = byEventHash[f]
            /\ byEventHash[f].hash \in Invoice
        BY <1>11, <3>1, InvParts DEF StoreInv, StoresAgree, MapTypes, PaymentRecord
      <3>3. byPaymentHash[h] = NoPayment
        BY <1>1, InvParts DEF StoreInv, HashesOwn
      <3>4. byEventHash[f].hash # h
        BY <1>11, <3>1, <3>2, <3>3
      <3>5. QED
        BY <1>9, <3>1, <3>2, <3>4
    <2>3. QED
      BY <2>1, <2>2
  <1>12. StoreInv'
    BY <1>10, <1>11 DEF StoreInv, StoresAgree
  <1>13. Idle \in HandlerRecord /\ Idle.pc = "idle"
    BY DEF HandlerRecord, Idle
  <1>14. Await(p, Idle, NoCall) /\ PoolUnchanged /\ UNCHANGED <<clock, credits, indexed>>
    BY <1>1 DEF Reply
  <1>15. QED
    BY <1>8, <1>12, <1>13, <1>14, GoesOn DEF PayInv, PaymentTypeOK

LEMMA DoSubmit ==
  ASSUME PayInv, NEW p \in Slot, NEW e \in Event, SubmitEvent(p, e)
  PROVE  PayStep
  <1> DEFINE r == byEventHash[e]
             t == [pc |-> "lookup", event |-> e, payment |-> r]
  <1>1. /\ r # NoPayment /\ LookUp(e) /\ PoolUnchanged
        /\ UNCHANGED <<lnd, clock, credits, indexed>>
    BY DEF SubmitEvent, eventVars, historyVars
  <1>2. MapTypes' /\ StoreInv'
    BY <1>1, InvParts, LookUpKeeps
  <1>3. CASE Live(r) /\ r.sats = EventSats[e] /\ Await(p, t, NoCall)
    <2>1. r \in PaymentRecord /\ r.event = e
      BY <1>1, InvParts DEF MapTypes, StoreInv, StoresAgree
    <2>2. t \in HandlerRecord /\ t.payment.event = t.event
          /\ t.payment.sats = EventSats[t.event]
      BY <1>3, <2>1 DEF HandlerRecord
    <2> HIDE DEF t
    <2>3. QED
      BY <1>1, <1>2, <1>3, <2>2, GoesOn DEF PayInv, PaymentTypeOK
  <1>4. CASE UNCHANGED <<task, call>>
    BY <1>1, <1>2, <1>4, Surroundings DEF PayInv, PaymentTypeOK, PoolUnchanged, poolVars
  <1>5. QED
    BY <1>3, <1>4 DEF SubmitEvent

LEMMA DoConsume ==
  ASSUME PayInv, NEW p \in Slot, ConsumePayment(p)
  PROVE  PayStep
  <1> DEFINE t == task[p]
             next == [t EXCEPT !.pc = "event"]
             c == TipCall(EventRef[t.event], EventSats[t.event])
  <1>1. /\ t.pc = "lookup" /\ PoolUnchanged
        /\ UNCHANGED <<lnd, clock, credits, indexed>>
    BY DEF ConsumePayment, eventVars, historyVars
  <1>2. t \in [pc : {"lookup", "event", "index"}, event : Event, payment : PaymentRecord]
    BY <1>1, InvParts, HandlerCases
  <1>3. t.payment.event = t.event /\ t.payment.sats = EventSats[t.event]
    BY <1>1 DEF PayInv, PaymentTypeOK
  <1>4. CASE Reply(p) /\ UNCHANGED storeVars
    BY <1>1, <1>4, Replies DEF PayInv, PaymentTypeOK
  <1>5. CASE DeletePayment(t.payment.hash) /\ Await(p, next, c)
    <2>1. /\ t.payment.hash \in Invoice
          /\ EventRef[t.event] \in PoolKey /\ EventSats[t.event] \in Amount
      BY <1>2, PaymentAssumption DEF PaymentRecord
    <2>2. MapTypes' /\ StoreInv'
      BY <1>1, <1>5, <2>1, InvParts, DeleteKeeps
    <2>3. /\ next \in HandlerRecord /\ "pc" \in DOMAIN next /\ next.pc = "event"
          /\ next.event = t.event /\ next.payment = t.payment
      BY <1>2 DEF HandlerRecord
    <2>4. call[p] = NoCall
      BY <1>1 DEF PayInv, TasksOK, HandlerOK, AwaitsPool
    <2> HIDE DEF next, t
    <2>5. StepOK
      BY <1>1, <1>5, <2>1, <2>3, <2>4, InvParts, StepOnCall DEF AwaitsPool
    <2>6. PoolTypeOK' => PaymentTypeOK'
      BY <1>1, <1>3, <1>5, <2>2, <2>3, InvParts, AwaitTypes DEF PaymentTypeOK, MapTypes
    <2>7. QED
      BY <2>2, <2>5, <2>6 DEF PayStep
  <1>6. QED
    BY <1>4, <1>5 DEF ConsumePayment

\* A pool call in progress belongs to a handler that credits an event.
LEMMA DoPoolCall ==
  ASSUME PayInv, NEW p \in Slot, RunPoolCall(p)
  PROVE  PayStep
  <1>1. /\ PoolStep(p)
        /\ UNCHANGED <<task, storeVars, lnd, clock, indexed>>
    BY DEF RunPoolCall, eventVars
  <1>2. StepOK
    BY <1>1, InvParts, StepPoolCall
  <1>3. call[p].op \in Pending /\ \A q \in Slot \ {p} : call'[q] = call[q]
    BY <1>1 DEF PoolStep, ReadVolume, CreditTip, CreditBountyDirect, CheckDebit,
           DebitPayout, Pending, PayInv, PaymentTypeOK, PoolTypeOK
  <1>4. task[p].pc = "event"
    BY <1>3 DEF Pending, PayInv, PaymentTypeOK
  <1>5. task[p].payment.hash \in Invoice
    <2>1. task[p] \in [pc : {"lookup", "event", "index"}, event : Event,
                       payment : PaymentRecord]
      BY <1>4, InvParts, HandlerCases
    <2>2. QED
      BY <2>1 DEF PaymentRecord
  <1>6. credits' \in [Invoice -> Nat]
    BY <1>5 DEF RunPoolCall, PayInv, PaymentTypeOK
  <1>7. \A q \in Slot : call'[q].op # "none" => task[q].pc = "event"
    BY <1>3, <1>4 DEF PayInv, PaymentTypeOK
  <1>8. PoolTypeOK' => PaymentTypeOK'
    BY <1>1, <1>6, <1>7 DEF PayInv, PaymentTypeOK, storeVars
  <1>9. StoreInv'
    BY <1>1, InvParts DEF StoreInv, StoresAgree, HashesOwn, storeVars
  <1>10. QED
    BY <1>2, <1>8, <1>9 DEF PayStep

LEMMA DoAppend ==
  ASSUME PayInv, NEW p \in Slot, AppendEvent(p)
  PROVE  PayStep
  <1> DEFINE t == task[p]
             next == [t EXCEPT !.pc = "index"]
  <1>1. /\ t.pc = "event" /\ Await(p, next, NoCall) /\ PoolUnchanged
        /\ UNCHANGED <<storeVars, lnd, clock, credits, indexed>>
    BY DEF AppendEvent, historyVars
  <1>2. t \in [pc : {"lookup", "event", "index"}, event : Event, payment : PaymentRecord]
    BY <1>1, InvParts, HandlerCases
  <1>3. t.payment.event = t.event /\ t.payment.sats = EventSats[t.event]
    BY <1>1 DEF PayInv, PaymentTypeOK
  <1>4. /\ next \in HandlerRecord
        /\ next.event = t.event /\ next.payment = t.payment
    BY <1>2 DEF HandlerRecord
  <1> HIDE DEF next, t
  <1>5. MapTypes' /\ StoreInv'
    BY <1>1, InvParts DEF storeVars, MapTypes, StoreInv, StoresAgree, HashesOwn
  <1>6. QED
    BY <1>1, <1>3, <1>4, <1>5, GoesOn DEF PayInv, PaymentTypeOK

LEMMA DoIndex ==
  ASSUME PayInv, NEW p \in Slot, StoreProtocolEvent(p)
  PROVE  PayStep
  <1>1. task[p].pc = "index" /\ indexed' = indexed \cup {task[p].event}
    BY DEF StoreProtocolEvent
  <1>2. task[p].event \in Event
    <2>1. task[p] \in [pc : {"lookup", "event", "index"}, event : Event,
                       payment : PaymentRecord]
      BY <1>1, InvParts, HandlerCases
    <2>2. QED
      BY <2>1
  <1>3. indexed' \subseteq Event
    BY <1>1, <1>2 DEF PayInv, PaymentTypeOK
  <1>4. QED
    BY <1>3, Replies DEF StoreProtocolEvent, historyVars

LEMMA DoStop ==
  ASSUME PayInv, NEW p \in Slot, LndFails(p) \/ Abort(p)
  PROVE  PayStep
  BY Replies DEF LndFails, Abort, eventVars, historyVars, PayInv, PaymentTypeOK

LEMMA DoPoll ==
  ASSUME PayInv, NEW h \in Invoice, PollPayment(h)
  PROVE  PayStep
  <1>1. MapTypes' /\ StoreInv'
    BY InvParts, DeleteKeeps DEF PollPayment
  <1>2. QED
    BY <1>1, Surroundings DEF PollPayment, eventVars, historyVars, PayInv, PaymentTypeOK

LEMMA DoCleanup ==
  ASSUME PayInv, Cleanup
  PROVE  PayStep
  <1>1. MapTypes' /\ StoreInv'
    BY InvParts, CleanupKeeps
  <1>2. QED
    BY <1>1, Surroundings DEF Cleanup, eventVars, historyVars, PayInv, PaymentTypeOK

LEMMA DoPay ==
  ASSUME PayInv, NEW h \in Invoice, PayInvoice(h)
  PROVE  PayStep
  <1>1. /\ lnd[h].state = "OPEN"
        /\ lnd' = [lnd EXCEPT ![h] = [lnd[h] EXCEPT !.state = "SETTLED"]]
        /\ UNCHANGED <<poolVars, task, storeVars, clock, credits, indexed>>
    BY DEF PayInvoice, eventVars, historyVars
  <1>2. lnd[h] \in [state : {"OPEN", "SETTLED"}, event : Event, sats : RequestSats,
                    expiresAt : 0..(MaxClock + Ttl)]
    BY <1>1 DEF PayInv, PaymentTypeOK, InvoiceRecord
  <1> DEFINE i == [lnd[h] EXCEPT !.state = "SETTLED"]
  <1>3. i \in InvoiceRecord /\ i.state = "SETTLED"
    BY <1>2 DEF InvoiceRecord
  <1> HIDE DEF i
  <1>4. /\ lnd' \in [Invoice -> InvoiceRecord]
        /\ \A g \in Invoice : lnd[g].state # "NONE" => lnd'[g].state # "NONE"
    BY <1>1, <1>3 DEF i, PayInv, PaymentTypeOK
  <1>5. MapTypes' /\ StoreInv'
    BY <1>1, <1>4, InvParts DEF storeVars, MapTypes, StoreInv, StoresAgree, HashesOwn
  <1>6. QED
    BY <1>1, <1>4, <1>5, Surroundings DEF PayInv, PaymentTypeOK

LEMMA DoTime ==
  ASSUME PayInv, Tick \/ Quiet \/ UNCHANGED vars
  PROVE  PayStep
  <1>1. MapTypes' /\ StoreInv'
    BY InvParts DEF Tick, Quiet, vars, storeVars, MapTypes, StoreInv, StoresAgree, HashesOwn
  <1>2. clock' \in 0..MaxClock
    BY PaymentAssumption DEF Tick, Quiet, vars, PayInv, PaymentTypeOK
  <1>3. QED
    BY <1>1, <1>2, Surroundings DEF Tick, Quiet, vars, eventVars, historyVars,
                                    PayInv, PaymentTypeOK

LEMMA DoRestart ==
  ASSUME PayInv, Restart
  PROVE  PayStep
  <1>1. MapTypes' /\ StoreInv'
    BY DEF Restart, MapTypes, StoreInv, StoresAgree, HashesOwn
  <1>2. QED
    BY <1>1, Surroundings DEF Restart, eventVars, PayInv, PaymentTypeOK

-------------------------------------------------------------------------------
(* The invariant.                                                          *)

LEMMA PayInit == Init => PayInv
  <1> SUFFICES ASSUME Init
               PROVE  PayInv
    OBVIOUS
  <1>1. PoolTypeOK
    BY PoolTypeInit DEF Init
  <1>2. task = [p \in Slot |-> Idle] /\ call = [p \in Slot |-> NoCall]
    BY DEF Init, PoolInit
  <1>3. TasksOK
    BY <1>2, IdleHandler DEF TasksOK
  <1>4. PaymentTypeOK
    <2>1. Idle \in HandlerRecord /\ Idle.pc = "idle" /\ NoCall.op = "none"
      BY DEF HandlerRecord, Idle, NoCall
    <2>2. [state |-> "NONE"] \in InvoiceRecord
      BY DEF InvoiceRecord
    <2>3. 0 \in 0..MaxClock
      BY PaymentAssumption
    <2>4. QED
      BY <1>1, <1>2, <2>1, <2>2, <2>3 DEF Init, PaymentTypeOK
  <1>5. StoreInv
    BY DEF Init, StoreInv, StoresAgree, HashesOwn
  <1>6. QED
    BY <1>3, <1>4, <1>5 DEF PayInv

LEMMA PayNext == PayInv /\ [Next]_vars => PayStep
  <1> SUFFICES ASSUME PayInv, [Next]_vars
               PROVE  PayStep
    OBVIOUS
  <1>1. ASSUME NEW p \in Slot, HandlerStep(p)
        PROVE  PayStep
    BY <1>1, DoRequest, DoStore, DoSubmit, DoConsume, DoPoolCall, DoAppend, DoIndex,
       DoStop DEF HandlerStep
  <1>2. ASSUME NEW h \in Invoice, PollPayment(h) \/ PayInvoice(h)
        PROVE  PayStep
    BY <1>2, DoPoll, DoPay
  <1>3. CASE Cleanup \/ Restart
    BY <1>3, DoCleanup, DoRestart
  <1>4. CASE Tick \/ Quiet \/ UNCHANGED vars
    BY <1>4, DoTime
  <1>5. QED
    BY <1>1, <1>2, <1>3, <1>4 DEF Next

LEMMA PayInvStep == PayInv /\ [Next]_vars => PayInv'
  <1> SUFFICES ASSUME PayInv, [Next]_vars
               PROVE  PayInv'
    OBVIOUS
  <1>1. PayStep
    BY PayNext
  <1>2. PoolTypeOK'
    BY <1>1, PoolTypeStep DEF PayStep, StepOK, PayInv, PaymentTypeOK
  <1>3. QED
    BY <1>1, <1>2 DEF PayStep, StepOK, PayInv

LEMMA PayInvariant == Spec => []PayInv
  BY PayInit, PayInvStep, PTL DEF Spec

\* The state of the payment store, the handlers and the pools keeps its types.
THEOREM PaymentTypeCorrect == Spec => []PaymentTypeOK
  <1>1. PayInv => PaymentTypeOK
    BY DEF PayInv
  <1>2. QED
    BY <1>1, PayInvariant, PTL

\* A payment request found by event hash is found by payment hash.
THEOREM StoresAgreeCorrect == Spec => []StoresAgree
  <1>1. PayInv => StoresAgree
    BY DEF PayInv, StoreInv
  <1>2. QED
    BY <1>1, PayInvariant, PTL

\* POST /event uses the pools as specified.
THEOREM PaymentsUsePools == Spec => PoolSpec
  <1>1. PayInv /\ [Next]_vars => [PoolNext]_poolVars
    BY PayNext DEF PayStep, StepOK
  <1>2. Init => PoolInit
    BY DEF Init
  <1>3. QED
    BY <1>1, <1>2, PayInvariant, PTL DEF Spec, PoolSpec

-------------------------------------------------------------------------------
(* Credits of one invoice.  An invoice that was credited has left the maps *)
(* for good, so all the handlers that may credit it have looked it up      *)
(* before: with the credits they are no more than there are slots.         *)

Spent(h) == byPaymentHash[h] = NoPayment /\ lnd[h].state # "NONE"

\* The handlers that found h and have not credited it yet.
Claims(h) ==
  {p \in Slot : /\ task[p].pc \in {"lookup", "event"}
                /\ task[p].payment.hash = h
                /\ call[p].op # "done"}

CreditBound ==
  /\ \A h \in Invoice : /\ credits[h] + Cardinality(Claims(h)) <= Cardinality(Slot)
                        /\ credits[h] > 0 => Spent(h)
  /\ \A p \in Slot :
       LET h == task[p].payment.hash
       IN  /\ task[p].pc = "lookup" => lnd[h].state # "NONE"
           /\ task[p].pc = "event" => Spent(h)

LEMMA ClaimCount ==
  ASSUME IsFiniteSet(Slot), NEW A, NEW B, A \subseteq B, B \subseteq Slot
  PROVE  /\ Cardinality(A) \in Nat /\ Cardinality(B) \in Nat /\ Cardinality(Slot) \in Nat
         /\ Cardinality(A) <= Cardinality(B) /\ Cardinality(B) <= Cardinality(Slot)
  <1>1. IsFiniteSet(B) /\ Cardinality(B) <= Cardinality(Slot)
    BY FS_Subset
  <1>2. IsFiniteSet(A) /\ Cardinality(A) <= Cardinality(B)
    BY <1>1, FS_Subset
  <1>3. QED
    BY <1>1, <1>2, FS_CardinalityType

LEMMA BoundInit ==
  ASSUME IsFiniteSet(Slot)
  PROVE  Init => CreditBound
  <1> SUFFICES ASSUME Init
               PROVE  CreditBound
    OBVIOUS
  <1>1. \A h \in Invoice : credits[h] = 0
    BY DEF Init
  <1>2. \A p \in Slot : task[p].pc = "idle"
    BY DEF Init, Idle
  <1>3. ASSUME NEW h \in Invoice
        PROVE  Cardinality(Claims(h)) <= Cardinality(Slot) /\ Cardinality(Claims(h)) \in Nat
    <2>1. Claims(h) \subseteq Slot
      BY DEF Claims
    <2>2. QED
      BY <2>1, ClaimCount
  <1>4. QED
    BY <1>1, <1>2, <1>3 DEF CreditBound

\* No credit is made, and no claim of h either.
LEMMA NoNewClaim ==
  ASSUME IsFiniteSet(Slot), PayInv, CreditBound, NEW h \in Invoice,
         credits'[h] = credits[h], Claims(h)' \subseteq Claims(h)
  PROVE  credits'[h] + Cardinality(Claims(h)') <= Cardinality(Slot)
  <1>1. Claims(h) \subseteq Slot
    BY DEF Claims
  <1>2. /\ Cardinality(Claims(h)') \in Nat /\ Cardinality(Claims(h)) \in Nat
        /\ Cardinality(Slot) \in Nat
        /\ Cardinality(Claims(h)') <= Cardinality(Claims(h))
    BY <1>1, ClaimCount
  <1>3. credits[h] \in Nat
    BY DEF PayInv, PaymentTypeOK
  <1>4. credits[h] + Cardinality(Claims(h)) <= Cardinality(Slot)
    BY DEF CreditBound
  <1>5. QED
    BY <1>2, <1>3, <1>4

\* What is spent stays spent, unless a step enters it in the maps again.
LEMMA SpentStays ==
  ASSUME NEW h \in Invoice, Spent(h),
         byPaymentHash'[h] \in {byPaymentHash[h], NoPayment},
         lnd[h].state # "NONE" => lnd'[h].state # "NONE"
  PROVE  Spent(h)'
  BY DEF Spent

LEMMA ClaimedHash ==
  ASSUME PayInv, NEW p \in Slot, task[p].pc \in {"lookup", "event"}
  PROVE  task[p].payment.hash \in Invoice
  BY InvParts, HandlerCases DEF PaymentRecord

\* A step that credits nothing and leaves the handlers alone, or only lets
\* some of them go on to where they neither look up nor credit.
LEMMA BoundAway ==
  ASSUME IsFiniteSet(Slot), PayInv, CreditBound, UNCHANGED credits,
         \A h \in Invoice : /\ byPaymentHash'[h] \in {byPaymentHash[h], NoPayment}
                            /\ lnd[h].state # "NONE" => lnd'[h].state # "NONE",
         \A p \in Slot : \/ task'[p] = task[p] /\ call'[p] = call[p]
                         \/ task'[p].pc \notin {"lookup", "event"}
  PROVE  CreditBound'
  <1>1. ASSUME NEW h \in Invoice
        PROVE  /\ credits'[h] + Cardinality(Claims(h)') <= Cardinality(Slot)
               /\ credits'[h] > 0 => Spent(h)'
               /\ Spent(h) => Spent(h)'
    <2>1. Claims(h)' \subseteq Claims(h)
      BY DEF Claims
    <2>2. credits'[h] + Cardinality(Claims(h)') <= Cardinality(Slot)
      BY <2>1, NoNewClaim
    <2>3. Spent(h) => Spent(h)'
      BY SpentStays
    <2>4. QED
      BY <2>2, <2>3 DEF CreditBound
  <1>2. ASSUME NEW p \in Slot, task[p].pc \in {"lookup", "event"}
        PROVE  task[p].payment.hash \in Invoice
    BY <1>2, ClaimedHash
  <1>3. QED
    BY <1>1, <1>2 DEF CreditBound

\* A handler goes on with handler state t.
LEMMA BoundAwait ==
  ASSUME IsFiniteSet(Slot), PayInv, CreditBound,
         NEW p \in Slot, NEW t, Await(p, t, NoCall),
         t.pc \notin {"lookup", "event"}, UNCHANGED <<credits, lnd>>,
         \A h \in Invoice : byPaymentHash'[h] \in {byPaymentHash[h], NoPayment}
  PROVE  CreditBound'
  <1>1. /\ task'[p] = t
        /\ \A q \in Slot \ {p} : task'[q] = task[q] /\ call'[q] = call[q]
    BY DEF Await, PayInv, PaymentTypeOK, PoolTypeOK
  <1>2. QED
    BY <1>1, BoundAway

\* The invoice that is entered is new: nothing claims it.
LEMMA BoundStore ==
  ASSUME IsFiniteSet(Slot), PayInv, CreditBound, NEW p \in Slot, StorePayment(p)
  PROVE  CreditBound'
  <1> DEFINE t == task[p]
             expiry == clock + Ttl
  <1>1. PICK h \in Invoice :
          /\ lnd[h].state = "NONE"
          /\ lnd' = [lnd EXCEPT ![h] = [state |-> "OPEN", event |-> t.event,
                                        sats |-> t.sats, expiresAt |-> expiry]]
          /\ byPaymentHash' = [byPaymentHash EXCEPT ![h] =
                                 [hash |-> h, event |-> t.event, sats |-> t.sats,
                                  expiresAt |-> expiry]]
          /\ Reply(p) /\ UNCHANGED credits
    BY DEF StorePayment, CreateInvoice, historyVars
  <1>2. credits[h] = 0
    BY <1>1 DEF CreditBound, Spent, PayInv, PaymentTypeOK
  <1>3. \A g \in Invoice \ {h} : lnd'[g] = lnd[g] /\ byPaymentHash'[g] = byPaymentHash[g]
    BY <1>1 DEF PayInv, PaymentTypeOK
  <1>4. /\ task'[p].pc = "idle"
        /\ \A q \in Slot \ {p} : task'[q] = task[q] /\ call'[q] = call[q]
    BY <1>1 DEF Reply, Await, Idle, PayInv, PaymentTypeOK, PoolTypeOK
  <1>5. ASSUME NEW g \in Invoice
        PROVE  /\ credits'[g] + Cardinality(Claims(g)') <= Cardinality(Slot)
               /\ credits'[g] > 0 => Spent(g)'
    <2>1. Claims(g)' \subseteq Claims(g)
      BY <1>4 DEF Claims
    <2>2. credits'[g] + Cardinality(Claims(g)') <= Cardinality(Slot)
      BY <1>1, <2>1, NoNewClaim
    <2>3. CASE g = h
      BY <1>1, <1>2, <2>2, <2>3
    <2>4. CASE g # h
      BY <1>1, <1>3, <2>2, <2>4 DEF CreditBound, Spent
    <2>5. QED
      BY <2>3, <2>4
  <1>6. ASSUME NEW q \in Slot, task'[q].pc \in {"lookup", "event"}
        PROVE  /\ task'[q].pc = "lookup" => lnd'[task'[q].payment.hash].state # "NONE"
               /\ task'[q].pc = "event" => Spent(task[q].payment.hash)'
    <2>1. q # p /\ task'[q] = task[q]
      BY <1>4, <1>6
    <2>2. task[q].payment.hash \in Invoice
      BY <1>6, <2>1, ClaimedHash
    <2>3. /\ task[q].pc = "lookup" => lnd[task[q].payment.hash].state # "NONE"
          /\ task[q].pc = "event" => Spent(task[q].payment.hash)
      BY DEF CreditBound
    <2>4. task[q].payment.hash # h
      BY <1>1, <1>6, <2>1, <2>3 DEF Spent
    <2>5. QED
      BY <1>3, <2>1, <2>2, <2>3, <2>4 DEF Spent
  <1>7. \A q \in Slot : task'[q].pc = "event" => task'[q] = task[q]
    BY <1>4
  <1>8. QED
    BY <1>5, <1>6, <1>7 DEF CreditBound

\* A request that is found has not been consumed, and its invoice not credited.
LEMMA BoundSubmit ==
  ASSUME IsFiniteSet(Slot), PayInv, CreditBound,
         NEW p \in Slot, NEW e \in Event, SubmitEvent(p, e)
  PROVE  CreditBound'
  <1> DEFINE r == byEventHash[e]
             t == [pc |-> "lookup", event |-> e, payment |-> r]
  <1>1. r # NoPayment /\ LookUp(e) /\ UNCHANGED <<lnd, credits>>
    BY DEF SubmitEvent, historyVars
  <1>2. /\ \A i \in Invoice : byPaymentHash'[i] \in {byPaymentHash[i], NoPayment}
        /\ Live(r) => UNCHANGED storeVars
    BY <1>1, InvParts, LookUpKeeps
  <1>3. CASE UNCHANGED <<task, call>>
    BY <1>1, <1>2, <1>3, BoundAway
  <1>4. CASE Live(r) /\ Await(p, t, NoCall)
    <2>1. r.hash \in Invoice /\ byPaymentHash[r.hash] = r
      BY <1>1, InvParts DEF MapTypes, PaymentRecord, StoreInv, StoresAgree
    <2>2. credits[r.hash] = 0 /\ lnd[r.hash].state # "NONE"
      BY <1>1, <2>1, InvParts DEF CreditBound, Spent, StoreInv, HashesOwn, PaymentTypeOK
    <2>3. task'[p] = t /\ \A q \in Slot \ {p} : task'[q] = task[q] /\ call'[q] = call[q]
      BY <1>4 DEF Await, PayInv, PaymentTypeOK, PoolTypeOK
    <2>4. task'[p].pc = "lookup" /\ task'[p].payment.hash = r.hash
      BY <2>3
    <2>5. ASSUME NEW h \in Invoice
          PROVE  credits'[h] + Cardinality(Claims(h)') <= Cardinality(Slot)
      <3>1. CASE h = r.hash
        <4>1. Claims(h)' \subseteq Slot
          BY DEF Claims
        <4>2. /\ Cardinality(Claims(h)') \in Nat
              /\ Cardinality(Claims(h)') <= Cardinality(Slot)
          BY <4>1, ClaimCount
        <4>3. QED
          BY <1>1, <2>2, <3>1, <4>2
      <3>2. CASE h # r.hash
        <4>1. Claims(h)' \subseteq Claims(h)
          BY <2>3, <2>4, <3>2 DEF Claims
        <4>2. QED
          BY <1>1, <4>1, NoNewClaim
      <3>3. QED
        BY <3>1, <3>2
    <2>6. \A h : Spent(h)' <=> Spent(h)
      BY <1>1, <1>2, <1>4 DEF Spent, storeVars
    <2>7. \A h \in Invoice : credits'[h] > 0 => Spent(h)'
      BY <1>1, <2>6 DEF CreditBound
    <2>8. ASSUME NEW q \in Slot
          PROVE  /\ task'[q].pc = "lookup" => lnd'[task'[q].payment.hash].state # "NONE"
                 /\ task'[q].pc = "event" => task'[q] = task[q] /\ Spent(task[q].payment.hash)'
      BY <1>1, <2>2, <2>3, <2>4, <2>6 DEF CreditBound
    <2>9. QED
      BY <2>5, <2>7, <2>8 DEF CreditBound
  <1>5. QED
    BY <1>3, <1>4 DEF SubmitEvent

LEMMA BoundConsume ==
  ASSUME IsFiniteSet(Slot), PayInv, CreditBound, NEW p \in Slot, ConsumePayment(p)
  PROVE  CreditBound'
  <1> DEFINE t == task[p]
             next == [t EXCEPT !.pc = "event"]
  <1>1. t.pc = "lookup" /\ UNCHANGED <<lnd, credits>>
    BY DEF ConsumePayment, historyVars
  <1>2. t \in [pc : {"lookup", "event", "index"}, event : Event, payment : PaymentRecord]
    BY <1>1, InvParts, HandlerCases
  <1>3. PICK h \in Invoice : h = t.payment.hash
    BY <1>2 DEF PaymentRecord
  <1>4. CASE Reply(p) /\ UNCHANGED storeVars
    BY <1>1, <1>4, BoundAwait DEF Reply, Idle, storeVars
  <1>5. CASE /\ DeletePayment(h)
             /\ Await(p, next, TipCall(EventRef[t.event], EventSats[t.event]))
    <2>1. /\ byPaymentHash'[h] = NoPayment
          /\ \A i \in Invoice : byPaymentHash'[i] \in {byPaymentHash[i], NoPayment}
      BY <1>1, <1>5, InvParts, DeleteKeeps
    <2>2. /\ task'[p] = next
          /\ \A q \in Slot \ {p} : task'[q] = task[q] /\ call'[q] = call[q]
      BY <1>5 DEF Await, PayInv, PaymentTypeOK, PoolTypeOK
    <2>3. task'[p].pc = "event" /\ task'[p].payment.hash = h
      BY <1>2, <1>3, <2>2
    <2>4. call[p].op # "done"
      BY <1>1 DEF PayInv, TasksOK, HandlerOK, AwaitsPool, NoCall
    <2>5. Spent(h)' /\ \A i \in Invoice : Spent(i) => Spent(i)'
      BY <1>1, <1>3, <2>1 DEF CreditBound, Spent
    <2>6. ASSUME NEW i \in Invoice
          PROVE  credits'[i] + Cardinality(Claims(i)') <= Cardinality(Slot)
      <3>1. ASSUME NEW q \in Claims(i)'
            PROVE  q \in Claims(i)
        <4>1. CASE q = p
          BY <1>1, <1>3, <2>3, <2>4, <3>1, <4>1 DEF Claims
        <4>2. CASE q # p
          BY <2>2, <3>1, <4>2 DEF Claims
        <4>3. QED
          BY <4>1, <4>2
      <3>2. QED
        BY <1>1, <3>1, NoNewClaim
    <2>7. \A i \in Invoice : credits'[i] > 0 => Spent(i)'
      BY <1>1, <2>5 DEF CreditBound
    <2>8. ASSUME NEW q \in Slot, NEW g \in Invoice, g = task'[q].payment.hash
          PROVE  /\ task'[q].pc = "lookup" => lnd'[g].state # "NONE"
                 /\ task'[q].pc = "event" => Spent(g)'
      <3>1. CASE q = p
        BY <2>3, <2>5, <2>8, <3>1
      <3>2. CASE q # p
        BY <1>1, <2>2, <2>5, <2>8, <3>2 DEF CreditBound
      <3>3. QED
        BY <3>1, <3>2
    <2>9. ASSUME NEW q \in Slot, task'[q].pc \in {"lookup", "event"}
           PROVE  task'[q].payment.hash \in Invoice
      BY <1>1, <2>2, <2>3, <2>9, ClaimedHash
    <2>10. QED
      BY <2>6, <2>7, <2>8, <2>9 DEF CreditBound, Spent
  <1>6. QED
    BY <1>4, <1>5, <1>3 DEF ConsumePayment

\* A credit turns a claim into a credit.
LEMMA BoundPoolCall ==
  ASSUME IsFiniteSet(Slot), PayInv, CreditBound, NEW p \in Slot, RunPoolCall(p)
  PROVE  CreditBound'
  <1>1. PoolStep(p) /\ UNCHANGED <<task, storeVars, lnd>>
    BY DEF RunPoolCall
  <1>2. call[p].op \in Pending /\ \A q \in Slot \ {p} : call'[q] = call[q]
    BY <1>1 DEF PoolStep, ReadVolume, CreditTip, CreditBountyDirect, CheckDebit,
           DebitPayout, Pending, PayInv, PaymentTypeOK, PoolTypeOK
  <1>3. task[p].pc = "event"
    BY <1>2 DEF Pending, PayInv, PaymentTypeOK
  <1>4. PICK h \in Invoice : h = task[p].payment.hash
    BY <1>3, ClaimedHash
  <1>5. p \in Claims(h) /\ Spent(h)
    BY <1>2, <1>4, <1>3 DEF Claims, Pending, CreditBound
  <1>6. \A i : Spent(i)' <=> Spent(i)
    BY <1>1 DEF Spent, storeVars
  <1>7. \A i \in Invoice : Claims(i)' \subseteq Claims(i)
    BY <1>1, <1>2, <1>5 DEF Claims, Pending
  <1>8. ASSUME NEW i \in Invoice
        PROVE  /\ credits'[i] + Cardinality(Claims(i)') <= Cardinality(Slot)
               /\ credits'[i] > 0 => Spent(i)'
    <2>1. CASE call[p].op = "credit" /\ i = h
      <3>1. credits'[h] = credits[h] + 1
        BY <1>4, <2>1 DEF RunPoolCall, PayInv, PaymentTypeOK
      <3>2. call'[p].op = "done"
        <4>1. call' = [call EXCEPT ![p].op = "done"]
          BY <1>1, <2>1 DEF PoolStep, ReadVolume, CreditTip, CreditBountyDirect,
                 CheckDebit, DebitPayout
        <4>2. call[p] \in CallRecord /\ call \in [Slot -> CallRecord]
          BY DEF PayInv, PaymentTypeOK, PoolTypeOK
        <4>3. QED
          BY <4>1, <4>2 DEF CallRecord
      <3>3. Claims(h)' = Claims(h) \ {p}
        BY <1>1, <1>2, <3>2 DEF Claims
      <3>4. Claims(h) \subseteq Slot
        BY DEF Claims
      <3>5. IsFiniteSet(Claims(h)) /\ Cardinality(Claims(h)) \in Nat
        BY <3>4, FS_Subset, FS_CardinalityType
      <3>6. Cardinality(Claims(h)') = Cardinality(Claims(h)) - 1
        BY <1>5, <3>3, <3>5, FS_RemoveElement
      <3>7. credits[h] \in Nat /\ Cardinality(Slot) \in Nat
        BY <1>4, FS_CardinalityType DEF PayInv, PaymentTypeOK
      <3>8. credits[h] + Cardinality(Claims(h)) <= Cardinality(Slot)
        BY <1>4 DEF CreditBound
      <3>9. credits'[h] + Cardinality(Claims(h)') <= Cardinality(Slot)
        BY <3>1, <3>5, <3>6, <3>7, <3>8
      <3>10. QED
        BY <1>5, <1>6, <2>1, <3>9
    <2>2. CASE ~ (call[p].op = "credit" /\ i = h)
      <3>1. credits'[i] = credits[i]
        BY <1>4, <2>2 DEF RunPoolCall, PayInv, PaymentTypeOK
      <3>2. QED
        BY <1>6, <1>7, <3>1, NoNewClaim DEF CreditBound
    <2>3. QED
      BY <2>1, <2>2
  <1>9. ASSUME NEW q \in Slot, task[q].pc \in {"lookup", "event"}
        PROVE  task[q].payment.hash \in Invoice
    BY <1>9, ClaimedHash
  <1>10. QED
    BY <1>1, <1>6, <1>8, <1>9 DEF CreditBound, Spent, storeVars

LEMMA BoundStep ==
  ASSUME IsFiniteSet(Slot)
  PROVE  PayInv /\ CreditBound /\ [Next]_vars => CreditBound'
  <1> SUFFICES ASSUME PayInv, CreditBound, [Next]_vars
               PROVE  CreditBound'
    OBVIOUS
  <1>1. ASSUME NEW p \in Slot, NEW e \in Event, NEW sats \in RequestSats,
               RequestInvoice(p, e, sats)
        PROVE  CreditBound'
    <2> DEFINE t == [pc |-> "invoice", event |-> e, sats |-> sats]
    <2>1. LookUp(e) /\ Await(p, t, NoCall) /\ UNCHANGED <<credits, lnd>>
      BY <1>1 DEF RequestInvoice, historyVars
    <2>2. \A h \in Invoice : byPaymentHash'[h] \in {byPaymentHash[h], NoPayment}
      BY <2>1, InvParts, LookUpKeeps
    <2>3. t.pc \notin {"lookup", "event"}
      OBVIOUS
    <2> HIDE DEF t
    <2>4. QED
      BY <2>1, <2>2, <2>3, BoundAwait
  <1>2. ASSUME NEW p \in Slot, StorePayment(p)
        PROVE  CreditBound'
    BY <1>2, BoundStore
  <1>3. ASSUME NEW p \in Slot, NEW e \in Event, SubmitEvent(p, e)
        PROVE  CreditBound'
    BY <1>3, BoundSubmit
  <1>4. ASSUME NEW p \in Slot, ConsumePayment(p)
        PROVE  CreditBound'
    BY <1>4, BoundConsume
  <1>5. ASSUME NEW p \in Slot, RunPoolCall(p)
        PROVE  CreditBound'
    BY <1>5, BoundPoolCall
  <1>6. ASSUME NEW p \in Slot, AppendEvent(p)
        PROVE  CreditBound'
    <2> DEFINE t == [task[p] EXCEPT !.pc = "index"]
    <2>1. /\ task[p].pc = "event" /\ Await(p, t, NoCall)
          /\ UNCHANGED <<credits, lnd, byPaymentHash>>
      BY <1>6 DEF AppendEvent, historyVars, storeVars
    <2>2. t.pc \notin {"lookup", "event"}
      <3>1. task[p] \in [pc : {"lookup", "event", "index"}, event : Event,
                         payment : PaymentRecord]
        BY <2>1, InvParts, HandlerCases
      <3>2. QED
        BY <3>1
    <2> HIDE DEF t
    <2>3. QED
      BY <2>1, <2>2, BoundAwait
  <1>7. ASSUME NEW p \in Slot, StoreProtocolEvent(p) \/ LndFails(p) \/ Abort(p)
        PROVE  CreditBound'
    <2>1. Await(p, Idle, NoCall) /\ UNCHANGED <<credits, lnd, byPaymentHash>>
      BY <1>7 DEF StoreProtocolEvent, LndFails, Abort, Reply, historyVars, storeVars
    <2>2. Idle.pc \notin {"lookup", "event"}
      BY DEF Idle
    <2>3. QED
      BY <2>1, <2>2, BoundAwait
  <1>8. ASSUME NEW h \in Invoice, PollPayment(h)
        PROVE  CreditBound'
    <2>1. DeletePayment(h) /\ UNCHANGED <<task, call, lnd, credits>>
      BY <1>8 DEF PollPayment, poolVars, historyVars
    <2>2. QED
      BY <2>1, InvParts, DeleteKeeps, BoundAway
  <1>9. ASSUME Cleanup
        PROVE  CreditBound'
    <2>1. UNCHANGED <<task, call, lnd, credits>>
      BY <1>9 DEF Cleanup, poolVars, historyVars
    <2>2. QED
      BY <1>9, <2>1, InvParts, CleanupKeeps, BoundAway
  <1>10. ASSUME NEW h \in Invoice, PayInvoice(h)
         PROVE  CreditBound'
    <2>1. /\ lnd[h].state = "OPEN" /\ lnd' = [lnd EXCEPT ![h].state = "SETTLED"]
          /\ UNCHANGED <<task, call, byPaymentHash, credits>>
      BY <1>10 DEF PayInvoice, poolVars, storeVars, historyVars
    <2>2. lnd[h] \in [state : {"OPEN", "SETTLED"}, event : Event, sats : RequestSats,
                      expiresAt : 0..(MaxClock + Ttl)]
      BY <2>1 DEF PayInv, PaymentTypeOK, InvoiceRecord
    <2>3. \A g \in Invoice : lnd[g].state # "NONE" => lnd'[g].state # "NONE"
      BY <2>1, <2>2 DEF PayInv, PaymentTypeOK
    <2>4. QED
      BY <2>1, <2>3, BoundAway
  <1>11. ASSUME Restart
         PROVE  CreditBound'
    <2>1. /\ byPaymentHash' = [h \in Invoice |-> NoPayment]
          /\ UNCHANGED <<task, call, lnd, credits>>
      BY <1>11 DEF Restart, poolVars
    <2>2. QED
      BY <2>1, BoundAway
  <1>12. ASSUME Tick \/ Quiet \/ UNCHANGED vars
         PROVE  CreditBound'
    <2>1. UNCHANGED <<task, call, lnd, byPaymentHash, credits>>
      BY <1>12 DEF Tick, Quiet, vars, poolVars, storeVars, historyVars
    <2>2. QED
      BY <2>1, BoundAway
  <1>13. QED
    BY <1>1, <1>2, <1>3, <1>4, <1>5, <1>6, <1>7, <1>8, <1>9, <1>10, <1>11, <1>12
       DEF Next, HandlerStep

\* An invoice is credited at most once per request in flight, whatever expires,
\* is interrupted or restarted.
THEOREM CreditsStayBounded ==
  ASSUME IsFiniteSet(Slot)
  PROVE  Spec => []CreditsBounded
  <1>1. PayInv /\ CreditBound /\ [Next]_vars => CreditBound'
    BY BoundStep
  <1>2. PayInv /\ CreditBound => CreditsBounded
    <2> SUFFICES ASSUME PayInv, CreditBound, NEW h \in Invoice
                 PROVE  credits[h] <= Cardinality(Slot)
      BY DEF CreditsBounded
    <2>1. Claims(h) \subseteq Slot
      BY DEF Claims
    <2>2. Cardinality(Claims(h)) \in Nat /\ Cardinality(Slot) \in Nat
      BY <2>1, ClaimCount
    <2>3. credits[h] \in Nat /\ credits[h] + Cardinality(Claims(h)) <= Cardinality(Slot)
      BY DEF CreditBound, PayInv, PaymentTypeOK
    <2>4. QED
      BY <2>2, <2>3
  <1>3. Init => CreditBound
    BY BoundInit
  <1>4. QED
    BY <1>1, <1>2, <1>3, PayInvariant, PTL DEF Spec

\* Served one at a time, an invoice is credited once.  With two slots it is
\* not: run paid_once.
THEOREM SequentialSingleUse ==
  ASSUME \A p, q \in Slot : p = q
  PROVE  Spec => []SingleUse
  <1>1. IsFiniteSet(Slot) /\ Cardinality(Slot) \in {0, 1}
    <2>1. CASE Slot = {}
      BY <2>1, FS_EmptySet
    <2>2. CASE Slot # {}
      <3>1. PICK p : p \in Slot
        BY <2>2
      <3>2. Slot = {p}
        BY <3>1
      <3>3. QED
        BY <3>2, FS_Singleton
    <2>3. QED
      BY <2>1, <2>2
  <1>2. Spec => []CreditsBounded
    BY <1>1, CreditsStayBounded
  <1>3. PaymentTypeOK /\ CreditsBounded => SingleUse
    BY <1>1 DEF PaymentTypeOK, CreditsBounded, SingleUse
  <1>4. QED
    BY <1>2, <1>3, PaymentTypeCorrect, PTL

\* What POST /event credited is what the pools hold.
THEOREM PaymentsLedger == Spec => []PoolLedger
  BY PaymentsUsePools, LedgerCorrect, PTL

-------------------------------------------------------------------------------
(* What was paid.  A handler past the lookup and a record in the maps say  *)
(* of an invoice what LND says of it; past the lookup it is settled, and   *)
(* what the handler tips is what was paid.                                 *)

Matches(r, i) ==
  /\ i.state # "NONE"
  /\ r.event = i.event /\ r.sats = i.sats /\ r.expiresAt = i.expiresAt

\* A handler whose credit is made, but not yet in the event log.
Unlogged(t, c) == t.pc = "event" /\ c.op = "done"

\* Handler state t, with call c, fits the invoices L and their credits n.
PaidSlot(t, c, L, n) ==
  LET h == t.payment.hash
  IN  /\ t.pc \in {"lookup", "event", "index"} => Matches(t.payment, L[h])
      /\ t.pc \in {"event", "index"} => L[h].state = "SETTLED"
      /\ t.pc = "event" => c.op \in {"volume", "credit", "done"} /\ c.amount = t.payment.sats
      /\ t.pc = "index" \/ Unlogged(t, c) => n[h] > 0

PaidInv ==
  /\ \A h \in Invoice :
       /\ byPaymentHash[h] # NoPayment => Matches(byPaymentHash[h], lnd[h])
       /\ credits[h] > 0 => lnd[h].state = "SETTLED"
  /\ \A p \in Slot : PaidSlot(task[p], call[p], lnd, credits)


\* Invoice i as it was, j as it is: what it was made for stays, and so does
\* what was paid.
Grown(i, j) ==
  /\ i.state # "NONE" => /\ j.state # "NONE" /\ j.event = i.event
                         /\ j.sats = i.sats /\ j.expiresAt = i.expiresAt
  /\ i.state = "SETTLED" => j.state = "SETTLED"

LEMMA MatchesGrown ==
  ASSUME NEW r, NEW i, NEW j, Matches(r, i), Grown(i, j)
  PROVE  Matches(r, j)
  BY DEF Matches, Grown

LEMMA HeldHash ==
  ASSUME PayInv, NEW p \in Slot, task[p].pc \in {"lookup", "event", "index"}
  PROVE  /\ task[p].payment \in PaymentRecord /\ task[p].payment.hash \in Invoice
         /\ task[p].event \in Event
         /\ task[p].payment.event = task[p].event
         /\ task[p].payment.sats = EventSats[task[p].event]
  <1>1. task[p] \in [pc : {"lookup", "event", "index"}, event : Event,
                     payment : PaymentRecord]
    BY InvParts, HandlerCases
  <1>2. /\ task[p].payment.event = task[p].event
        /\ task[p].payment.sats = EventSats[task[p].event]
    BY DEF PayInv, PaymentTypeOK
  <1>3. QED
    BY <1>1, <1>2 DEF PaymentRecord

\* What a step of one slot leaves alone.
LEMMA OneSlot ==
  ASSUME PayInv, NEW p \in Slot, NEW t, NEW c, Await(p, t, c)
  PROVE  /\ task'[p] = t /\ call'[p] = c
         /\ \A q \in Slot \ {p} : task'[q] = task[q] /\ call'[q] = call[q]
  BY DEF Await, PayInv, PaymentTypeOK, PoolTypeOK

LEMMA PaidSlotGrown ==
  ASSUME NEW t, NEW c, NEW L, NEW M, NEW n, NEW m, PaidSlot(t, c, L, n),
         t.pc \in {"lookup", "event", "index"}
           => /\ Grown(L[t.payment.hash], M[t.payment.hash])
              /\ n[t.payment.hash] > 0 => m[t.payment.hash] > 0
  PROVE  PaidSlot(t, c, M, m)
  <1> DEFINE h == t.payment.hash
             held == t.pc \in {"lookup", "event", "index"}
  <1>1. held => Matches(t.payment, M[h])
    BY MatchesGrown DEF PaidSlot
  <1>2. t.pc \in {"event", "index"} => M[h].state = "SETTLED"
    BY DEF PaidSlot, Grown
  <1>3. QED
    BY <1>1, <1>2 DEF PaidSlot, Unlogged

\* A step that leaves most handlers alone, and the others as they should be.
LEMMA PaidKeeps ==
  ASSUME PayInv, PaidInv,
         \A h \in Invoice :
           /\ Grown(lnd[h], lnd'[h])
           /\ \/ byPaymentHash'[h] \in {byPaymentHash[h], NoPayment}
              \/ Matches(byPaymentHash'[h], lnd'[h])
           /\ credits[h] > 0 => credits'[h] > 0
           /\ credits'[h] > 0 => credits[h] > 0 \/ lnd'[h].state = "SETTLED",
         \A q \in Slot :
           \/ task'[q] = task[q] /\ call'[q] = call[q]
           \/ PaidSlot(task'[q], call'[q], lnd', credits')
  PROVE  PaidInv'
  <1>1. ASSUME NEW h \in Invoice
        PROVE  /\ byPaymentHash'[h] # NoPayment => Matches(byPaymentHash'[h], lnd'[h])
               /\ credits'[h] > 0 => lnd'[h].state = "SETTLED"
    <2>1. byPaymentHash[h] # NoPayment => Matches(byPaymentHash[h], lnd'[h])
      BY MatchesGrown DEF PaidInv
    <2>2. QED
      BY <2>1 DEF PaidInv, Grown
  <1>2. ASSUME NEW q \in Slot
        PROVE  PaidSlot(task'[q], call'[q], lnd', credits')
    <2>1. CASE task'[q] = task[q] /\ call'[q] = call[q]
      <3>1. task[q].pc \in {"lookup", "event", "index"} => task[q].payment.hash \in Invoice
        BY HeldHash
      <3>2. PaidSlot(task[q], call[q], lnd, credits)
        BY DEF PaidInv
      <3>3. QED
        BY <2>1, <3>1, <3>2, PaidSlotGrown
    <2>2. QED
      BY <2>1
  <1>3. QED
    BY <1>1, <1>2 DEF PaidInv

\* A handler goes on, or replies, with the invoices and credits as they were.
LEMMA PaidAwait ==
  ASSUME PayInv, PaidInv, NEW p \in Slot, NEW t, NEW c, Await(p, t, c),
         PaidSlot(t, c, lnd, credits), UNCHANGED <<lnd, credits>>,
         \A h \in Invoice : byPaymentHash'[h] \in {byPaymentHash[h], NoPayment}
  PROVE  PaidInv'
  <1>1. /\ task'[p] = t /\ call'[p] = c
        /\ \A q \in Slot \ {p} : task'[q] = task[q] /\ call'[q] = call[q]
    BY OneSlot
  <1>2. \A h \in Invoice : Grown(lnd[h], lnd'[h])
    BY DEF Grown
  <1>3. PaidSlot(t, c, lnd', credits')
    OBVIOUS
  <1>4. QED
    BY <1>1, <1>2, <1>3, PaidKeeps

\* A step outside the handlers.
LEMMA PaidAway ==
  ASSUME PayInv, PaidInv, UNCHANGED <<task, call, lnd, credits>>,
         \A h \in Invoice : byPaymentHash'[h] \in {byPaymentHash[h], NoPayment}
  PROVE  PaidInv'
  <1>1. \A h \in Invoice : Grown(lnd[h], lnd'[h])
    BY DEF Grown
  <1>2. QED
    BY <1>1, PaidKeeps

\* Handlers that hold no request have nothing to fit.
LEMMA PaidElsewhere ==
  ASSUME NEW t, NEW c, NEW L, NEW n, t.pc \notin {"lookup", "event", "index"}
  PROVE  PaidSlot(t, c, L, n)
  BY DEF PaidSlot, Unlogged

\* The invoice LND makes, and the record of it in the maps.
LEMMA StoreEffect ==
  ASSUME PayInv, NEW p \in Slot, StorePayment(p)
  PROVE  \E h \in Invoice, r \in PaymentRecord :
           /\ task[p].pc = "invoice" /\ task[p].event \in Event
           /\ r.hash = h /\ r.event = task[p].event
           /\ lnd[h].state = "NONE" /\ lnd'[h].state = "OPEN" /\ Matches(r, lnd'[h])
           /\ \A g \in Invoice \ {h} : /\ lnd'[g] = lnd[g]
                                       /\ byPaymentHash'[g] = byPaymentHash[g]
           /\ byPaymentHash'[h] = r
           /\ byEventHash' = [byEventHash EXCEPT ![task[p].event] = r]
           /\ Await(p, Idle, NoCall)
           /\ UNCHANGED <<volume, clock, logged, indexed, credits, aborts, restarts>>
  <1> DEFINE t == task[p]
             expiry == clock + Ttl
  <1>1. PICK h \in Invoice :
          LET r == [hash |-> h, event |-> t.event, sats |-> t.sats, expiresAt |-> expiry]
          IN  /\ t.pc = "invoice"
              /\ lnd[h].state = "NONE"
              /\ lnd' = [lnd EXCEPT ![h] = [state |-> "OPEN", event |-> t.event,
                                            sats |-> t.sats, expiresAt |-> expiry]]
              /\ byEventHash' = [byEventHash EXCEPT ![t.event] = r]
              /\ byPaymentHash' = [byPaymentHash EXCEPT ![h] = r]
              /\ Reply(p) /\ PoolUnchanged
              /\ UNCHANGED <<clock, eventVars, historyVars>>
    BY DEF StorePayment, CreateInvoice
  <1> DEFINE r == [hash |-> h, event |-> t.event, sats |-> t.sats, expiresAt |-> expiry]
             i == [state |-> "OPEN", event |-> t.event, sats |-> t.sats,
                   expiresAt |-> expiry]
  <1>2. t \in [pc : {"invoice"}, event : Event, sats : RequestSats]
    BY <1>1, InvParts, HandlerCases
  <1>3. expiry \in 0..(MaxClock + Ttl)
    BY PaymentAssumption DEF PayInv, PaymentTypeOK
  <1> HIDE DEF expiry
  <1>4. r \in PaymentRecord /\ r.hash = h /\ r.event = t.event
    BY <1>2, <1>3 DEF PaymentRecord
  <1>5. Matches(r, i) /\ i.state = "OPEN"
    BY DEF Matches
  <1>6. /\ lnd' = [lnd EXCEPT ![h] = i]
        /\ byPaymentHash' = [byPaymentHash EXCEPT ![h] = r]
    BY <1>1
  <1> HIDE DEF i
  <1>7. lnd'[h] = i /\ byPaymentHash'[h] = r
    BY <1>6 DEF PayInv, PaymentTypeOK
  <1>8. \A g \in Invoice \ {h} : lnd'[g] = lnd[g] /\ byPaymentHash'[g] = byPaymentHash[g]
    BY <1>6 DEF PayInv, PaymentTypeOK
  <1>9. byEventHash' = [byEventHash EXCEPT ![t.event] = r]
    BY <1>1
  <1> HIDE DEF r
  <1>10. /\ t.pc = "invoice" /\ lnd[h].state = "NONE" /\ Await(p, Idle, NoCall)
         /\ UNCHANGED <<volume, clock, logged, indexed, credits, aborts, restarts>>
    BY <1>1 DEF Reply, PoolUnchanged, eventVars, historyVars
  <1>11. t.event \in Event
    BY <1>2
  <1>12. QED
    BY <1>4, <1>5, <1>7, <1>8, <1>9, <1>10, <1>11

\* An invoice is paid.
LEMMA PayEffect ==
  ASSUME PayInv, NEW h \in Invoice, PayInvoice(h)
  PROVE  /\ \A g \in Invoice : Grown(lnd[g], lnd'[g])
         /\ \A g \in Invoice \ {h} : lnd'[g] = lnd[g]
         /\ lnd[h].state # "NONE"
         /\ UNCHANGED <<volume, task, call, byEventHash, byPaymentHash, clock, logged,
                        indexed, credits, aborts, restarts>>
  <1>1. lnd[h].state = "OPEN" /\ lnd' = [lnd EXCEPT ![h] = [lnd[h] EXCEPT !.state = "SETTLED"]]
    BY DEF PayInvoice
  <1>2. lnd[h] \in [state : {"OPEN", "SETTLED"}, event : Event, sats : RequestSats,
                    expiresAt : 0..(MaxClock + Ttl)]
    BY <1>1 DEF PayInv, PaymentTypeOK, InvoiceRecord
  <1> DEFINE i == [lnd[h] EXCEPT !.state = "SETTLED"]
  <1>3. Grown(lnd[h], i)
    BY <1>2 DEF Grown
  <1> HIDE DEF i
  <1>4. lnd'[h] = i /\ \A g \in Invoice \ {h} : lnd'[g] = lnd[g]
    BY <1>1 DEF i, PayInv, PaymentTypeOK
  <1>5. \A g \in Invoice : Grown(lnd[g], lnd'[g])
    BY <1>3, <1>4 DEF Grown
  <1>6. QED
    BY <1>1, <1>4, <1>5 DEF PayInvoice, poolVars, storeVars, eventVars, historyVars

\* The two round trips of a tip, and the credit that the second makes.
LEMMA CallEffect ==
  ASSUME PayInv, PaidInv, NEW p \in Slot, RunPoolCall(p)
  PROVE  \E h \in Invoice, c \in CallRecord :
           /\ task[p].pc = "event" /\ task[p].payment.hash = h
           /\ Matches(task[p].payment, lnd[h]) /\ lnd[h].state = "SETTLED"
           /\ call'[p] = c /\ c.amount = call[p].amount
           /\ call[p].amount = lnd[h].sats
           /\ \A q \in Slot \ {p} : call'[q] = call[q]
           /\ UNCHANGED <<task, byEventHash, byPaymentHash, lnd, clock, logged, indexed,
                          aborts, restarts>>
           /\ \/ /\ call[p].op = "volume" /\ c.op = "credit"
                 /\ UNCHANGED <<volume, credits>>
              \/ /\ call[p].op = "credit" /\ c.op = "done"
                 /\ volume' = volume + lnd[h].sats
                 /\ credits' = [credits EXCEPT ![h] = @ + 1]
  <1>1. /\ PoolStep(p)
        /\ UNCHANGED <<task, byEventHash, byPaymentHash, lnd, clock, logged, indexed,
                       aborts, restarts>>
    BY DEF RunPoolCall, storeVars, eventVars
  <1>2. call[p] \in CallRecord
    BY DEF PayInv, PaymentTypeOK, PoolTypeOK
  <1>3. call[p].op \in Pending
    BY <1>1 DEF PoolStep, ReadVolume, CreditTip, CreditBountyDirect, CheckDebit,
           DebitPayout, Pending
  <1>4. task[p].pc = "event"
    BY <1>3 DEF Pending, PayInv, PaymentTypeOK
  <1>5. /\ PaidSlot(task[p], call[p], lnd, credits)
        /\ task[p].payment.hash \in Invoice
    BY <1>4, HeldHash DEF PaidInv
  <1>6. PICK h \in Invoice : h = task[p].payment.hash
    BY <1>5
  <1>7. /\ Matches(task[p].payment, lnd[h]) /\ lnd[h].state = "SETTLED"
        /\ call[p].op \in {"volume", "credit"} /\ call[p].amount = lnd[h].sats
    BY <1>3, <1>4, <1>5, <1>6 DEF PaidSlot, Matches, Pending
  <1>8. CASE call[p].op = "volume"
    <2> DEFINE c == [call[p] EXCEPT !.op = "credit", !.seen = volume]
    <2>1. call' = [call EXCEPT ![p] = c] /\ UNCHANGED volume
      BY <1>1, <1>8 DEF PoolStep, ReadVolume, CreditTip, CreditBountyDirect, CheckDebit,
             DebitPayout
    <2>2. c \in CallRecord /\ c.op = "credit" /\ c.amount = call[p].amount
      BY <1>2 DEF CallRecord, Pending, PayInv, PaymentTypeOK, PoolTypeOK
    <2> HIDE DEF c
    <2>3. call'[p] = c /\ \A q \in Slot \ {p} : call'[q] = call[q]
      BY <2>1 DEF PayInv, PaymentTypeOK, PoolTypeOK
    <2>4. UNCHANGED credits
      BY <1>8 DEF RunPoolCall
    <2>5. QED
      BY <1>1, <1>4, <1>6, <1>7, <1>8, <2>1, <2>2, <2>3, <2>4
  <1>9. CASE call[p].op = "credit"
    <2> DEFINE c == [call[p] EXCEPT !.op = "done"]
    <2>1. call' = [call EXCEPT ![p] = c] /\ volume' = volume + call[p].amount
      BY <1>1, <1>9 DEF PoolStep, ReadVolume, CreditTip, CreditBountyDirect, CheckDebit,
             DebitPayout
    <2>2. c \in CallRecord /\ c.op = "done" /\ c.amount = call[p].amount
      BY <1>2 DEF CallRecord, Returned
    <2> HIDE DEF c
    <2>3. call'[p] = c /\ \A q \in Slot \ {p} : call'[q] = call[q]
      BY <2>1 DEF PayInv, PaymentTypeOK, PoolTypeOK
    <2>4. credits' = [credits EXCEPT ![h] = @ + 1]
      BY <1>9, <1>6 DEF RunPoolCall
    <2>5. QED
      BY <1>1, <1>4, <1>6, <1>7, <1>9, <2>1, <2>2, <2>3, <2>4
  <1>10. QED
    BY <1>7, <1>8, <1>9

LEMMA PaidInit == Init => PaidInv
  <1> SUFFICES ASSUME Init
               PROVE  PaidInv
    OBVIOUS
  <1>1. \A p \in Slot : PaidSlot(task[p], call[p], lnd, credits)
    BY PaidElsewhere DEF Init, Idle
  <1>2. QED
    BY <1>1 DEF Init, PaidInv

LEMMA PaidStore ==
  ASSUME PayInv, PaidInv, NEW p \in Slot, StorePayment(p)
  PROVE  PaidInv'
  <1>1. PICK h \in Invoice, r \in PaymentRecord :
          /\ lnd[h].state = "NONE" /\ Matches(r, lnd'[h])
          /\ \A g \in Invoice \ {h} : /\ lnd'[g] = lnd[g]
                                      /\ byPaymentHash'[g] = byPaymentHash[g]
          /\ byPaymentHash'[h] = r
          /\ Await(p, Idle, NoCall) /\ UNCHANGED credits
    BY StoreEffect
  <1>2. \A g \in Invoice :
          /\ Grown(lnd[g], lnd'[g])
          /\ byPaymentHash'[g] = byPaymentHash[g] \/ Matches(byPaymentHash'[g], lnd'[g])
    BY <1>1 DEF Grown
  <1>3. /\ task'[p] = Idle /\ call'[p] = NoCall
        /\ \A q \in Slot \ {p} : task'[q] = task[q] /\ call'[q] = call[q]
    BY <1>1, OneSlot
  <1>4. PaidSlot(Idle, NoCall, lnd', credits')
    BY PaidElsewhere DEF Idle
  <1>5. QED
    BY <1>1, <1>2, <1>3, <1>4, PaidKeeps

\* A request that is found is the record of its invoice.
LEMMA FoundMatches ==
  ASSUME PayInv, PaidInv, NEW e \in Event, byEventHash[e] # NoPayment
  PROVE  /\ byEventHash[e] \in PaymentRecord /\ byEventHash[e].hash \in Invoice
         /\ byEventHash[e].event = e
         /\ byPaymentHash[byEventHash[e].hash] = byEventHash[e]
         /\ Matches(byEventHash[e], lnd[byEventHash[e].hash])
  BY InvParts DEF MapTypes, PaymentRecord, StoreInv, StoresAgree, PaidInv

LEMMA PaidSubmit ==
  ASSUME PayInv, PaidInv, NEW p \in Slot, NEW e \in Event, SubmitEvent(p, e)
  PROVE  PaidInv'
  <1> DEFINE r == byEventHash[e]
             t == [pc |-> "lookup", event |-> e, payment |-> r]
  <1>1. r # NoPayment /\ LookUp(e) /\ UNCHANGED <<lnd, credits>>
    BY DEF SubmitEvent, historyVars
  <1>2. \A i \in Invoice : byPaymentHash'[i] \in {byPaymentHash[i], NoPayment}
    BY <1>1, InvParts, LookUpKeeps
  <1>3. CASE UNCHANGED <<task, call>>
    BY <1>1, <1>2, <1>3, PaidAway
  <1>4. CASE Await(p, t, NoCall)
    <2>1. PaidSlot(t, NoCall, lnd, credits)
      BY <1>1, FoundMatches DEF PaidSlot, Unlogged
    <2> HIDE DEF t
    <2>2. QED
      BY <1>1, <1>2, <1>4, <2>1, PaidAwait
  <1>5. QED
    BY <1>3, <1>4 DEF SubmitEvent

LEMMA PaidConsume ==
  ASSUME PayInv, PaidInv, NEW p \in Slot, ConsumePayment(p)
  PROVE  PaidInv'
  <1> DEFINE t == task[p]
             next == [t EXCEPT !.pc = "event"]
             c == TipCall(EventRef[t.event], EventSats[t.event])
  <1>1. t.pc = "lookup" /\ UNCHANGED <<lnd, credits>>
    BY DEF ConsumePayment, historyVars
  <1>2. t \in [pc : {"lookup", "event", "index"}, event : Event, payment : PaymentRecord]
    BY <1>1, InvParts, HandlerCases
  <1>3. t.payment.hash \in Invoice /\ t.payment.sats = EventSats[t.event]
    BY <1>1, HeldHash
  <1>4. CASE Reply(p) /\ UNCHANGED storeVars
    BY <1>1, <1>4, PaidAwait, PaidElsewhere DEF Reply, Idle, storeVars
  <1>5. CASE PaidFor(t) /\ DeletePayment(t.payment.hash) /\ Await(p, next, c)
    <2>1. \A i \in Invoice : byPaymentHash'[i] \in {byPaymentHash[i], NoPayment}
      BY <1>1, <1>3, <1>5, InvParts, DeleteKeeps
    <2>2. PaidSlot(t, call[p], lnd, credits)
      BY DEF PaidInv
    <2>3. Matches(t.payment, lnd[t.payment.hash]) /\ lnd[t.payment.hash].state = "SETTLED"
      BY <1>1, <1>5, <2>2 DEF PaidSlot, PaidFor, LookupInvoice
    <2>4. c.op = "volume" /\ c.amount = EventSats[t.event]
      BY DEF TipCall, NewCall
    <2>5. next.pc = "event" /\ next.payment = t.payment
      BY <1>2
    <2> HIDE DEF next, c, t
    <2>6. PaidSlot(next, c, lnd, credits)
      BY <1>3, <2>3, <2>4, <2>5 DEF PaidSlot, Unlogged
    <2>7. QED
      BY <1>1, <1>5, <2>1, <2>6, PaidAwait
  <1>6. QED
    BY <1>4, <1>5 DEF ConsumePayment

LEMMA PaidCall ==
  ASSUME PayInv, PaidInv, NEW p \in Slot, RunPoolCall(p)
  PROVE  PaidInv'
  <1>1. PICK h \in Invoice, c \in CallRecord :
           /\ task[p].pc = "event" /\ task[p].payment.hash = h
           /\ Matches(task[p].payment, lnd[h]) /\ lnd[h].state = "SETTLED"
           /\ call'[p] = c /\ c.amount = call[p].amount
           /\ call[p].amount = lnd[h].sats
           /\ \A q \in Slot \ {p} : call'[q] = call[q]
           /\ UNCHANGED <<task, byPaymentHash, lnd>>
           /\ \/ c.op = "credit" /\ UNCHANGED credits
              \/ c.op = "done" /\ credits' = [credits EXCEPT ![h] = @ + 1]
    BY CallEffect
  <1>2. ASSUME NEW g \in Invoice
        PROVE  /\ credits[g] > 0 => credits'[g] > 0
               /\ credits'[g] > 0 => credits[g] > 0 \/ lnd'[g].state = "SETTLED"
               /\ g = h => (c.op = "done" => credits'[g] > 0)
    BY <1>1 DEF PayInv, PaymentTypeOK
  <1>3. PaidSlot(task[p], c, lnd, credits')
    BY <1>1, <1>2 DEF PaidSlot, Unlogged, Matches
  <1>4. \A g \in Invoice : Grown(lnd[g], lnd'[g])
    BY <1>1 DEF Grown
  <1>5. \A q \in Slot : \/ task'[q] = task[q] /\ call'[q] = call[q]
                        \/ PaidSlot(task'[q], call'[q], lnd', credits')
    BY <1>1, <1>3
  <1>6. \A g \in Invoice : byPaymentHash'[g] = byPaymentHash[g]
    BY <1>1
  <1>7. QED
    BY <1>2, <1>4, <1>5, <1>6, PaidKeeps

\* The event is appended, its credit made.
LEMMA AppendEffect ==
  ASSUME PayInv, PaidInv, NEW p \in Slot, AppendEvent(p)
  PROVE  \E next \in HandlerRecord :
           /\ task[p].pc = "event" /\ call[p].op = "done" /\ Unlogged(task[p], call[p])
           /\ task[p].payment.hash \in Invoice /\ credits[task[p].payment.hash] > 0
           /\ Await(p, next, NoCall)
           /\ next.pc = "index" /\ next.event = task[p].event
           /\ next.payment = task[p].payment
           /\ logged' = [logged EXCEPT ![task[p].event] = @ + 1]
           /\ UNCHANGED <<volume, byEventHash, byPaymentHash, lnd, clock, indexed, credits,
                          aborts, restarts>>
  <1> DEFINE t == task[p]
             next == [t EXCEPT !.pc = "index"]
  <1>1. /\ t.pc = "event" /\ call[p].op \in {"done", "refused"} /\ Await(p, next, NoCall)
        /\ logged' = [logged EXCEPT ![t.event] = @ + 1]
        /\ UNCHANGED <<volume, byEventHash, byPaymentHash, lnd, clock, indexed, credits,
                       aborts, restarts>>
    BY DEF AppendEvent, CallDone, Returned, PoolUnchanged, storeVars, historyVars
  <1>2. t \in [pc : {"lookup", "event", "index"}, event : Event, payment : PaymentRecord]
    BY <1>1, InvParts, HandlerCases
  <1>3. /\ next \in HandlerRecord /\ next.pc = "index"
        /\ next.event = t.event /\ next.payment = t.payment
    BY <1>2 DEF HandlerRecord
  <1>4. PaidSlot(t, call[p], lnd, credits) /\ t.payment.hash \in Invoice
    BY <1>1, HeldHash DEF PaidInv
  <1>5. call[p].op = "done" /\ Unlogged(t, call[p]) /\ credits[t.payment.hash] > 0
    BY <1>1, <1>4 DEF PaidSlot, Unlogged
  <1> HIDE DEF next
  <1>6. QED
    BY <1>1, <1>3, <1>4, <1>5

LEMMA PaidAppend ==
  ASSUME PayInv, PaidInv, NEW p \in Slot, AppendEvent(p)
  PROVE  PaidInv'
  <1>1. PICK next \in HandlerRecord :
          /\ task[p].pc = "event" /\ Unlogged(task[p], call[p])
          /\ Await(p, next, NoCall) /\ next.pc = "index" /\ next.payment = task[p].payment
          /\ UNCHANGED <<lnd, credits, byPaymentHash>>
    BY AppendEffect
  <1>2. PaidSlot(task[p], call[p], lnd, credits)
    BY DEF PaidInv
  <1>3. PaidSlot(next, NoCall, lnd, credits)
    BY <1>1, <1>2 DEF PaidSlot, Unlogged
  <1>4. QED
    BY <1>1, <1>3, PaidAwait

LEMMA PaidStep == PayInv /\ PaidInv /\ [Next]_vars => PaidInv'
  <1> SUFFICES ASSUME PayInv, PaidInv, [Next]_vars
               PROVE  PaidInv'
    OBVIOUS
  <1>1. ASSUME NEW p \in Slot, NEW e \in Event, NEW sats \in RequestSats,
               RequestInvoice(p, e, sats)
        PROVE  PaidInv'
    <2> DEFINE t == [pc |-> "invoice", event |-> e, sats |-> sats]
    <2>1. LookUp(e) /\ Await(p, t, NoCall) /\ UNCHANGED <<credits, lnd>>
      BY <1>1 DEF RequestInvoice, historyVars
    <2>2. \A h \in Invoice : byPaymentHash'[h] \in {byPaymentHash[h], NoPayment}
      BY <2>1, InvParts, LookUpKeeps
    <2>3. PaidSlot(t, NoCall, lnd, credits)
      BY PaidElsewhere
    <2> HIDE DEF t
    <2>4. QED
      BY <2>1, <2>2, <2>3, PaidAwait
  <1>2. ASSUME NEW p \in Slot, \/ StorePayment(p) \/ ConsumePayment(p)
                               \/ RunPoolCall(p) \/ AppendEvent(p)
        PROVE  PaidInv'
    BY <1>2, PaidStore, PaidConsume, PaidCall, PaidAppend
  <1>3. ASSUME NEW p \in Slot, NEW e \in Event, SubmitEvent(p, e)
        PROVE  PaidInv'
    BY <1>3, PaidSubmit
  <1>4. ASSUME NEW p \in Slot, StoreProtocolEvent(p) \/ LndFails(p) \/ Abort(p)
        PROVE  PaidInv'
    <2>1. Await(p, Idle, NoCall) /\ UNCHANGED <<credits, lnd, byPaymentHash>>
      BY <1>4 DEF StoreProtocolEvent, LndFails, Abort, Reply, historyVars, storeVars
    <2>2. QED
      BY <2>1, PaidAwait, PaidElsewhere DEF Idle
  <1>5. ASSUME NEW h \in Invoice, PollPayment(h)
        PROVE  PaidInv'
    <2>1. DeletePayment(h) /\ UNCHANGED <<task, call, lnd, credits>>
      BY <1>5 DEF PollPayment, poolVars, historyVars
    <2>2. QED
      BY <2>1, InvParts, DeleteKeeps, PaidAway
  <1>6. ASSUME Cleanup
        PROVE  PaidInv'
    <2>1. UNCHANGED <<task, call, lnd, credits>>
      BY <1>6 DEF Cleanup, poolVars, historyVars
    <2>2. QED
      BY <1>6, <2>1, InvParts, CleanupKeeps, PaidAway
  <1>7. ASSUME NEW h \in Invoice, PayInvoice(h)
        PROVE  PaidInv'
    <2>1. /\ \A g \in Invoice : Grown(lnd[g], lnd'[g])
          /\ UNCHANGED <<task, call, byPaymentHash, credits>>
      BY <1>7, PayEffect
    <2>2. QED
      BY <2>1, PaidKeeps
  <1>8. ASSUME Restart
        PROVE  PaidInv'
    <2>1. /\ byPaymentHash' = [h \in Invoice |-> NoPayment]
          /\ UNCHANGED <<task, call, lnd, credits>>
      BY <1>8 DEF Restart, poolVars
    <2>2. QED
      BY <2>1, PaidAway
  <1>9. ASSUME Tick \/ Quiet \/ UNCHANGED vars
        PROVE  PaidInv'
    <2>1. UNCHANGED <<task, call, lnd, byPaymentHash, credits>>
      BY <1>9 DEF Tick, Quiet, vars, poolVars, storeVars, historyVars
    <2>2. QED
      BY <2>1, PaidAway
  <1>10. QED
    BY <1>1, <1>2, <1>3, <1>4, <1>5, <1>6, <1>7, <1>8, <1>9 DEF Next, HandlerStep

LEMMA PaidInvariant == Spec => [](PayInv /\ PaidInv)
  BY PayInvariant, PaidInit, PaidStep, PTL DEF Spec

-------------------------------------------------------------------------------
(* The volume is what was paid.                                            *)

\* The sats that n credits of invoice i put into the pools.
Tipped(n, i) == IF n > 0 THEN n * i.sats ELSE 0

VolumeInv == volume = Total([h \in Invoice |-> Tipped(credits[h], lnd[h])])

LEMMA InvoiceMade ==
  ASSUME PayInv, NEW h \in Invoice, lnd[h].state # "NONE"
  PROVE  lnd[h].event \in Event /\ lnd[h].sats \in Nat /\ lnd[h].expiresAt \in Nat
  <1>1. lnd[h] \in [state : {"OPEN", "SETTLED"}, event : Event, sats : RequestSats,
                    expiresAt : 0..(MaxClock + Ttl)]
    BY DEF PayInv, PaymentTypeOK, InvoiceRecord
  <1>2. lnd[h].sats \in Nat
    BY <1>1, PaymentAssumption
  <1>3. lnd[h].expiresAt \in 0..(MaxClock + Ttl) /\ lnd[h].event \in Event
    BY <1>1
  <1>4. QED
    BY <1>2, <1>3

LEMMA TippedType ==
  ASSUME PayInv, PaidInv, NEW h \in Invoice
  PROVE  Tipped(credits[h], lnd[h]) \in Int
  <1>1. credits[h] \in Nat
    BY DEF PayInv, PaymentTypeOK
  <1>2. CASE credits[h] > 0
    <2>1. lnd[h].sats \in Nat
      BY <1>2, InvoiceMade DEF PaidInv
    <2>2. QED
      BY <1>1, <2>1 DEF Tipped
  <1>3. QED
    BY <1>1, <1>2 DEF Tipped

\* A step that credits nothing.
LEMMA VolumeStays ==
  ASSUME PayInv, PaidInv, VolumeInv, UNCHANGED <<volume, credits>>,
         \A h \in Invoice : Grown(lnd[h], lnd'[h])
  PROVE  VolumeInv'
  <1>1. ASSUME NEW h \in Invoice
        PROVE  Tipped(credits'[h], lnd'[h]) = Tipped(credits[h], lnd[h])
    BY DEF Tipped, Grown, PaidInv
  <1>2. [h \in Invoice |-> Tipped(credits'[h], lnd'[h])]
          = [h \in Invoice |-> Tipped(credits[h], lnd[h])]
    BY <1>1
  <1>3. QED
    BY <1>2 DEF VolumeInv

LEMMA TippedOnce ==
  ASSUME NEW n \in Nat, NEW i, i.sats \in Nat
  PROVE  Tipped(n + 1, i) = Tipped(n, i) + i.sats
  <1>1. \A s \in Nat : (n + 1) * s = n * s + s
    OBVIOUS
  <1>2. n \in Nat /\ n + 1 > 0 /\ (n > 0 \/ n = 0)
    OBVIOUS
  <1>3. QED
    BY <1>1, <1>2 DEF Tipped

LEMMA VolumeCall ==
  ASSUME PayInv, PaidInv, VolumeInv, NEW p \in Slot, RunPoolCall(p)
  PROVE  VolumeInv'
  <1>1. PICK h \in Invoice :
          /\ lnd[h].state = "SETTLED" /\ UNCHANGED lnd
          /\ \/ UNCHANGED <<volume, credits>>
             \/ /\ volume' = volume + lnd[h].sats
                /\ credits' = [credits EXCEPT ![h] = @ + 1]
    BY CallEffect
  <1>2. CASE UNCHANGED <<volume, credits>>
    BY <1>1, <1>2, VolumeStays DEF Grown
  <1>3. CASE /\ volume' = volume + lnd[h].sats
             /\ credits' = [credits EXCEPT ![h] = @ + 1]
    <2> DEFINE f == [g \in Invoice |-> Tipped(credits[g], lnd[g])]
               f1 == [g \in Invoice |-> Tipped(credits'[g], lnd'[g])]
    <2>1. credits[h] \in Nat /\ lnd[h].sats \in Nat
      BY <1>1, InvoiceMade DEF PayInv, PaymentTypeOK
    <2>2. credits'[h] = credits[h] + 1 /\ \A g \in Invoice \ {h} : credits'[g] = credits[g]
      BY <1>3 DEF PayInv, PaymentTypeOK
    <2>3. f1[h] = f[h] + lnd[h].sats
      BY <1>1, <2>1, <2>2, TippedOnce
    <2>4. \A g \in Invoice \ {h} : f[g] = f1[g]
      BY <1>1, <2>2
    <2>5. f \in [Invoice -> Int]
      BY TippedType
    <2>6. f1 \in [Invoice -> Int]
      <3>1. ASSUME NEW g \in Invoice
            PROVE  f1[g] \in Int
        BY <2>1, <2>3, <2>4, <2>5
      <3>2. QED
        BY <3>1
    <2>7. volume = Total(f)
      BY DEF VolumeInv
    <2>8. IsFiniteSet(Invoice)
      BY PaymentAssumption
    <2>9. VolumeInv' <=> volume' = Total(f1)
      BY DEF VolumeInv
    <2> HIDE DEF f, f1
    <2>10. Total(f1) = Total(f) + (f1[h] - f[h])
      BY <2>4, <2>5, <2>6, <2>8, TotalChange
    <2>11. Total(f) \in Int /\ f[h] \in Int
      BY <2>5, <2>8, TotalType
    <2>12. QED
      BY <1>3, <2>1, <2>3, <2>7, <2>9, <2>10, <2>11
  <1>4. QED
    BY <1>1, <1>2, <1>3

LEMMA VolumeInit == Init => VolumeInv
  <1> SUFFICES ASSUME Init
               PROVE  VolumeInv
    OBVIOUS
  <1> DEFINE f == [h \in Invoice |-> Tipped(credits[h], lnd[h])]
  <1>1. f \in [Invoice -> Int] /\ \A h \in Invoice : f[h] = 0
    BY DEF Init, Tipped
  <1>2. volume = 0 /\ IsFiniteSet(Invoice)
    BY PaymentAssumption DEF Init, PoolInit
  <1>3. VolumeInv <=> volume = Total(f)
    BY DEF VolumeInv
  <1> HIDE DEF f
  <1>4. QED
    BY <1>1, <1>2, <1>3, TotalZero

LEMMA VolumeStep == PayInv /\ PaidInv /\ VolumeInv /\ [Next]_vars => VolumeInv'
  <1> SUFFICES ASSUME PayInv, PaidInv, VolumeInv, [Next]_vars
               PROVE  VolumeInv'
    OBVIOUS
  <1>1. ASSUME UNCHANGED <<volume, credits, lnd>>
        PROVE  VolumeInv'
    BY <1>1, VolumeStays DEF Grown
  <1>2. ASSUME NEW p \in Slot, StorePayment(p)
        PROVE  VolumeInv'
    <2>1. PICK h \in Invoice : /\ lnd[h].state = "NONE"
                               /\ \A g \in Invoice \ {h} : lnd'[g] = lnd[g]
                               /\ UNCHANGED <<volume, credits>>
      BY <1>2, StoreEffect
    <2>2. \A g \in Invoice : Grown(lnd[g], lnd'[g])
      BY <2>1 DEF Grown
    <2>3. QED
      BY <2>1, <2>2, VolumeStays
  <1>3. ASSUME NEW p \in Slot, RunPoolCall(p)
        PROVE  VolumeInv'
    BY <1>3, VolumeCall
  <1>4. ASSUME NEW h \in Invoice, PayInvoice(h)
        PROVE  VolumeInv'
    BY <1>4, PayEffect, VolumeStays
  <1>5. ASSUME NEW p \in Slot,
               \/ \E e \in Event, sats \in RequestSats : RequestInvoice(p, e, sats)
               \/ \E e \in Event : SubmitEvent(p, e)
               \/ ConsumePayment(p)
        PROVE  VolumeInv'
    BY <1>1, <1>5 DEF RequestInvoice, SubmitEvent, ConsumePayment, PoolUnchanged, historyVars
  <1>6. ASSUME NEW p \in Slot, \/ AppendEvent(p) \/ StoreProtocolEvent(p)
                               \/ LndFails(p) \/ Abort(p)
        PROVE  VolumeInv'
    BY <1>1, <1>6 DEF AppendEvent, StoreProtocolEvent, LndFails, Abort, PoolUnchanged,
                      historyVars
  <1>7. ASSUME \/ \E h \in Invoice : PollPayment(h)
               \/ Cleanup \/ Tick \/ Restart \/ Quiet \/ UNCHANGED vars
        PROVE  VolumeInv'
    BY <1>1, <1>7 DEF PollPayment, Cleanup, Tick, Restart, Quiet, vars, poolVars, historyVars
  <1>8. QED
    BY <1>2, <1>3, <1>4, <1>5, <1>6, <1>7 DEF Next, HandlerStep

\* What POST /event tipped is made up of settled invoices, each counted as often
\* as it was credited: no sats enter the pools that were not paid for, at any
\* amount asked, however requests overlap, expire, fail or are interrupted.
THEOREM TipsArePaid == Spec => []EveryTipIsPaid
  <1>1. PaidInv /\ VolumeInv => EveryTipIsPaid
    BY DEF PaidInv, VolumeInv, EveryTipIsPaid, Tipped
  <1>2. QED
    BY <1>1, PaidInvariant, VolumeInit, VolumeStep, PTL DEF Spec

-------------------------------------------------------------------------------
(* The log and the index.  While nothing is interrupted, what is logged of *)
(* an event and what handlers have credited and not logged yet add up to   *)
(* its credits.                                                            *)

\* The credits of event e among n credits of invoice i.
CreditsOf(n, i, e) == IF n > 0 /\ i.event = e THEN n ELSE 0

Due(t, c, e) == IF Unlogged(t, c) /\ t.event = e THEN 1 ELSE 0

\* Handlers T with calls C, the log g and credits n of the invoices L, of event e.
DueOf(T, C, e) == [p \in Slot |-> Due(T[p], C[p], e)]
CreditedOf(n, L, e) == [h \in Invoice |-> CreditsOf(n[h], L[h], e)]
Balanced(T, C, g, n, L, e) == g[e] + Total(DueOf(T, C, e)) = Total(CreditedOf(n, L, e))

\* A handler that will still index event e.
Unindexed(t, c, e) == (t.pc = "index" \/ Unlogged(t, c)) /\ t.event = e

Indexing(T, C, n, L, x) ==
  \A h \in Invoice : n[h] > 0 => \/ L[h].event \in x
                                 \/ \E p \in Slot : Unindexed(T[p], C[p], L[h].event)

LogInv ==
  /\ logged \in [Event -> Nat] /\ aborts \in Nat
  /\ aborts = 0 => /\ \A e \in Event : Balanced(task, call, logged, credits, lnd, e)
                   /\ Indexing(task, call, credits, lnd, indexed)
  /\ \A e \in indexed : \E h \in Invoice : credits[h] > 0 /\ lnd[h].event = e

LEMMA LogTypes ==
  ASSUME IsFiniteSet(Slot), PayInv, NEW e, NEW T, NEW C
  PROVE  /\ IsFiniteSet(Invoice)
         /\ DueOf(T, C, e) \in [Slot -> Int] /\ Total(DueOf(T, C, e)) \in Int
         /\ \A L : /\ CreditedOf(credits, L, e) \in [Invoice -> Int]
                   /\ Total(CreditedOf(credits, L, e)) \in Int
  <1>1. IsFiniteSet(Invoice)
    BY PaymentAssumption
  <1>2. DueOf(T, C, e) \in [Slot -> Int]
    BY DEF DueOf, Due
  <1>3. ASSUME NEW L
        PROVE  CreditedOf(credits, L, e) \in [Invoice -> Int]
    BY DEF CreditedOf, CreditsOf, PayInv, PaymentTypeOK
  <1>4. Total(DueOf(T, C, e)) \in Int
    BY <1>2, TotalType
  <1>5. \A L : Total(CreditedOf(credits, L, e)) \in Int
    BY <1>1, <1>3, TotalType
  <1>6. QED
    BY <1>1, <1>2, <1>3, <1>4, <1>5

\* Credits of paid invoices, before and after a step that credits nothing.
LEMMA CreditedGrown ==
  ASSUME PayInv, PaidInv, UNCHANGED credits, \A h \in Invoice : Grown(lnd[h], lnd'[h]), NEW e
  PROVE  CreditedOf(credits', lnd', e) = CreditedOf(credits, lnd, e)
  <1>1. ASSUME NEW h \in Invoice
        PROVE  CreditsOf(credits'[h], lnd'[h], e) = CreditsOf(credits[h], lnd[h], e)
    BY DEF CreditsOf, Grown, PaidInv
  <1>2. QED
    BY <1>1 DEF CreditedOf

\* A step without a credit and without an entry in the log.
LEMMA LogQuiet ==
  ASSUME PayInv, PaidInv, LogInv, UNCHANGED <<logged, credits>>,
         aborts' \in Nat, aborts' = 0 => aborts = 0,
         \A h \in Invoice : Grown(lnd[h], lnd'[h]),
         indexed \subseteq indexed',
         \A e \in indexed' \ indexed :
           \E h \in Invoice : credits[h] > 0 /\ lnd[h].event = e,
         aborts' = 0 => \A q \in Slot :
           \/ task'[q] = task[q] /\ call'[q] = call[q]
           \/ /\ ~ Unlogged(task[q], call[q]) /\ ~ Unlogged(task'[q], call'[q])
              /\ task[q].pc = "index" => task[q].event \in indexed'
  PROVE  LogInv'
  <1>1. \A h \in Invoice : credits[h] > 0 => lnd'[h].event = lnd[h].event
    BY DEF Grown, PaidInv
  <1>2. \A e \in indexed' : \E h \in Invoice : credits'[h] > 0 /\ lnd'[h].event = e
    BY <1>1 DEF LogInv
  <1>3. ASSUME aborts' = 0, NEW e \in Event
        PROVE  Balanced(task', call', logged', credits', lnd', e)
    <2>1. \A q \in Slot : Due(task'[q], call'[q], e) = Due(task[q], call[q], e)
      BY <1>3 DEF Due
    <2>2. DueOf(task', call', e) = DueOf(task, call, e)
      BY <2>1 DEF DueOf
    <2>3. CreditedOf(credits', lnd', e) = CreditedOf(credits, lnd, e)
      BY CreditedGrown
    <2>4. Balanced(task, call, logged, credits, lnd, e)
      BY <1>3 DEF LogInv
    <2>5. QED
      BY <2>2, <2>3, <2>4 DEF Balanced
  <1>4. ASSUME aborts' = 0
        PROVE  Indexing(task', call', credits', lnd', indexed')
    <2> SUFFICES ASSUME NEW h \in Invoice, credits[h] > 0, lnd'[h].event \notin indexed'
                 PROVE  \E p \in Slot : Unindexed(task'[p], call'[p], lnd'[h].event)
      BY DEF Indexing
    <2>1. lnd'[h].event = lnd[h].event /\ lnd[h].event \notin indexed
      BY <1>1
    <2>2. PICK p \in Slot : Unindexed(task[p], call[p], lnd[h].event)
      BY <1>4, <2>1 DEF LogInv, Indexing
    <2>3. task'[p] = task[p] /\ call'[p] = call[p]
      BY <1>4, <2>1, <2>2 DEF Unindexed
    <2>4. QED
      BY <2>1, <2>2, <2>3
  <1>5. QED
    BY <1>2, <1>3, <1>4 DEF LogInv

\* A handler that neither has an unlogged credit nor indexes goes on without one.
LEMMA LogAwait ==
  ASSUME PayInv, PaidInv, LogInv, NEW p \in Slot, NEW t, NEW c, Await(p, t, c),
         ~ Unlogged(task[p], call[p]), task[p].pc # "index", ~ Unlogged(t, c),
         UNCHANGED <<logged, credits, aborts, indexed>>,
         \A h \in Invoice : Grown(lnd[h], lnd'[h])
  PROVE  LogInv'
  <1>1. /\ task'[p] = t /\ call'[p] = c
        /\ \A q \in Slot \ {p} : task'[q] = task[q] /\ call'[q] = call[q]
    BY OneSlot
  <1>2. aborts \in Nat
    BY DEF LogInv
  <1>3. QED
    BY <1>1, <1>2, LogQuiet

\* A credit is due until it is logged.
LEMMA LogCredit ==
  ASSUME IsFiniteSet(Slot), PayInv, PaidInv, LogInv, PayInv',
         NEW p \in Slot, NEW h \in Invoice,
         task[p].pc = "event", task[p].event = lnd[h].event, call[p].op = "credit",
         call'[p].op = "done", \A q \in Slot \ {p} : call'[q] = call[q],
         credits' = [credits EXCEPT ![h] = @ + 1],
         UNCHANGED <<task, lnd, logged, indexed, aborts>>
  PROVE  LogInv'
  <1>1. /\ credits[h] \in Nat /\ credits'[h] = credits[h] + 1
        /\ \A g \in Invoice \ {h} : credits'[g] = credits[g]
    BY DEF PayInv, PaymentTypeOK
  <1>2. \A g \in Invoice : credits[g] > 0 => credits'[g] > 0
    BY <1>1
  <1>3. \A e \in indexed' : \E g \in Invoice : credits'[g] > 0 /\ lnd'[g].event = e
    BY <1>2 DEF LogInv
  <1>4. ASSUME aborts = 0, NEW e \in Event
        PROVE  Balanced(task', call', logged', credits', lnd', e)
    <2> DEFINE d == DueOf(task, call, e)
               d1 == DueOf(task', call', e)
               c == CreditedOf(credits, lnd, e)
               c1 == CreditedOf(credits', lnd', e)
               one == IF lnd[h].event = e THEN 1 ELSE 0
    <2>1. /\ d[p] = 0 /\ d1[p] = one
          /\ \A q \in Slot \ {p} : d[q] = d1[q]
      BY DEF DueOf, Due, Unlogged
    <2>2. /\ c1[h] = c[h] + one
          /\ \A g \in Invoice \ {h} : c[g] = c1[g]
      BY <1>1 DEF CreditedOf, CreditsOf
    <2>3. /\ IsFiniteSet(Invoice) /\ d \in [Slot -> Int] /\ d1 \in [Slot -> Int]
          /\ c \in [Invoice -> Int] /\ Total(c) \in Int /\ Total(d) \in Int
      BY LogTypes
    <2>4. c1 \in [Invoice -> Int]
      BY DEF CreditedOf, CreditsOf, PayInv, PaymentTypeOK
    <2>5. Balanced(task, call, logged, credits, lnd, e) /\ logged[e] \in Nat
      BY <1>4 DEF LogInv
    <2>6. logged[e] + Total(d) = Total(c)
      BY <2>5 DEF Balanced
    <2>7. Balanced(task', call', logged', credits', lnd', e)
            <=> logged[e] + Total(d1) = Total(c1)
      BY DEF Balanced
    <2>8. one \in Int
      OBVIOUS
    <2> HIDE DEF d, d1, c, c1, one
    <2>9. Total(d1) = Total(d) + (d1[p] - d[p])
      BY <2>1, <2>3, TotalChange
    <2>10. Total(c1) = Total(c) + (c1[h] - c[h])
      BY <2>2, <2>3, <2>4, TotalChange
    <2>11. c[h] \in Int
      BY <2>3
    <2>12. QED
      BY <2>1, <2>2, <2>3, <2>5, <2>6, <2>7, <2>8, <2>9, <2>10, <2>11
  <1>5. ASSUME aborts = 0
        PROVE  Indexing(task', call', credits', lnd', indexed')
    <2> SUFFICES ASSUME NEW g \in Invoice, credits'[g] > 0, lnd[g].event \notin indexed
                 PROVE  \E q \in Slot : Unindexed(task'[q], call'[q], lnd[g].event)
      BY DEF Indexing
    <2>1. CASE g = h
      BY <2>1 DEF Unindexed, Unlogged
    <2>2. CASE g # h
      <3>1. PICK q \in Slot : Unindexed(task[q], call[q], lnd[g].event)
        BY <1>1, <1>5, <2>2 DEF LogInv, Indexing
      <3>2. q # p
        BY <3>1 DEF Unindexed, Unlogged
      <3>3. QED
        BY <3>1, <3>2
    <2>3. QED
      BY <2>1, <2>2
  <1>6. QED
    BY <1>3, <1>4, <1>5 DEF LogInv

\* What is appended was due, and is indexed next.
LEMMA LogAppend ==
  ASSUME IsFiniteSet(Slot), PayInv, PaidInv, LogInv, NEW p \in Slot, AppendEvent(p)
  PROVE  LogInv'
  <1>1. PICK next \in HandlerRecord :
          /\ task[p].pc = "event" /\ Unlogged(task[p], call[p])
          /\ Await(p, next, NoCall)
          /\ next.pc = "index" /\ next.event = task[p].event
          /\ logged' = [logged EXCEPT ![task[p].event] = @ + 1]
          /\ UNCHANGED <<lnd, indexed, credits, aborts>>
    BY AppendEffect
  <1>2. /\ task'[p] = next /\ call'[p] = NoCall
        /\ \A q \in Slot \ {p} : task'[q] = task[q] /\ call'[q] = call[q]
    BY <1>1, OneSlot
  <1>3. task[p].event \in Event
    BY <1>1, HeldHash
  <1>4. /\ logged' \in [Event -> Nat]
        /\ \A e \in Event : logged'[e] = logged[e] + IF task[p].event = e THEN 1 ELSE 0
    BY <1>1, <1>3 DEF LogInv
  <1>5. ASSUME aborts = 0, NEW e \in Event
        PROVE  Balanced(task', call', logged', credits', lnd', e)
    <2> DEFINE d == DueOf(task, call, e)
               d1 == DueOf(task', call', e)
               c == CreditedOf(credits, lnd, e)
               one == IF task[p].event = e THEN 1 ELSE 0
    <2>1. /\ d[p] = one /\ d1[p] = 0
          /\ \A q \in Slot \ {p} : d[q] = d1[q]
      BY <1>1, <1>2 DEF DueOf, Due, Unlogged
    <2>2. /\ d \in [Slot -> Int] /\ d1 \in [Slot -> Int]
          /\ Total(c) \in Int /\ Total(d) \in Int
      BY LogTypes
    <2>3. Balanced(task, call, logged, credits, lnd, e) /\ logged[e] \in Nat
      BY <1>5 DEF LogInv
    <2>4. logged[e] + Total(d) = Total(c)
      BY <2>3 DEF Balanced
    <2>5. Balanced(task', call', logged', credits', lnd', e)
            <=> logged'[e] + Total(d1) = Total(c)
      BY <1>1 DEF Balanced
    <2>6. one \in Int /\ logged'[e] = logged[e] + one
      BY <1>4
    <2> HIDE DEF d, d1, c, one
    <2>7. Total(d1) = Total(d) + (d1[p] - d[p])
      BY <2>1, <2>2, TotalChange
    <2>8. QED
      BY <2>1, <2>2, <2>3, <2>4, <2>5, <2>6, <2>7
  <1>6. ASSUME aborts = 0
        PROVE  Indexing(task', call', credits', lnd', indexed')
    <2> SUFFICES ASSUME NEW g \in Invoice, credits[g] > 0, lnd[g].event \notin indexed
                 PROVE  \E q \in Slot : Unindexed(task'[q], call'[q], lnd[g].event)
      BY <1>1 DEF Indexing
    <2>1. PICK q \in Slot : Unindexed(task[q], call[q], lnd[g].event)
      BY <1>6 DEF LogInv, Indexing
    <2>2. CASE q = p
      BY <1>1, <1>2, <2>1, <2>2 DEF Unindexed
    <2>3. CASE q # p
      BY <1>2, <2>1, <2>3
    <2>4. QED
      BY <2>2, <2>3
  <1>7. QED
    BY <1>1, <1>4, <1>5, <1>6 DEF LogInv

LEMMA LogIndex ==
  ASSUME PayInv, PaidInv, LogInv, NEW p \in Slot, StoreProtocolEvent(p)
  PROVE  LogInv'
  <1>1. /\ task[p].pc = "index" /\ indexed' = indexed \cup {task[p].event}
        /\ Await(p, Idle, NoCall) /\ UNCHANGED <<logged, credits, lnd, aborts>>
    BY DEF StoreProtocolEvent, Reply, historyVars
  <1>2. /\ task'[p] = Idle
        /\ \A q \in Slot \ {p} : task'[q] = task[q] /\ call'[q] = call[q]
    BY <1>1, OneSlot
  <1>3. \E h \in Invoice : credits[h] > 0 /\ lnd[h].event = task[p].event
    BY <1>1, HeldHash DEF PaidInv, PaidSlot, Matches
  <1>4. /\ ~ Unlogged(task[p], call[p]) /\ ~ Unlogged(task'[p], call'[p])
        /\ task[p].event \in indexed'
    BY <1>1, <1>2 DEF Unlogged, Idle
  <1>5. \A e \in indexed' \ indexed :
          \E h \in Invoice : credits[h] > 0 /\ lnd[h].event = e
    BY <1>1, <1>3
  <1>6. \A h \in Invoice : Grown(lnd[h], lnd'[h])
    BY <1>1 DEF Grown
  <1>7. aborts' \in Nat /\ indexed \subseteq indexed' /\ (aborts' = 0 => aborts = 0)
    BY <1>1 DEF LogInv
  <1>8. QED
    BY <1>1, <1>2, <1>4, <1>5, <1>6, <1>7, LogQuiet

LEMMA LogInit ==
  ASSUME IsFiniteSet(Slot)
  PROVE  Init => LogInv
  <1> SUFFICES ASSUME Init
               PROVE  LogInv
    OBVIOUS
  <1>1. ASSUME NEW e \in Event
        PROVE  Balanced(task, call, logged, credits, lnd, e)
    <2> DEFINE d == DueOf(task, call, e)
               c == CreditedOf(credits, lnd, e)
    <2>1. d \in [Slot -> Int] /\ \A p \in Slot : d[p] = 0
      BY DEF DueOf, Due, Unlogged, Init, Idle
    <2>2. c \in [Invoice -> Int] /\ \A h \in Invoice : c[h] = 0
      BY DEF CreditedOf, CreditsOf, Init
    <2>3. IsFiniteSet(Invoice) /\ logged[e] = 0
      BY PaymentAssumption DEF Init
    <2>4. Balanced(task, call, logged, credits, lnd, e) <=> logged[e] + Total(d) = Total(c)
      BY DEF Balanced
    <2> HIDE DEF d, c
    <2>5. Total(d) = 0 /\ Total(c) = 0
      BY <2>1, <2>2, <2>3, TotalZero
    <2>6. QED
      BY <2>3, <2>4, <2>5
  <1>2. Indexing(task, call, credits, lnd, indexed)
    BY DEF Indexing, Init
  <1>3. QED
    BY <1>1, <1>2 DEF LogInv, Init

LEMMA LogStep ==
  ASSUME IsFiniteSet(Slot)
  PROVE  PayInv /\ PaidInv /\ LogInv /\ [Next]_vars => LogInv'
  <1> SUFFICES ASSUME PayInv, PaidInv, LogInv, [Next]_vars
               PROVE  LogInv'
    OBVIOUS
  <1>a. PayInv'
    BY PayInvStep
  <1>b. aborts \in Nat
    BY DEF LogInv
  <1>c. UNCHANGED lnd => \A h \in Invoice : Grown(lnd[h], lnd'[h])
    BY DEF Grown
  <1>1. ASSUME NEW p \in Slot, NEW e \in Event, NEW sats \in RequestSats,
               RequestInvoice(p, e, sats)
        PROVE  LogInv'
    <2> DEFINE t == [pc |-> "invoice", event |-> e, sats |-> sats]
    <2>1. /\ Await(p, t, NoCall) /\ task[p].pc = "idle"
          /\ UNCHANGED <<lnd, logged, indexed, credits, aborts>>
      BY <1>1 DEF RequestInvoice, Free, Idle, eventVars, historyVars
    <2>2. ~ Unlogged(task[p], call[p]) /\ ~ Unlogged(t, NoCall)
      BY <2>1 DEF Unlogged
    <2> HIDE DEF t
    <2>3. QED
      BY <1>c, <2>1, <2>2, LogAwait
  <1>2. ASSUME NEW p \in Slot, StorePayment(p)
        PROVE  LogInv'
    <2>1. PICK h \in Invoice : /\ task[p].pc = "invoice"
                               /\ lnd[h].state = "NONE"
                               /\ \A g \in Invoice \ {h} : lnd'[g] = lnd[g]
                               /\ Await(p, Idle, NoCall)
                               /\ UNCHANGED <<logged, indexed, credits, aborts>>
      BY <1>2, StoreEffect
    <2>2. \A g \in Invoice : Grown(lnd[g], lnd'[g])
      BY <2>1 DEF Grown
    <2>3. ~ Unlogged(task[p], call[p]) /\ ~ Unlogged(Idle, NoCall)
      BY <2>1 DEF Unlogged, Idle
    <2>4. QED
      BY <2>1, <2>2, <2>3, LogAwait
  <1>3. ASSUME NEW p \in Slot, NEW e \in Event, SubmitEvent(p, e)
        PROVE  LogInv'
    <2> DEFINE t == [pc |-> "lookup", event |-> e, payment |-> byEventHash[e]]
    <2>1. /\ Await(p, t, NoCall) \/ UNCHANGED <<task, call>>
          /\ task[p].pc = "idle"
          /\ UNCHANGED <<lnd, logged, indexed, credits, aborts>>
      BY <1>3 DEF SubmitEvent, Free, Idle, eventVars, historyVars
    <2>2. ~ Unlogged(task[p], call[p]) /\ ~ Unlogged(t, NoCall)
      BY <2>1 DEF Unlogged
    <2> HIDE DEF t
    <2>3. CASE Await(p, t, NoCall)
      BY <1>c, <2>1, <2>2, <2>3, LogAwait
    <2>4. CASE UNCHANGED <<task, call>>
      BY <1>b, <1>c, <2>1, <2>4, LogQuiet
    <2>5. QED
      BY <2>1, <2>3, <2>4
  <1>4. ASSUME NEW p \in Slot, ConsumePayment(p)
        PROVE  LogInv'
    <2> DEFINE next == [task[p] EXCEPT !.pc = "event"]
               c == TipCall(EventRef[task[p].event], EventSats[task[p].event])
    <2>1. /\ task[p].pc = "lookup"
          /\ Await(p, Idle, NoCall) \/ Await(p, next, c)
          /\ UNCHANGED <<lnd, logged, indexed, credits, aborts>>
      BY <1>4 DEF ConsumePayment, Reply, eventVars, historyVars
    <2>2. ~ Unlogged(task[p], call[p]) /\ ~ Unlogged(Idle, NoCall) /\ ~ Unlogged(next, c)
      BY <2>1 DEF Unlogged, Idle, TipCall, NewCall
    <2> HIDE DEF next, c
    <2>3. QED
      BY <1>c, <2>1, <2>2, LogAwait
  <1>5. ASSUME NEW p \in Slot, RunPoolCall(p)
        PROVE  LogInv'
    <2>1. PICK h \in Invoice, c \in CallRecord :
            /\ task[p].pc = "event" /\ task[p].payment.hash = h
            /\ Matches(task[p].payment, lnd[h])
            /\ call'[p] = c
            /\ \A q \in Slot \ {p} : call'[q] = call[q]
            /\ UNCHANGED <<task, lnd, logged, indexed, aborts>>
            /\ \/ call[p].op = "volume" /\ c.op = "credit" /\ UNCHANGED credits
               \/ /\ call[p].op = "credit" /\ c.op = "done"
                  /\ credits' = [credits EXCEPT ![h] = @ + 1]
      BY <1>5, CallEffect
    <2>2. task[p].event = lnd[h].event
      BY <2>1, HeldHash DEF Matches
    <2>3. CASE call[p].op = "volume" /\ c.op = "credit" /\ UNCHANGED credits
      <3>1. ~ Unlogged(task[p], call[p]) /\ ~ Unlogged(task'[p], call'[p])
        BY <2>1, <2>3 DEF Unlogged
      <3>2. \A q \in Slot :
              \/ task'[q] = task[q] /\ call'[q] = call[q]
              \/ /\ ~ Unlogged(task[q], call[q]) /\ ~ Unlogged(task'[q], call'[q])
                 /\ task[q].pc = "index" => task[q].event \in indexed'
        BY <2>1, <3>1
      <3>3. QED
        BY <1>b, <1>c, <2>1, <2>3, <3>2, LogQuiet
    <2>4. CASE call[p].op = "credit" /\ c.op = "done"
               /\ credits' = [credits EXCEPT ![h] = @ + 1]
      BY <1>a, <2>1, <2>2, <2>4, LogCredit
    <2>5. QED
      BY <2>1, <2>3, <2>4
  <1>6. ASSUME NEW p \in Slot, AppendEvent(p) \/ StoreProtocolEvent(p)
        PROVE  LogInv'
    BY <1>6, LogAppend, LogIndex
  <1>7. ASSUME NEW p \in Slot, LndFails(p)
        PROVE  LogInv'
    <2>1. /\ Await(p, Idle, NoCall) /\ task[p].pc \in {"invoice", "lookup"}
          /\ UNCHANGED <<lnd, logged, indexed, credits, aborts>>
      BY <1>7 DEF LndFails, Reply, eventVars, historyVars
    <2>2. ~ Unlogged(task[p], call[p]) /\ ~ Unlogged(Idle, NoCall)
      BY <2>1 DEF Unlogged, Idle
    <2>3. QED
      BY <1>c, <2>1, <2>2, LogAwait
  <1>8. ASSUME NEW p \in Slot, Abort(p)
        PROVE  LogInv'
    <2>1. aborts' = aborts + 1 /\ UNCHANGED <<lnd, logged, indexed, credits>>
      BY <1>8 DEF Abort, eventVars
    <2>2. aborts' \in Nat /\ aborts' # 0
      BY <1>b, <2>1
    <2>3. QED
      BY <1>c, <2>1, <2>2, LogQuiet
  <1>9. ASSUME NEW h \in Invoice, PayInvoice(h)
        PROVE  LogInv'
    BY <1>9, <1>b, PayEffect, LogQuiet
  <1>10. ASSUME \/ \E h \in Invoice : PollPayment(h)
                \/ Cleanup \/ Tick \/ Restart \/ Quiet \/ UNCHANGED vars
         PROVE  LogInv'
    <2>1. UNCHANGED <<task, call, lnd, logged, indexed, credits, aborts>>
      BY <1>10 DEF PollPayment, Cleanup, Tick, Restart, Quiet, vars, poolVars, eventVars,
                   historyVars
    <2>2. QED
      BY <1>b, <1>c, <2>1, LogQuiet
  <1>11. QED
    BY <1>1, <1>2, <1>3, <1>4, <1>5, <1>6, <1>7, <1>8, <1>9, <1>10 DEF Next, HandlerStep

\* With no request in flight and nothing interrupted, an event is in the log as
\* often as it was credited, and in the index if it was at all: every reply of
\* POST /event leaves the two tables in step with the pools.
THEOREM LogMatchesCredits ==
  ASSUME IsFiniteSet(Slot)
  PROVE  Spec => []LogCountsCredits
  <1>1. PayInv /\ PaidInv /\ LogInv => LogCountsCredits
    <2> SUFFICES ASSUME PayInv, PaidInv, LogInv, aborts = 0, \A p \in Slot : Free(p),
                        NEW e \in Event
                 PROVE  LET paid == {h \in Invoice : credits[h] > 0}
                            ofEvent == {h \in paid : lnd[h].event = e}
                        IN  /\ logged[e] = Total([h \in ofEvent |-> credits[h]])
                            /\ e \in indexed <=> ofEvent # {}
      BY DEF LogCountsCredits
    <2> DEFINE paid == {h \in Invoice : credits[h] > 0}
               ofEvent == {h \in paid : lnd[h].event = e}
               d == DueOf(task, call, e)
               c == CreditedOf(credits, lnd, e)
               n == [h \in ofEvent |-> credits[h]]
    <2>1. \A p \in Slot : task[p].pc = "idle"
      <3>1. \A p \in Slot : task[p] = Idle
        BY DEF Free
      <3>2. Idle.pc = "idle"
        BY DEF Idle
      <3>3. QED
        BY <3>1, <3>2
    <2>2. \A p \in Slot : d[p] = 0
      BY <2>1 DEF DueOf, Due, Unlogged
    <2>3. /\ d \in [Slot -> Int] /\ c \in [Invoice -> Int] /\ IsFiniteSet(Invoice)
          /\ Total(c) \in Int
      BY LogTypes
    <2>4. n \in [ofEvent -> Int] /\ ofEvent \in SUBSET Invoice
      BY DEF PayInv, PaymentTypeOK
    <2>5. /\ \A h \in ofEvent : c[h] = n[h]
          /\ \A h \in Invoice \ ofEvent : c[h] = 0
      BY DEF CreditedOf, CreditsOf
    <2>6. logged[e] + Total(d) = Total(c) /\ logged[e] \in Nat
      BY DEF LogInv, Balanced
    <2>7. e \in indexed => ofEvent # {}
      BY DEF LogInv
    <2>8. ofEvent # {} => e \in indexed
      BY <2>1 DEF LogInv, Indexing, Unindexed, Unlogged
    <2> HIDE DEF d, c
    <2>9. Total(d) = 0
      BY <2>2, <2>3, TotalZero
    <2>10. Total(c) = Total(n)
      <3> HIDE DEF n, ofEvent
      <3>1. QED
        BY <2>3, <2>4, <2>5, TotalSubset
    <2>11. QED
      BY <2>6, <2>7, <2>8, <2>9, <2>10
  <1>2. Init => LogInv
    BY LogInit
  <1>3. PayInv /\ PaidInv /\ LogInv /\ [Next]_vars => LogInv'
    BY LogStep
  <1>4. QED
    BY <1>1, <1>2, <1>3, PaidInvariant, PTL DEF Spec

-------------------------------------------------------------------------------
(* Requests served one at a time.  While one asks for an invoice its event *)
(* has no request, so the event hash of every record in the maps leads     *)
(* back to it; a paid invoice leaves the maps only for its credit.         *)

\* An invoice that can still be credited.
Claimable(h) ==
  \/ /\ byEventHash[lnd[h].event] # NoPayment
     /\ byEventHash[lnd[h].event].hash = h
  \/ \E p \in Slot : task[p].pc = "event" /\ task[p].payment.hash = h

\* An invoice that the coordinator still owes its event.
Open(h) == lnd[h].state # "NONE" /\ credits[h] = 0 /\ clock <= lnd[h].expiresAt

LeadsBack ==
  \A h \in Invoice :
    byPaymentHash[h] # NoPayment => byEventHash[byPaymentHash[h].event] = byPaymentHash[h]

Unrequested ==
  \A p \in Slot : task[p].pc = "invoice" => byEventHash[task[p].event] = NoPayment

ClaimInv ==
  /\ aborts \in Nat /\ restarts \in Nat
  /\ Unrequested /\ LeadsBack
  /\ aborts = 0 /\ restarts = 0 => \A h \in Invoice : Open(h) => Claimable(h)

\* The records of the invoices old, and no others, leave the maps.
Drops(old) ==
  /\ \A h \in Invoice : byPaymentHash'[h] = IF h \in old THEN NoPayment ELSE byPaymentHash[h]
  /\ \A e \in Event :
       byEventHash'[e] =
         IF \E h \in old : byPaymentHash[h] # NoPayment /\ byPaymentHash[h].event = e
         THEN NoPayment ELSE byEventHash[e]

LEMMA DropsNothing ==
  ASSUME UNCHANGED storeVars
  PROVE  Drops({})
  BY DEF Drops, storeVars

LEMMA DropsOne ==
  ASSUME PayInv, NEW h \in Invoice, DeletePayment(h)
  PROVE  Drops({h})
  <1>1. CASE byPaymentHash[h] = NoPayment
    BY <1>1 DEF DeletePayment, Drops, storeVars
  <1>2. CASE byPaymentHash[h] # NoPayment
    BY <1>2, InvParts DEF DeletePayment, Drops, MapTypes, PaymentRecord
  <1>3. QED
    BY <1>1, <1>2

LEMMA DropsExpired ==
  ASSUME PayInv, Cleanup
  PROVE  \E old \in SUBSET Invoice :
           /\ Drops(old)
           /\ \A h \in old : byPaymentHash[h] # NoPayment /\ Expired(byPaymentHash[h])
  <1> DEFINE old == {h \in Invoice : byPaymentHash[h] # NoPayment /\ Expired(byPaymentHash[h])}
  <1>1. /\ byPaymentHash' = [h \in Invoice |-> IF h \in old THEN NoPayment
                                                             ELSE byPaymentHash[h]]
        /\ byEventHash' = [e \in Event |->
                             IF \E h \in old : byPaymentHash[h].event = e
                             THEN NoPayment ELSE byEventHash[e]]
    BY DEF Cleanup
  <1>2. \A h \in old : h \in Invoice /\ byPaymentHash[h] # NoPayment /\ Expired(byPaymentHash[h])
    OBVIOUS
  <1> HIDE DEF old
  <1>3. Drops(old)
    BY <1>1, <1>2 DEF Drops
  <1>4. QED
    BY <1>2, <1>3

\* A look-up drops at most a record that has expired.
LEMMA DropsLookedUp ==
  ASSUME PayInv, NEW e \in Event, LookUp(e)
  PROVE  /\ \E old \in SUBSET Invoice :
              /\ Drops(old)
              /\ \A h \in old : byPaymentHash[h] # NoPayment /\ Expired(byPaymentHash[h])
         /\ ~ Live(byEventHash[e]) => byEventHash'[e] = NoPayment
  <1>1. CASE byEventHash[e] # NoPayment /\ Expired(byEventHash[e])
    <2>1. PICK h \in Invoice : h = byEventHash[e].hash
      BY <1>1, InvParts DEF MapTypes, PaymentRecord
    <2>2. byPaymentHash[h] = byEventHash[e] /\ byEventHash[e].event = e
      BY <1>1, <2>1, InvParts DEF StoreInv, StoresAgree
    <2>3. Drops({h})
      BY <1>1, <2>1, DropsOne DEF LookUp
    <2>4. byEventHash'[e] = NoPayment
      BY <1>1, <2>2, <2>3 DEF Drops
    <2>5. QED
      BY <1>1, <2>2, <2>3, <2>4
  <1>2. CASE ~ (byEventHash[e] # NoPayment /\ Expired(byEventHash[e]))
    <2>1. UNCHANGED storeVars
      BY <1>2 DEF LookUp
    <2>2. ~ Live(byEventHash[e]) => byEventHash'[e] = NoPayment
      BY <1>2, <2>1 DEF Live, storeVars
    <2>3. QED
      BY <2>1, <2>2, DropsNothing
  <1>3. QED
    BY <1>1, <1>2

\* What is found under an event hash stays, unless its own record is dropped.
LEMMA DropsOwn ==
  ASSUME PayInv, LeadsBack, NEW old \in SUBSET Invoice, Drops(old)
  PROVE  /\ \A e \in Event : byEventHash[e] = NoPayment => byEventHash'[e] = NoPayment
         /\ \A e \in Event : byEventHash[e] # NoPayment /\ byEventHash[e].hash \notin old
                               => byEventHash'[e] = byEventHash[e]
         /\ LeadsBack'
  <1>1. \A e \in Event : byEventHash[e] = NoPayment => byEventHash'[e] = NoPayment
    BY DEF Drops
  <1>2. ASSUME NEW e \in Event, byEventHash[e].hash \notin old
        PROVE  byEventHash'[e] = byEventHash[e]
    <2> SUFFICES ASSUME NEW h \in old, byPaymentHash[h] # NoPayment,
                        byPaymentHash[h].event = e
                 PROVE  FALSE
      BY DEF Drops
    <2>1. byEventHash[e] = byPaymentHash[h]
      BY DEF LeadsBack
    <2>2. byEventHash[e].hash = h
      BY <2>1, InvParts DEF StoreInv, HashesOwn
    <2>3. QED
      BY <1>2, <2>2
  <1>3. ASSUME NEW h \in Invoice, byPaymentHash'[h] # NoPayment
        PROVE  byEventHash'[byPaymentHash'[h].event] = byPaymentHash'[h]
    <2>1. h \notin old /\ byPaymentHash'[h] = byPaymentHash[h]
      BY <1>3 DEF Drops
    <2>2. /\ byPaymentHash[h].event \in Event /\ byPaymentHash[h].hash = h
          /\ byEventHash[byPaymentHash[h].event] = byPaymentHash[h]
      BY <1>3, <2>1, InvParts DEF MapTypes, PaymentRecord, StoreInv, HashesOwn, LeadsBack
    <2>3. QED
      BY <1>2, <2>1, <2>2
  <1>4. QED
    BY <1>1, <1>2, <1>3 DEF LeadsBack

\* A step that makes no invoice, and drops no record but for a reason.
LEMMA ClaimKeeps ==
  ASSUME PayInv, PaidInv, ClaimInv, aborts' \in Nat, restarts' \in Nat,
         NEW old \in SUBSET Invoice, Drops(old),
         Unrequested',
         aborts' = 0 /\ restarts' = 0 =>
           /\ aborts = 0 /\ restarts = 0
           /\ \A h \in Invoice : Open(h)' => Open(h) /\ lnd'[h].event = lnd[h].event
           /\ \A h \in old : /\ byPaymentHash[h] # NoPayment
                             /\ Open(h)'
                             => Claimable(h)'
           /\ \A p \in Slot : task[p].pc = "event" =>
                \/ task'[p].pc = "event" /\ task'[p].payment.hash = task[p].payment.hash
                \/ credits'[task[p].payment.hash] > 0
  PROVE  ClaimInv'
  <1>1. LeadsBack'
    BY DropsOwn DEF ClaimInv
  <1>2. ASSUME aborts' = 0, restarts' = 0, NEW h \in Invoice, Open(h)'
        PROVE  Claimable(h)'
    <2>1. Open(h) /\ lnd'[h].event = lnd[h].event /\ Claimable(h)
      BY <1>2 DEF ClaimInv
    <2>2. CASE \E p \in Slot : task[p].pc = "event" /\ task[p].payment.hash = h
      <3>1. credits'[h] = 0
        BY <1>2 DEF Open
      <3>2. \E p \in Slot : task'[p].pc = "event" /\ task'[p].payment.hash = h
        BY <1>2, <2>2, <3>1
      <3>3. QED
        BY <3>2 DEF Claimable
    <2>3. CASE /\ byEventHash[lnd[h].event] # NoPayment
               /\ byEventHash[lnd[h].event].hash = h
      <3>1. PICK e \in Event : e = lnd[h].event
        BY <2>1, InvoiceMade DEF Open
      <3>2. byPaymentHash[h] # NoPayment
        BY <2>3, <3>1, InvParts DEF StoreInv, StoresAgree
      <3>3. CASE h \in old
        BY <1>2, <3>2, <3>3
      <3>4. CASE h \notin old
        <4>1. byEventHash'[e] = byEventHash[e]
          BY <2>3, <3>1, <3>4, DropsOwn DEF ClaimInv
        <4>2. QED
          BY <2>1, <2>3, <3>1, <4>1 DEF Claimable
      <3>5. QED
        BY <3>3, <3>4
    <2>4. QED
      BY <2>1, <2>2, <2>3 DEF Claimable
  <1>3. QED
    BY <1>1, <1>2 DEF ClaimInv

\* A step in which at most expired records leave the maps.
LEMMA ClaimSteady ==
  ASSUME PayInv, PaidInv, ClaimInv, UNCHANGED <<lnd, credits, clock, aborts, restarts>>,
         NEW old \in SUBSET Invoice, Drops(old),
         \A h \in old : byPaymentHash[h] # NoPayment /\ Expired(byPaymentHash[h]),
         Unrequested',
         \A p \in Slot : \/ task[p].pc # "event" \/ task'[p] = task[p]
                         \/ credits[task[p].payment.hash] > 0
  PROVE  ClaimInv'
  <1>1. \A h \in Invoice : Open(h)' => Open(h) /\ lnd'[h].event = lnd[h].event
    BY DEF Open
  <1>2. ASSUME NEW h \in old, Open(h)'
        PROVE  FALSE
    <2>1. Expired(byPaymentHash[h]) /\ Matches(byPaymentHash[h], lnd[h])
      BY DEF PaidInv
    <2>2. clock > lnd[h].expiresAt /\ clock <= lnd[h].expiresAt /\ lnd[h].state # "NONE"
      BY <1>2, <2>1 DEF Expired, Matches, Open
    <2>3. lnd[h].expiresAt \in Nat /\ clock \in Nat
      BY <2>2, InvoiceMade DEF PayInv, PaymentTypeOK
    <2>4. QED
      BY <2>2, <2>3
  <1>3. aborts' \in Nat /\ restarts' \in Nat
    BY DEF ClaimInv
  <1>4. QED
    BY <1>1, <1>2, <1>3, ClaimKeeps

\* The same when the maps do not change, nor the handlers' requests.
LEMMA ClaimQuiet ==
  ASSUME PayInv, PaidInv, ClaimInv, UNCHANGED <<lnd, credits, clock, aborts, restarts>>,
         UNCHANGED storeVars,
         \A p \in Slot : task'[p].pc = "invoice" => task'[p] = task[p],
         \A p \in Slot : \/ task[p].pc # "event" \/ task'[p] = task[p]
                         \/ credits[task[p].payment.hash] > 0
  PROVE  ClaimInv'
  <1>1. Unrequested'
    BY DEF Unrequested, ClaimInv, storeVars
  <1>2. QED
    BY <1>1, DropsNothing, ClaimSteady

LEMMA ClaimRequest ==
  ASSUME \A p, q \in Slot : p = q, PayInv, PaidInv, ClaimInv,
         NEW p \in Slot, NEW e \in Event, NEW sats \in RequestSats, RequestInvoice(p, e, sats)
  PROVE  ClaimInv'
  <1> DEFINE t == [pc |-> "invoice", event |-> e, sats |-> sats]
  <1>1. /\ task[p].pc = "idle" /\ ~ Live(byEventHash[e]) /\ LookUp(e) /\ Await(p, t, NoCall)
        /\ UNCHANGED <<lnd, credits, clock, aborts, restarts>>
    BY DEF RequestInvoice, Free, Idle, historyVars
  <1>2. PICK old \in SUBSET Invoice :
          /\ Drops(old)
          /\ \A h \in old : byPaymentHash[h] # NoPayment /\ Expired(byPaymentHash[h])
    BY <1>1, DropsLookedUp
  <1>3. byEventHash'[e] = NoPayment
    BY <1>1, DropsLookedUp
  <1>4. task'[p] = t /\ \A q \in Slot : q = p
    BY <1>1, OneSlot
  <1>5. Unrequested'
    BY <1>3, <1>4 DEF Unrequested
  <1>6. QED
    BY <1>1, <1>2, <1>4, <1>5, ClaimSteady

LEMMA ClaimSubmit ==
  ASSUME \A p, q \in Slot : p = q, PayInv, PaidInv, ClaimInv,
         NEW p \in Slot, NEW e \in Event, SubmitEvent(p, e)
  PROVE  ClaimInv'
  <1> DEFINE t == [pc |-> "lookup", event |-> e, payment |-> byEventHash[e]]
  <1>1. /\ task[p].pc = "idle" /\ LookUp(e)
        /\ Await(p, t, NoCall) \/ UNCHANGED <<task, call>>
        /\ UNCHANGED <<lnd, credits, clock, aborts, restarts>>
    BY DEF SubmitEvent, Free, Idle, historyVars
  <1>2. PICK old \in SUBSET Invoice :
          /\ Drops(old)
          /\ \A h \in old : byPaymentHash[h] # NoPayment /\ Expired(byPaymentHash[h])
    BY <1>1, DropsLookedUp
  <1>3. task'[p].pc # "invoice" /\ \A q \in Slot : q = p
    <2>1. CASE Await(p, t, NoCall)
      BY <2>1, OneSlot
    <2>2. CASE UNCHANGED <<task, call>>
      BY <1>1, <2>2
    <2>3. QED
      BY <1>1, <2>1, <2>2
  <1>4. Unrequested'
    BY <1>3 DEF Unrequested
  <1>5. QED
    BY <1>1, <1>2, <1>3, <1>4, ClaimSteady

\* An invoice is entered under an event hash that leads nowhere yet.
LEMMA ClaimStore ==
  ASSUME \A p, q \in Slot : p = q, PayInv, PaidInv, ClaimInv, NEW p \in Slot, StorePayment(p)
  PROVE  ClaimInv'
  <1>1. PICK h \in Invoice, r \in PaymentRecord :
           /\ task[p].pc = "invoice" /\ task[p].event \in Event
           /\ r.hash = h /\ r.event = task[p].event
           /\ lnd[h].state = "NONE" /\ lnd'[h].state = "OPEN" /\ Matches(r, lnd'[h])
           /\ \A g \in Invoice \ {h} : /\ lnd'[g] = lnd[g]
                                       /\ byPaymentHash'[g] = byPaymentHash[g]
           /\ byPaymentHash'[h] = r
           /\ byEventHash' = [byEventHash EXCEPT ![task[p].event] = r]
           /\ Await(p, Idle, NoCall)
           /\ UNCHANGED <<clock, credits, aborts, restarts>>
    BY StoreEffect
  <1>2. PICK e \in Event : e = task[p].event
    BY <1>1
  <1>3. byEventHash[e] = NoPayment
    BY <1>1, <1>2 DEF ClaimInv, Unrequested
  <1>4. byEventHash'[e] = r /\ \A f \in Event \ {e} : byEventHash'[f] = byEventHash[f]
    BY <1>1, <1>2, InvParts DEF MapTypes
  <1>5. task'[p] = Idle /\ Idle.pc = "idle" /\ \A q \in Slot : q = p
    BY <1>1, OneSlot DEF Idle
  <1>6. Unrequested'
    BY <1>5 DEF Unrequested
  <1>7. r # NoPayment
    BY PaymentAssumption, NoPaymentAssumption DEF PaymentRecord
  <1>8. LeadsBack'
    <2> SUFFICES ASSUME NEW g \in Invoice, byPaymentHash'[g] # NoPayment
                 PROVE  byEventHash'[byPaymentHash'[g].event] = byPaymentHash'[g]
      BY DEF LeadsBack
    <2>1. CASE g = h
      BY <1>1, <1>2, <1>4, <2>1
    <2>2. CASE g # h
      <3>1. /\ byPaymentHash'[g] = byPaymentHash[g]
            /\ byEventHash[byPaymentHash[g].event] = byPaymentHash[g]
            /\ byPaymentHash[g].event \in Event
        BY <1>1, <2>2, InvParts DEF ClaimInv, LeadsBack, MapTypes, PaymentRecord
      <3>2. byPaymentHash[g].event # e
        BY <1>3, <2>2, <3>1
      <3>3. QED
        BY <1>4, <3>1, <3>2
    <2>3. QED
      BY <2>1, <2>2
  <1>9. ASSUME aborts = 0, restarts = 0, NEW g \in Invoice, Open(g)'
        PROVE  Claimable(g)'
    <2>1. CASE g = h
      <3>1. lnd'[h].event = e
        BY <1>1, <1>2 DEF Matches
      <3>2. QED
        BY <1>1, <1>4, <1>7, <2>1, <3>1 DEF Claimable
    <2>2. CASE g # h
      <3>1. lnd'[g] = lnd[g] /\ Open(g) /\ Claimable(g)
        BY <1>1, <1>9, <2>2 DEF Open, ClaimInv
      <3>2. \A q \in Slot : task[q].pc # "event"
        BY <1>1, <1>5
      <3>3. byEventHash[lnd[g].event] # NoPayment /\ byEventHash[lnd[g].event].hash = g
        BY <3>1, <3>2 DEF Claimable
      <3>4. lnd[g].event \in Event /\ lnd[g].event # e
        BY <1>3, <3>1, <3>3, InvoiceMade DEF Open
      <3>5. QED
        BY <1>4, <3>1, <3>3, <3>4 DEF Claimable
    <2>3. QED
      BY <2>1, <2>2
  <1>10. QED
    BY <1>1, <1>6, <1>8, <1>9 DEF ClaimInv

\* A request leaves the maps because its invoice is paid: its handler credits it.
LEMMA ClaimConsume ==
  ASSUME \A p, q \in Slot : p = q, PayInv, PaidInv, ClaimInv, NEW p \in Slot, ConsumePayment(p)
  PROVE  ClaimInv'
  <1> DEFINE t == task[p]
             next == [t EXCEPT !.pc = "event"]
             c == TipCall(EventRef[t.event], EventSats[t.event])
  <1>1. t.pc = "lookup" /\ UNCHANGED <<lnd, credits, clock, aborts, restarts>>
    BY DEF ConsumePayment, historyVars
  <1>2. PICK h \in Invoice : h = t.payment.hash
    BY <1>1, HeldHash
  <1>3. \A q \in Slot : q = p
    OBVIOUS
  <1>4. CASE Await(p, Idle, NoCall) /\ UNCHANGED storeVars
    <2>1. task'[p].pc = "idle"
      BY <1>4, OneSlot DEF Idle
    <2>2. QED
      BY <1>1, <1>3, <1>4, <2>1, ClaimQuiet
  <1>5. CASE DeletePayment(h) /\ Await(p, next, c)
    <2>1. t \in [pc : {"lookup", "event", "index"}, event : Event, payment : PaymentRecord]
      BY <1>1, InvParts, HandlerCases
    <2>2. task'[p].pc = "event" /\ task'[p].payment.hash = h
      BY <1>2, <1>5, <2>1, OneSlot
    <2>3. Drops({h})
      BY <1>5, DropsOne
    <2>4. Unrequested'
      BY <1>3, <2>2 DEF Unrequested
    <2>5. Claimable(h)'
      BY <2>2 DEF Claimable
    <2>6. \A g \in Invoice : Open(g)' => Open(g) /\ lnd'[g].event = lnd[g].event
      BY <1>1 DEF Open
    <2>7. aborts' \in Nat /\ restarts' \in Nat
      BY <1>1 DEF ClaimInv
    <2>8. \A q \in Slot : task[q].pc # "event"
      BY <1>1, <1>3
    <2> HIDE DEF t, next, c
    <2>9. QED
      BY <1>1, <2>3, <2>4, <2>5, <2>6, <2>7, <2>8, ClaimKeeps
  <1>6. QED
    BY <1>2, <1>4, <1>5 DEF ConsumePayment, Reply

\* An invoice that has been made is owed no earlier than before.
LEMMA ClaimLater ==
  ASSUME PayInv, PaidInv, ClaimInv, UNCHANGED <<task, storeVars, aborts, restarts>>,
         \A h \in Invoice : Open(h)' => Open(h) /\ lnd'[h].event = lnd[h].event
  PROVE  ClaimInv'
  <1>1. Unrequested'
    BY DEF Unrequested, ClaimInv, storeVars
  <1>2. aborts' \in Nat /\ restarts' \in Nat
    BY DEF ClaimInv
  <1>3. Drops({})
    BY DropsNothing
  <1>4. QED
    BY <1>1, <1>2, <1>3, ClaimKeeps

LEMMA ClaimInit == Init => ClaimInv
  <1> SUFFICES ASSUME Init
               PROVE  ClaimInv
    OBVIOUS
  <1>1. \A p \in Slot : task[p].pc = "idle"
    BY DEF Init, Idle
  <1>2. \A h \in Invoice : lnd[h].state = "NONE"
    BY DEF Init
  <1>3. QED
    BY <1>1, <1>2 DEF Init, ClaimInv, Unrequested, LeadsBack, Open

LEMMA ClaimStep ==
  ASSUME \A p, q \in Slot : p = q
  PROVE  PayInv /\ PaidInv /\ ClaimInv /\ [Next]_vars => ClaimInv'
  <1> SUFFICES ASSUME PayInv, PaidInv, ClaimInv, [Next]_vars
               PROVE  ClaimInv'
    OBVIOUS
  <1>0. aborts \in Nat /\ restarts \in Nat /\ clock \in Nat
    BY DEF ClaimInv, PayInv, PaymentTypeOK
  <1>1. ASSUME NEW p \in Slot, \/ StorePayment(p) \/ ConsumePayment(p)
                               \/ \E e \in Event, sats \in RequestSats :
                                    RequestInvoice(p, e, sats)
                               \/ \E e \in Event : SubmitEvent(p, e)
        PROVE  ClaimInv'
    BY <1>1, ClaimStore, ClaimConsume, ClaimRequest, ClaimSubmit
  <1>2. ASSUME NEW p \in Slot, RunPoolCall(p)
        PROVE  ClaimInv'
    <2>1. PICK h \in Invoice :
            /\ UNCHANGED <<task, storeVars, lnd, clock, aborts, restarts>>
            /\ UNCHANGED credits \/ credits' = [credits EXCEPT ![h] = @ + 1]
      BY <1>2, CallEffect DEF storeVars
    <2>2. \A g \in Invoice : credits'[g] = 0 => credits[g] = 0
      BY <2>1 DEF PayInv, PaymentTypeOK
    <2>3. \A g \in Invoice : Open(g)' => Open(g) /\ lnd'[g].event = lnd[g].event
      BY <2>1, <2>2 DEF Open
    <2>4. QED
      BY <2>1, <2>3, ClaimLater
  <1>3. ASSUME NEW p \in Slot, AppendEvent(p)
        PROVE  ClaimInv'
    <2>1. PICK next \in HandlerRecord :
            /\ task[p].pc = "event" /\ credits[task[p].payment.hash] > 0
            /\ Await(p, next, NoCall) /\ next.pc = "index"
            /\ UNCHANGED <<storeVars, lnd, clock, credits, aborts, restarts>>
      BY <1>3, AppendEffect DEF storeVars
    <2>2. task'[p] = next /\ \A q \in Slot : q = p
      BY <2>1, OneSlot
    <2>3. QED
      BY <2>1, <2>2, ClaimQuiet
  <1>4. ASSUME NEW p \in Slot, StoreProtocolEvent(p) \/ LndFails(p)
        PROVE  ClaimInv'
    <2>1. /\ task[p].pc \in {"index", "invoice", "lookup"} /\ Await(p, Idle, NoCall)
          /\ UNCHANGED <<storeVars, lnd, clock, credits, aborts, restarts>>
      BY <1>4 DEF StoreProtocolEvent, LndFails, Reply, historyVars
    <2>2. task'[p].pc = "idle" /\ \A q \in Slot : q = p
      BY <2>1, OneSlot DEF Idle
    <2>3. QED
      BY <2>1, <2>2, ClaimQuiet
  <1>5. ASSUME NEW p \in Slot, Abort(p)
        PROVE  ClaimInv'
    <2>1. /\ Await(p, Idle, NoCall) /\ aborts' = aborts + 1
          /\ UNCHANGED <<storeVars, restarts>>
      BY <1>5 DEF Abort, Reply
    <2>2. task'[p].pc = "idle" /\ \A q \in Slot : q = p
      BY <2>1, OneSlot DEF Idle
    <2>3. Unrequested'
      BY <2>2 DEF Unrequested
    <2>4. aborts' \in Nat /\ aborts' # 0 /\ restarts' \in Nat
      BY <1>0, <2>1
    <2>5. Drops({})
      BY <2>1, DropsNothing
    <2>6. QED
      BY <2>3, <2>4, <2>5, ClaimKeeps
  <1>6. ASSUME NEW h \in Invoice, PollPayment(h)
        PROVE  ClaimInv'
    <2>1. /\ byPaymentHash[h] # NoPayment /\ Expired(byPaymentHash[h]) /\ DeletePayment(h)
          /\ UNCHANGED <<task, lnd, clock, credits, aborts, restarts>>
      BY <1>6 DEF PollPayment, historyVars
    <2>2. Drops({h})
      BY <2>1, DropsOne
    <2>3. Unrequested'
      <3>1. \A e \in Event : byEventHash[e] = NoPayment => byEventHash'[e] = NoPayment
        BY <2>2, DropsOwn DEF ClaimInv
      <3>2. \A p \in Slot : task[p].pc = "invoice" => task[p].event \in Event
        BY InvParts, HandlerCases
      <3>3. QED
        BY <2>1, <3>1, <3>2 DEF Unrequested, ClaimInv
    <2>4. QED
      BY <2>1, <2>2, <2>3, ClaimSteady
  <1>7. ASSUME Cleanup
        PROVE  ClaimInv'
    <2>1. UNCHANGED <<task, lnd, clock, credits, aborts, restarts>>
      BY <1>7 DEF Cleanup, historyVars
    <2>2. PICK old \in SUBSET Invoice :
            /\ Drops(old)
            /\ \A h \in old : byPaymentHash[h] # NoPayment /\ Expired(byPaymentHash[h])
      BY <1>7, DropsExpired
    <2>3. Unrequested'
      <3>1. \A e \in Event : byEventHash[e] = NoPayment => byEventHash'[e] = NoPayment
        BY <2>2, DropsOwn DEF ClaimInv
      <3>2. \A p \in Slot : task[p].pc = "invoice" => task[p].event \in Event
        BY InvParts, HandlerCases
      <3>3. QED
        BY <2>1, <3>1, <3>2 DEF Unrequested, ClaimInv
    <2>4. QED
      BY <2>1, <2>2, <2>3, ClaimSteady
  <1>8. ASSUME NEW h \in Invoice, PayInvoice(h)
        PROVE  ClaimInv'
    <2>1. /\ \A g \in Invoice : Grown(lnd[g], lnd'[g])
          /\ \A g \in Invoice \ {h} : lnd'[g] = lnd[g]
          /\ lnd[h].state # "NONE"
          /\ UNCHANGED <<task, storeVars, clock, credits, aborts, restarts>>
      BY <1>8, PayEffect DEF storeVars
    <2>2. \A g \in Invoice : Open(g)' => Open(g) /\ lnd'[g].event = lnd[g].event
      BY <2>1 DEF Open, Grown
    <2>3. QED
      BY <2>1, <2>2, ClaimLater
  <1>9. ASSUME Tick
        PROVE  ClaimInv'
    <2>1. clock' = clock + 1 /\ UNCHANGED <<task, storeVars, lnd, credits, aborts, restarts>>
      BY <1>9 DEF Tick, historyVars
    <2>2. ASSUME NEW g \in Invoice, Open(g)'
          PROVE  Open(g) /\ lnd'[g].event = lnd[g].event
      <3>1. lnd[g].state # "NONE" /\ credits[g] = 0 /\ clock + 1 <= lnd[g].expiresAt
        BY <2>1, <2>2 DEF Open
      <3>2. lnd[g].expiresAt \in Nat
        BY <3>1, InvoiceMade
      <3>3. QED
        BY <1>0, <2>1, <3>1, <3>2 DEF Open
    <2>3. QED
      BY <2>1, <2>2, ClaimLater
  <1>10. ASSUME Restart
         PROVE  ClaimInv'
    <2>1. /\ restarts' = restarts + 1 /\ UNCHANGED <<task, aborts>>
          /\ \A p \in Slot : task[p].pc = "idle"
          /\ byPaymentHash' = [h \in Invoice |-> NoPayment]
      BY <1>10 DEF Restart, Free, Idle
    <2>2. Unrequested' /\ LeadsBack'
      BY <2>1 DEF Unrequested, LeadsBack
    <2>3. restarts' \in Nat /\ restarts' # 0 /\ aborts' \in Nat
      BY <1>0, <2>1
    <2>4. QED
      BY <2>2, <2>3 DEF ClaimInv
  <1>11. ASSUME Quiet \/ UNCHANGED vars
         PROVE  ClaimInv'
    <2>1. UNCHANGED <<task, storeVars, lnd, clock, credits, aborts, restarts>>
      BY <1>11 DEF Quiet, vars, historyVars
    <2>2. QED
      BY <2>1, ClaimQuiet
  <1>12. QED
    BY <1>1, <1>2, <1>3, <1>4, <1>5, <1>6, <1>7, <1>8, <1>9, <1>10, <1>11
       DEF Next, HandlerStep

\* Served one at a time and not interrupted, a client who paid in time finds the
\* request under the event hash until it expires, unless it has been consumed for
\* the credit.  With overlapping requests a second invoice may take its place.
THEOREM PaidRequestsStay ==
  ASSUME \A p, q \in Slot : p = q
  PROVE  Spec => []PaidStaysClaimable
  <1>1. ClaimInv => PaidStaysClaimable
    BY DEF ClaimInv, PaidStaysClaimable, Open, Claimable
  <1>2. PayInv /\ PaidInv /\ ClaimInv /\ [Next]_vars => ClaimInv'
    BY ClaimStep
  <1>3. QED
    BY <1>1, <1>2, ClaimInit, PaidInvariant, PTL DEF Spec

===============================================================================
