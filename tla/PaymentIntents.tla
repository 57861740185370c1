---------------------------- MODULE PaymentIntents ----------------------------
(***************************************************************************)
(* Funded events (server.ts, POST /payreq, GET /payreq and POST /event): a *)
(* client asks for a Lightning invoice bound to the hash of an event, pays *)
(* it, and posts the event; the coordinator looks the invoice up, consumes *)
(* the payment request, and credits the pool the event refers to.          *)
(*                                                                         *)
(* Payment requests live in two maps in memory (views/payment-store.ts),   *)
(* for a limited time: a restart of the coordinator forgets them, LND and  *)
(* the database stay.                                                      *)
(*                                                                         *)
(* Abstractions.  An event is its hash, which is also its id; its ref and  *)
(* sats are EventRef and EventSats.  Signatures are valid.  An LND call    *)
(* takes effect in the step in which the handler goes on; it may fail      *)
(* instead (LndFails).  Only events with sats > 0 are posted here.  What   *)
(* the event does beyond the credit, the log and the index (host           *)
(* registration, citation edges) is left out.                              *)
(***************************************************************************)
EXTENDS Handlers, Totals

CONSTANTS
  Event,        \* hashes of funded events
  EventRef,     \* the pool each credits
  EventSats,    \* the sats each carries
  RequestSats,  \* sats clients may ask an invoice for
  Invoice,      \* payment hashes LND hands out
  NoPayment,    \* no entry in a map
  Ttl,          \* how long a payment request and an invoice live
  MaxClock,     \* bound: the time at which the model's clock stops
  MaxAborts,    \* bound: handlers that stop halfway
  MaxRestarts   \* bound: restarts of the coordinator

ASSUME PaymentAssumption ==
  /\ \A e \in Event : EventRef[e] \in PoolKey /\ EventSats[e] \in Amount \ {0}
  /\ RequestSats \subseteq Nat \ {0}
  /\ IsFiniteSet(Invoice)
  /\ Ttl \in Nat /\ MaxClock \in Nat /\ MaxAborts \in Nat /\ MaxRestarts \in Nat

\* An empty place in a map is no payment request (undefined, in the code).
ASSUME NoPaymentAssumption ==
  NoPayment \notin [hash : Invoice, event : Event, sats : RequestSats, expiresAt : Nat]

VARIABLES
  byEventHash,     \* PaymentStore.byEventHash
  byPaymentHash,   \* PaymentStore.byPaymentHash
  lnd,             \* the invoices of the Lightning node
  clock,           \* Date.now()
  logged,          \* how often each event is in the event log
  indexed,         \* the protocol_event table
  credits,         \* history: pool credits made for each invoice
  aborts,          \* history: handlers stopped halfway
  restarts         \* history: restarts of the coordinator

storeVars == <<byEventHash, byPaymentHash>>
eventVars == <<logged, indexed>>
historyVars == <<credits, aborts, restarts>>
vars == <<poolVars, task, storeVars, lnd, clock, eventVars, historyVars>>

-------------------------------------------------------------------------------
(* PaymentStore.                                                           *)

Expired(r) == clock > r.expiresAt

\* get, for an entry of either map.
Live(r) == r # NoPayment /\ ~ Expired(r)

\* Fault: the entry under the event hash stays.
DeleteHalf(h) ==
  /\ byPaymentHash' = [byPaymentHash EXCEPT ![h] = NoPayment]
  /\ UNCHANGED byEventHash

\* Fault: nothing is deleted.
KeepPayment(h) == UNCHANGED storeVars

\* delete: both entries, the one under the event hash whatever it holds.
DeletePayment(h) ==
  IF byPaymentHash[h] = NoPayment
  THEN UNCHANGED storeVars
  ELSE /\ byEventHash' = [byEventHash EXCEPT ![byPaymentHash[h].event] = NoPayment]
       /\ byPaymentHash' = [byPaymentHash EXCEPT ![h] = NoPayment]

\* What getByEventHash does to the maps.
LookUp(e) ==
  IF byEventHash[e] # NoPayment /\ Expired(byEventHash[e])
  THEN DeletePayment(byEventHash[e].hash)
  ELSE UNCHANGED storeVars

\* getByPaymentHash of an expired entry, by GET /payreq.
PollPayment(h) ==
  /\ byPaymentHash[h] # NoPayment /\ Expired(byPaymentHash[h])
  /\ DeletePayment(h)
  /\ UNCHANGED <<poolVars, task, lnd, clock, eventVars, historyVars>>

\* cleanup, every minute.
Cleanup ==
  LET old == {h \in Invoice : byPaymentHash[h] # NoPayment /\ Expired(byPaymentHash[h])}
  IN  /\ old # {}
      /\ byPaymentHash' = [h \in Invoice |-> IF h \in old THEN NoPayment
                                                          ELSE byPaymentHash[h]]
      /\ byEventHash' = [e \in Event |->
                           IF \E h \in old : byPaymentHash[h].event = e
                           THEN NoPayment ELSE byEventHash[e]]
      /\ UNCHANGED <<poolVars, task, lnd, clock, eventVars, historyVars>>

-------------------------------------------------------------------------------
(* LndRestClient.  An amount is paid when the invoice is settled.          *)

CreateInvoice(h, e, sats) ==
  lnd' = [lnd EXCEPT ![h] = [state |-> "OPEN", event |-> e, sats |-> sats,
                             expiresAt |-> clock + Ttl]]

LookupInvoice(h) ==
  [settled |-> lnd[h].state = "SETTLED",
   amtPaidSats |-> IF lnd[h].state = "SETTLED" THEN lnd[h].sats ELSE 0]

-------------------------------------------------------------------------------
(* POST /payreq.                                                           *)

\* Fault: a pending request for the event is not looked for.
RequestAnother(p, e, sats) ==
  /\ Free(p)
  /\ Await(p, [pc |-> "invoice", event |-> e, sats |-> sats], NoCall)
  /\ PoolUnchanged
  /\ UNCHANGED <<storeVars, lnd, clock, eventVars, historyVars>>

\* A live request for the event is returned instead, which changes nothing.
RequestInvoice(p, e, sats) ==
  /\ Free(p)
  /\ ~ Live(byEventHash[e])
  /\ LookUp(e)
  /\ Await(p, [pc |-> "invoice", event |-> e, sats |-> sats], NoCall)
  /\ PoolUnchanged
  /\ UNCHANGED <<lnd, clock, eventVars, historyVars>>

\* createInvoice returns, and the request is entered in both maps.
StorePayment(p) ==
  \E h \in Invoice :
    LET t == task[p]
        r == [hash |-> h, event |-> t.event, sats |-> t.sats, expiresAt |-> clock + Ttl]
    IN  /\ t.pc = "invoice"
        /\ lnd[h].state = "NONE"
        /\ CreateInvoice(h, t.event, t.sats)
        /\ byEventHash' = [byEventHash EXCEPT ![t.event] = r]
        /\ byPaymentHash' = [byPaymentHash EXCEPT ![h] = r]
        /\ Reply(p)
        /\ PoolUnchanged
        /\ UNCHANGED <<clock, eventVars, historyVars>>

-------------------------------------------------------------------------------
(* POST /event.                                                            *)

\* Fault: the sats of the request are not compared with those of the event.
SubmitAnyway(p, e) ==
  /\ Free(p)
  /\ byEventHash[e] # NoPayment
  /\ LookUp(e)
  /\ Live(byEventHash[e])
  /\ Await(p, [pc |-> "lookup", event |-> e, payment |-> byEventHash[e]], NoCall)
  /\ PoolUnchanged
  /\ UNCHANGED <<lnd, clock, eventVars, historyVars>>

\* Without a live request the event is answered 402, with one for other sats
\* 422; otherwise lookupInvoice is called.
SubmitEvent(p, e) ==
  /\ Free(p)
  /\ byEventHash[e] # NoPayment
  /\ LookUp(e)
  /\ IF Live(byEventHash[e]) /\ byEventHash[e].sats = EventSats[e]
     THEN Await(p, [pc |-> "lookup", event |-> e, payment |-> byEventHash[e]], NoCall)
     ELSE UNCHANGED <<task, call>>
  /\ PoolUnchanged
  /\ UNCHANGED <<lnd, clock, eventVars, historyVars>>

\* Fault: an invoice that can still be paid is taken for paid.
NotCanceled(t) == lnd[t.payment.hash].state # "CANCELED"

\* What lookupInvoice must say of the invoice.
PaidFor(t) ==
  /\ LookupInvoice(t.payment.hash).settled
  /\ LookupInvoice(t.payment.hash).amtPaidSats >= EventSats[t.event]

\* lookupInvoice returns: an invoice not settled is answered 402; of a settled
\* one the request is consumed, and creditTip called.
ConsumePayment(p) ==
  LET t == task[p]
  IN  /\ t.pc = "lookup"
      /\ \/ /\ ~ PaidFor(t)
            /\ Reply(p)
            /\ UNCHANGED storeVars
         \/ /\ PaidFor(t)
            /\ DeletePayment(t.payment.hash)
            /\ Await(p, [t EXCEPT !.pc = "event"],
                        TipCall(EventRef[t.event], EventSats[t.event]))
      /\ PoolUnchanged
      /\ UNCHANGED <<lnd, clock, eventVars, historyVars>>

\* The pool call runs; the credit is charged to the invoice.
RunPoolCall(p) ==
  /\ PoolStep(p)
  /\ credits' = IF call[p].op = "credit"
                THEN [credits EXCEPT ![task[p].payment.hash] = @ + 1]
                ELSE credits
  /\ UNCHANGED <<task, storeVars, lnd, clock, eventVars, aborts, restarts>>

\* Fault: an event is logged once, however often it was credited.
LogOnce(p) ==
  /\ task[p].pc = "event"
  /\ CallDone(p)
  /\ logged' = [logged EXCEPT ![task[p].event] = 1]
  /\ Await(p, [task[p] EXCEPT !.pc = "index"], NoCall)
  /\ PoolUnchanged
  /\ UNCHANGED <<storeVars, lnd, clock, indexed, historyVars>>

AppendEvent(p) ==
  /\ task[p].pc = "event"
  /\ CallDone(p)
  /\ logged' = [logged EXCEPT ![task[p].event] = @ + 1]
  /\ Await(p, [task[p] EXCEPT !.pc = "index"], NoCall)
  /\ PoolUnchanged
  /\ UNCHANGED <<storeVars, lnd, clock, indexed, historyVars>>

\* storeProtocolEvent: an event id already there is skipped.
StoreProtocolEvent(p) ==
  /\ task[p].pc = "index"
  /\ indexed' = indexed \cup {task[p].event}
  /\ Reply(p)
  /\ PoolUnchanged
  /\ UNCHANGED <<storeVars, lnd, clock, logged, historyVars>>

\* httpRequest: LND cannot be reached, answers with an error or with what is no
\* JSON; the handler answers 503.  There is no timeout.
LndFails(p) ==
  /\ task[p].pc \in {"invoice", "lookup"}
  /\ Reply(p)
  /\ PoolUnchanged
  /\ UNCHANGED <<storeVars, lnd, clock, eventVars, historyVars>>

-------------------------------------------------------------------------------
(* The surroundings.                                                       *)

\* LND: an invoice that has not expired is paid, in full.
PayInvoice(h) ==
  /\ lnd[h].state = "OPEN" /\ clock <= lnd[h].expiresAt
  /\ lnd' = [lnd EXCEPT ![h].state = "SETTLED"]
  /\ UNCHANGED <<poolVars, task, storeVars, clock, eventVars, historyVars>>

Tick ==
  /\ clock < MaxClock
  /\ clock' = clock + 1
  /\ UNCHANGED <<poolVars, task, storeVars, lnd, eventVars, historyVars>>

\* The database rejects a call of the handler.
Abort(p) ==
  /\ ~ Free(p)
  /\ aborts < MaxAborts
  /\ aborts' = aborts + 1
  /\ Reply(p)
  /\ PoolUnchanged
  /\ UNCHANGED <<storeVars, lnd, clock, eventVars, credits, restarts>>

\* The process dies and comes back with empty maps.  Handlers it was running
\* are stopped by Abort before.
Restart ==
  /\ \A p \in Slot : Free(p)
  /\ restarts < MaxRestarts
  /\ restarts' = restarts + 1
  /\ byEventHash' = [e \in Event |-> NoPayment]
  /\ byPaymentHash' = [h \in Invoice |-> NoPayment]
  /\ UNCHANGED <<poolVars, task, lnd, clock, eventVars, credits, aborts>>

Quiet ==
  /\ \A p \in Slot : Free(p)
  /\ UNCHANGED vars

Init ==
  /\ PoolInit
  /\ task = [p \in Slot |-> Idle]
  /\ byEventHash = [e \in Event |-> NoPayment]
  /\ byPaymentHash = [h \in Invoice |-> NoPayment]
  /\ lnd = [h \in Invoice |-> [state |-> "NONE"]]
  /\ clock = 0
  /\ logged = [e \in Event |-> 0]
  /\ indexed = {}
  /\ credits = [h \in Invoice |-> 0]
  /\ aborts = 0
  /\ restarts = 0

HandlerStep(p) ==
  \/ \E e \in Event, sats \in RequestSats : RequestInvoice(p, e, sats)
  \/ StorePayment(p)
  \/ \E e \in Event : SubmitEvent(p, e)
  \/ ConsumePayment(p)
  \/ RunPoolCall(p)
  \/ AppendEvent(p)
  \/ StoreProtocolEvent(p)
  \/ LndFails(p)
  \/ Abort(p)

Next ==
  \/ \E p \in Slot : HandlerStep(p)
  \/ \E h \in Invoice : PollPayment(h) \/ PayInvoice(h)
  \/ Cleanup
  \/ Tick
  \/ Restart
  \/ Quiet

Spec == Init /\ [][Next]_vars

-------------------------------------------------------------------------------
(* The types of the maps, the invoices and the handlers' local state.  A   *)
(* handler holds a request for the very event and sats it was sent.        *)
PaymentRecord ==
  [hash : Invoice, event : Event, sats : RequestSats, expiresAt : 0..(MaxClock + Ttl)]

HandlerRecord ==
  {Idle}
    \cup [pc : {"invoice"}, event : Event, sats : RequestSats]
    \cup [pc : {"lookup", "event", "index"}, event : Event, payment : PaymentRecord]

InvoiceRecord ==
  {[state |-> "NONE"]}
    \cup [state : {"OPEN", "SETTLED"}, event : Event, sats : RequestSats,
          expiresAt : 0..(MaxClock + Ttl)]

PaymentTypeOK ==
  /\ PoolTypeOK
  /\ byEventHash \in [Event -> PaymentRecord \cup {NoPayment}]
  /\ byPaymentHash \in [Invoice -> PaymentRecord \cup {NoPayment}]
  /\ lnd \in [Invoice -> InvoiceRecord]
  /\ task \in [Slot -> HandlerRecord]
  /\ \A p \in Slot :
       /\ call[p].op # "none" => task[p].pc = "event"
       /\ task[p].pc \in {"lookup", "event", "index"}
            => /\ task[p].payment.event = task[p].event
               /\ task[p].payment.sats = EventSats[task[p].event]
  /\ clock \in 0..MaxClock
  /\ credits \in [Invoice -> Nat]
  /\ indexed \subseteq Event

(* A request found under an event hash is also found under its payment     *)
(* hash.  Consuming a request rests on it: delete looks the record up by   *)
(* payment hash, and would leave an entry it does not find there usable    *)
(* for ever.  Overlapping requests for one event put two invoices under    *)
(* one event hash, and every deletion must still keep this.                *)
StoresAgree ==
  \A e \in Event :
    byEventHash[e] # NoPayment =>
      /\ byEventHash[e].event = e
      /\ byPaymentHash[byEventHash[e].hash] = byEventHash[e]

(* Sats enter the pools through POST /event only when paid for: what was   *)
(* tipped is made up of whole settled invoices, each counted as often as   *)
(* it was credited.  It rests on the check of the sats of the request      *)
(* against those of the event, and on the lookup of the very invoice.      *)
EveryTipIsPaid ==
  /\ \A h \in Invoice : credits[h] > 0 => lnd[h].state = "SETTLED"
  /\ volume = Total([h \in Invoice |->
                      IF credits[h] > 0 THEN credits[h] * lnd[h].sats ELSE 0])

(* Overlapping posts of one event may each find its request before one of  *)
(* them consumes it, but a request that was consumed is never found again: *)
(* an invoice is credited at most once per request in flight.              *)
CreditsBounded == \A h \in Invoice : credits[h] <= Cardinality(Slot)

(* "Payment verified - consume the payment request (single-use)", says the *)
(* comment in POST /event: an invoice is credited once.                    *)
SingleUse == \A h \in Invoice : credits[h] <= 1

(* Served one at a time and not interrupted, a client who paid in time can *)
(* have the event credited: until its request expires, the request stays   *)
(* under the event hash, unless it has been consumed for the credit.       *)
PaidStaysClaimable ==
  aborts = 0 /\ restarts = 0 =>
    \A h \in Invoice :
      lnd[h].state = "SETTLED" /\ credits[h] = 0 /\ clock <= lnd[h].expiresAt =>
        \/ /\ byEventHash[lnd[h].event] # NoPayment
           /\ byEventHash[lnd[h].event].hash = h
        \/ \E p \in Slot : task[p].pc = "event" /\ task[p].payment.hash = h

(* With no request in flight and nothing interrupted, an event is in the   *)
(* log as often as it was credited, and in the index if it was at all.     *)
LogCountsCredits ==
  aborts = 0 /\ (\A p \in Slot : Free(p)) =>
    \A e \in Event :
      LET paid == {h \in Invoice : credits[h] > 0}
          ofEvent == {h \in paid : lnd[h].event = e}
      IN  /\ logged[e] = Total([h \in ofEvent |-> credits[h]])
          /\ e \in indexed <=> ofEvent # {}

===============================================================================
