------------------------------ MODULE PaidBlocks ------------------------------
(***************************************************************************)
(* Selling blocks: GET /block of a gateway (routes/block.ts, l402/), the   *)
(* mint that signs receipt tokens (apps/mint) and the submission of a      *)
(* receipt to the coordinator.  The gateway remembers, in memory and until *)
(* they expire, the invoices it has asked for; Lightning is external.      *)
(*                                                                         *)
(* An invoice stands for its payment hash and its preimage: the node that  *)
(* made it knows the preimage, the payer learns it by paying.  All blocks  *)
(* have the one configured price and an invoice is paid in full.           *)
(***************************************************************************)
EXTENDS GatewayStore

CONSTANTS
  Invoice,       \* bound: the payment hashes the Lightning node gives out
  Small,         \* blocks within FREE_PREVIEW_MAX_BYTES
  FreePreview,   \* config.freePreviewEnabled
  LastEpoch,     \* bound on the clock
  NoInvoice,     \* no invoice: a request without Authorization header
  NoRecord

ASSUME SaleAssumption ==
  /\ Small \subseteq Block
  /\ FreePreview \in BOOLEAN
  /\ LastEpoch \in Nat
  /\ NoInvoice \notin Invoice

Epoch == 0..LastEpoch
Record == [block : Block, epoch : Epoch]
Token == [invoice : Invoice, block : Block, epoch : Epoch, hash : {"other", "whole"}]

ASSUME NoRecordAssumption ==
  NoRecord \notin Record \cup [block : Block, epoch : Epoch, paid : BOOLEAN]

VARIABLES
  epoch,       \* currentEpoch()
  record,      \* InvoiceStore: what each pending invoice is for
  lightning,   \* external: the state of each invoice
  tokens,      \* receipt tokens the mint has signed
  held,        \* tokens that reached a client, with the bytes it paid for
  receipts,    \* the receipt table of the coordinator
  quoted,      \* history: the record each invoice was given
  dropped      \* history: invoices whose record expired or was lost in a restart

saleVars == <<epoch, record, lightning, tokens, held, receipts, quoted,
              dropped>>

(***************************************************************************)
(* GET /block.  What the handler does once it knows that the block is not  *)
(* a free preview: ask for an invoice, or look the payment up.             *)
(***************************************************************************)
\* Fault: any payment opens any block.
PaidSomething(i, b) == record[i] # NoRecord
PaidFor(i, b) == record[i] # NoRecord /\ record[i].block = b

Gate(p, b, i) ==
  IF i = NoInvoice THEN Goto(p, [pc |-> "invoice", item |-> b])
  ELSE IF PaidFor(i, b)
    THEN Goto(p, [pc |-> "read", item |-> b, invoice |-> i, terms |-> record[i]])
    ELSE Reply(p)

GetBlock(p, b, i) ==
  /\ Free(p)
  /\ Goto(p, [pc |-> "exists", item |-> b, invoice |-> i])
  /\ UNCHANGED <<storeVars, saleVars>>

BlockExists(p) ==
  /\ req[p].pc = "exists"
  /\ IF disk[req[p].item] = "absent" THEN Reply(p)
     ELSE IF FreePreview THEN Goto(p, [req[p] EXCEPT !.pc = "preview"])
     ELSE Gate(p, req[p].item, req[p].invoice)
  /\ UNCHANGED <<storeVars, saleVars>>

\* A small block is served for nothing, and so is a file that is empty.
ReadPreview(p) ==
  /\ req[p].pc = "preview"
  /\ IF disk[req[p].item] = "other" \/ req[p].item \in Small
       THEN Reply(p)
       ELSE Gate(p, req[p].item, req[p].invoice)
  /\ UNCHANGED <<storeVars, saleVars>>

\* createInvoice, and the record with the answer 402.
CreateInvoice(p, i) ==
  LET r == [block |-> req[p].item, epoch |-> epoch]
  IN  /\ req[p].pc = "invoice"
      /\ lightning[i] = "none"
      /\ lightning' = [lightning EXCEPT ![i] = "open"]
      /\ record' = [record EXCEPT ![i] = r]
      /\ quoted' = [quoted EXCEPT ![i] = r]
      /\ Reply(p)
      /\ UNCHANGED <<storeVars, epoch, tokens, held, receipts, dropped>>

\* Fault: the record is consumed before the mint is asked.
ReadAndConsume(p) ==
  /\ req[p].pc = "read"
  /\ record' = [record EXCEPT ![req[p].invoice] = NoRecord]
  /\ Goto(p, [pc |-> "sign", item |-> req[p].item, invoice |-> req[p].invoice,
              terms |-> req[p].terms, hash |-> disk[req[p].item]])
  /\ UNCHANGED <<storeVars, epoch, lightning, tokens, held, receipts, quoted,
                 dropped>>

ReadPaid(p) ==
  /\ req[p].pc = "read"
  /\ Goto(p, [pc |-> "sign", item |-> req[p].item, invoice |-> req[p].invoice,
              terms |-> req[p].terms, hash |-> disk[req[p].item]])
  /\ UNCHANGED <<storeVars, saleVars>>

(***************************************************************************)
(* POST /sign: the mint looks the invoice up itself.                       *)
(***************************************************************************)
Settled(i) == lightning[i] = "paid"

SignReceipt(p) ==
  LET t == [invoice |-> req[p].invoice, block |-> req[p].item,
            epoch |-> req[p].terms.epoch, hash |-> req[p].hash]
  IN  /\ req[p].pc = "sign"
      /\ Settled(req[p].invoice)
      /\ tokens' = tokens \cup {t}
      /\ Goto(p, [pc |-> "signed", token |-> t])
      /\ UNCHANGED <<storeVars, epoch, record, lightning, held, receipts, quoted,
                     dropped>>

\* The record is deleted and the bytes are sent.  The client may lose them.
Deliver(p) ==
  /\ req[p].pc = "signed"
  /\ record' = [record EXCEPT ![req[p].token.invoice] = NoRecord]
  /\ held' \in {held, held \cup {req[p].token}}
  /\ Reply(p)
  /\ UNCHANGED <<storeVars, epoch, lightning, tokens, receipts, quoted, dropped>>

\* 503 without Lightning; 502 without the mint or for an unpaid invoice.
GetBlockFails(p) ==
  /\ req[p].pc \in {"invoice", "sign"}
  /\ Reply(p)
  /\ UNCHANGED <<storeVars, saleVars>>

(***************************************************************************)
(* Invoices are paid while they are open; their records live as long, from *)
(* a later moment on, and are dropped when looked up or by the cleanup.    *)
(***************************************************************************)
PayInvoice(i) ==
  /\ lightning[i] = "open"
  /\ lightning' = [lightning EXCEPT ![i] = "paid"]
  /\ UNCHANGED <<req, storeVars, epoch, record, tokens, held, receipts, quoted,
                 dropped>>

LapseInvoice(i) ==
  /\ lightning[i] = "open"
  /\ lightning' = [lightning EXCEPT ![i] = "lapsed"]
  /\ UNCHANGED <<req, storeVars, epoch, record, tokens, held, receipts, quoted,
                 dropped>>

ExpireRecord(i) ==
  /\ record[i] # NoRecord
  /\ lightning[i] # "open"
  /\ record' = [record EXCEPT ![i] = NoRecord]
  /\ dropped' = dropped \cup {i}
  /\ UNCHANGED <<req, storeVars, epoch, lightning, tokens, held, receipts, quoted>>

(***************************************************************************)
(* POST /receipt/submit: a client signs a receipt around its token, naming *)
(* an epoch that the gateway never told it; verifyReceiptV2 checks the     *)
(* token over the named fields.  Of two receipts of one payment the unique *)
(* index lets one in.                                                      *)
(***************************************************************************)
TokenValid(r) == r \in tokens

\* Fault: the receipt is looked up whole.
NotThisReceipt(r) == r \notin receipts
PaymentUnused(r) == \A s \in receipts : s.invoice # r.invoice

SubmitReceipt(t, e) ==
  LET r == [t EXCEPT !.epoch = e]
  IN  /\ TokenValid(r)
      /\ r.epoch \in (epoch - 2)..epoch
      /\ PaymentUnused(r)
      /\ receipts' = receipts \cup {r}
      /\ UNCHANGED <<req, storeVars, epoch, record, lightning, tokens, held, quoted,
                     dropped>>

NextEpoch ==
  /\ epoch < LastEpoch
  /\ epoch' = epoch + 1
  /\ UNCHANGED <<req, storeVars, record, lightning, tokens, held, receipts, quoted,
                 dropped>>

\* A restart forgets the records of all pending invoices.
RestartGateway ==
  /\ Restart
  /\ record' = [i \in Invoice |-> NoRecord]
  /\ dropped' = dropped \cup {i \in Invoice : record[i] # NoRecord}
  /\ UNCHANGED <<epoch, lightning, tokens, held, receipts, quoted>>

-------------------------------------------------------------------------------
SaleInit ==
  /\ StoreInit
  /\ epoch = 0
  /\ record = [i \in Invoice |-> NoRecord]
  /\ lightning = [i \in Invoice |-> "none"]
  /\ tokens = {}
  /\ held = {}
  /\ receipts = {}
  /\ quoted = [i \in Invoice |-> NoRecord]
  /\ dropped = {}

GetNext(p) ==
  \/ \E b \in Block : GetBlock(p, b, NoInvoice)
  \/ \E b \in Block, i \in Invoice : lightning[i] # "none" /\ GetBlock(p, b, i)
  \/ BlockExists(p)
  \/ ReadPreview(p)
  \/ \E i \in Invoice : CreateInvoice(p, i)
  \/ ReadPaid(p)
  \/ SignReceipt(p)
  \/ Deliver(p)
  \/ GetBlockFails(p)

LedgerNext ==
  \/ \E i \in Invoice : PayInvoice(i) \/ LapseInvoice(i) \/ ExpireRecord(i)
  \/ \E t \in held, e \in Epoch : SubmitReceipt(t, e)
  \/ NextEpoch

GatewayNext ==
  \/ \E p \in Slot : (PutNext(p) /\ UNCHANGED saleVars) \/ GetNext(p)
  \/ LedgerNext
  \/ RestartGateway

gatewayVars == <<req, storeVars, saleVars>>

Spec == SaleInit /\ [][GatewayNext]_gatewayVars

-------------------------------------------------------------------------------
\* The requests in flight and the tables of the gateway hold what they should.
Request ==
  {Idle}
  \cup [pc : {"access", "open", "write"}, item : Item, bytes : {"whole"}]
  \cup [pc : {"blocks"}, item : File, next : Nat]
  \cup [pc : {"exists", "preview"}, item : Block, invoice : Invoice \cup {NoInvoice}]
  \cup [pc : {"invoice"}, item : Block]
  \cup [pc : {"read"}, item : Block, invoice : Invoice, terms : Record]
  \cup [pc : {"sign"}, item : Block, invoice : Invoice, terms : Record,
        hash : {"other", "whole"}]
  \cup [pc : {"signed"}, token : Token]

GatewayTypeOK ==
  /\ disk \in [Item -> Content]
  /\ loaded \subseteq Meta
  /\ acked \subseteq Item
  /\ cut \subseteq Item
  /\ req \in [Slot -> Request]
  /\ epoch \in Epoch
  /\ record \in [Invoice -> Record \cup {NoRecord}]
  /\ quoted \in [Invoice -> Record \cup {NoRecord}]
  /\ lightning \in [Invoice -> {"none", "open", "paid", "lapsed"}]
  /\ tokens \subseteq Token
  /\ held \subseteq tokens
  /\ receipts \subseteq tokens
  /\ dropped \subseteq Invoice
  /\ faults \in 0..MaxFaults

(***************************************************************************)
(* GET /block and POST /sign: a token is for a payment that was made, for  *)
(* the block and in the epoch the payer was quoted; however often a        *)
(* preimage is presented, tokens of one payment differ at most in the hash *)
(* of the bytes.                                                           *)
(***************************************************************************)
TokensAreSales ==
  \A t \in tokens :
    /\ lightning[t.invoice] = "paid"
    /\ quoted[t.invoice] = [block |-> t.block, epoch |-> t.epoch]

\* GET /block: a payer can claim the block he paid for, again and again, until
\* it was signed for him; only expiry or a restart takes his claim.
PaidStaysClaimable ==
  \A i \in Invoice :
    lightning[i] = "paid" /\ record[i] = NoRecord =>
      \/ i \in dropped
      \/ \E t \in tokens : t.invoice = i

\* The sales as BlockSale knows them.
SaleTable ==
  [i \in Invoice |->
     IF quoted[i] = NoRecord THEN NoRecord
     ELSE [block |-> quoted[i].block, epoch |-> quoted[i].epoch,
           paid |-> lightning[i] = "paid"]]

Sale == INSTANCE BlockSale WITH
  Hash <- {"other", "whole"},
  NoSale <- NoRecord,
  sale <- SaleTable,
  signed <- tokens,
  credited <- receipts

\* Gateway, mint and coordinator together sell blocks as BlockSale promises.
SellsBlocks == Sale!Spec

===============================================================================
