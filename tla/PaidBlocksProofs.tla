---------------------------- MODULE PaidBlocksProofs ----------------------------
(***************************************************************************)
(* Proofs about the gateway, for every number of slots, items, invoices,   *)
(* epochs and faults: what its files hold, what its manifests lead to, and *)
(* that it sells blocks as BlockSale promises.                             *)
(***************************************************************************)
EXTENDS PaidBlocks, TLAPS

\* The blocks of f are there, with files as in d.
Complete(f, d) == \A i \in 1..Len(BlocksOf[f]) : d[BlocksOf[f][i]] # "absent"

\* What a request in state r rests on: files d, maps m, quotes q and tokens t.
ReqOK(r, d, m, q, t) ==
  /\ r \in Request
  /\ r.pc = "access" => r.item \in Block
  /\ r.pc \in {"open", "write"} => r.item \in Block \cup m
  /\ r.pc = "blocks" =>
       /\ r.next \in 1..Len(BlocksOf[r.item])
       /\ \A i \in 1..(r.next - 1) : d[BlocksOf[r.item][i]] # "absent"
  /\ r.pc \in {"preview", "read"} => d[r.item] # "absent"
  /\ r.pc \in {"read", "sign"} => /\ q[r.invoice] = r.terms
                                  /\ r.terms.block = r.item
  /\ r.pc = "signed" => r.token \in t

Requests ==
  /\ req \in [Slot -> Request]
  /\ \A p \in Slot : ReqOK(req[p], disk, loaded, quoted, tokens)

StoreTypes ==
  /\ disk \in [Item -> Content]
  /\ loaded \subseteq Meta
  /\ acked \subseteq Item
  /\ cut \subseteq Item
  /\ faults \in 0..MaxFaults

\* A manifest that is in the maps, or may get there, is complete.
Manifests == \A f \in File : f \in loaded \/ disk[f] = "whole" => Complete(f, disk)

SaleTypes ==
  /\ epoch \in Epoch
  /\ record \in [Invoice -> Record \cup {NoRecord}]
  /\ quoted \in [Invoice -> Record \cup {NoRecord}]
  /\ lightning \in [Invoice -> {"none", "open", "paid", "lapsed"}]
  /\ tokens \subseteq Token
  /\ held \subseteq tokens
  /\ receipts \subseteq tokens
  /\ dropped \subseteq Invoice

\* Quotes follow the invoices, records the quotes; a record that is gone was
\* dropped, or signed for.
Records ==
  \A i \in Invoice :
    /\ quoted[i] # NoRecord <=> lightning[i] # "none"
    /\ record[i] # NoRecord => record[i] = quoted[i]
    /\ quoted[i] # NoRecord /\ record[i] = NoRecord =>
         i \in dropped \/ \E t \in tokens : t.invoice = i

Ledger == SaleTypes /\ Records /\ TokensAreSales

IInv == Requests /\ StoreTypes /\ Manifests /\ IntactUnlessCut /\ Ledger

-------------------------------------------------------------------------------
(* Requests.                                                               *)

LEMMA RequestCases ==
  ASSUME NEW r \in Request
  PROVE  /\ r.pc \in {"access", "open", "write"} =>
              r \in [pc : {"access", "open", "write"}, item : Item, bytes : {"whole"}]
         /\ r.pc = "blocks" => r \in [pc : {"blocks"}, item : File, next : Nat]
         /\ r.pc \in {"exists", "preview"} =>
              r \in [pc : {"exists", "preview"}, item : Block,
                     invoice : Invoice \cup {NoInvoice}]
         /\ r.pc = "invoice" => r \in [pc : {"invoice"}, item : Block]
         /\ r.pc = "read" =>
              r \in [pc : {"read"}, item : Block, invoice : Invoice, terms : Record]
         /\ r.pc = "sign" =>
              r \in [pc : {"sign"}, item : Block, invoice : Invoice, terms : Record,
                     hash : {"other", "whole"}]
         /\ r.pc = "signed" => r \in [pc : {"signed"}, token : Token]
  BY DEF Request, Idle

LEMMA RequestOf ==
  ASSUME IInv, NEW p \in Slot
  PROVE  req[p] \in Request /\ ReqOK(req[p], disk, loaded, quoted, tokens)
  BY DEF IInv, Requests

LEMMA IdleOK ==
  ASSUME NEW d, NEW m, NEW q, NEW t
  PROVE  ReqOK(Idle, d, m, q, t)
  BY DEF ReqOK, Request, Idle

\* Files stay, maps and tokens grow, and quotes are kept.
Grows(d, m, q, t) ==
  /\ \A x \in Item : disk[x] # "absent" => d[x] # "absent"
  /\ loaded \subseteq m
  /\ \A i \in Invoice : quoted[i] # NoRecord => q[i] = quoted[i]
  /\ tokens \subseteq t

LEMMA RequestGrows ==
  ASSUME IInv, NEW p \in Slot, NEW d, NEW m, NEW q, NEW t, Grows(d, m, q, t)
  PROVE  ReqOK(req[p], d, m, q, t)
  <1> DEFINE r == req[p]
  <1>1. r \in Request /\ ReqOK(r, disk, loaded, quoted, tokens)
    BY RequestOf
  <1> HIDE DEF r
  <1>2. r.pc \in {"open", "write"} => r.item \in Block \cup m
    BY <1>1 DEF ReqOK, Grows
  <1>3. ASSUME r.pc = "blocks"
        PROVE  /\ r.next \in 1..Len(BlocksOf[r.item])
               /\ \A i \in 1..(r.next - 1) : d[BlocksOf[r.item][i]] # "absent"
    <2>1. r.item \in File /\ r.next \in Nat
      BY <1>1, <1>3, RequestCases
    <2>2. BlocksOf[r.item] \in Seq(Block) /\ Len(BlocksOf[r.item]) \in Nat
      BY <2>1, ItemAssumption
    <2>3. ASSUME NEW i \in 1..(r.next - 1)
          PROVE  d[BlocksOf[r.item][i]] # "absent"
      <3>1. i \in 1..Len(BlocksOf[r.item])
        BY <1>1, <1>3, <2>1, <2>2 DEF ReqOK
      <3>2. BlocksOf[r.item][i] \in Item
        BY <2>2, <3>1 DEF Item
      <3>3. disk[BlocksOf[r.item][i]] # "absent"
        BY <1>1, <1>3, <2>3 DEF ReqOK
      <3>4. QED
        BY <3>2, <3>3 DEF Grows
    <2>4. QED
      BY <1>1, <1>3, <2>3 DEF ReqOK
  <1>4. ASSUME r.pc \in {"preview", "read"}
        PROVE  d[r.item] # "absent"
    <2>1. r.item \in Item
      BY <1>1, <1>4, RequestCases DEF Item
    <2>2. QED
      BY <1>1, <1>4, <2>1 DEF ReqOK, Grows
  <1>5. ASSUME r.pc \in {"read", "sign"}
        PROVE  q[r.invoice] = r.terms /\ r.terms.block = r.item
    <2>1. r.invoice \in Invoice /\ r.terms \in Record
      BY <1>1, <1>5, RequestCases
    <2>2. quoted[r.invoice] = r.terms /\ r.terms.block = r.item
      BY <1>1, <1>5 DEF ReqOK
    <2>3. QED
      BY <2>1, <2>2, NoRecordAssumption DEF Grows
  <1>6. r.pc = "signed" => r.token \in t
    BY <1>1 DEF ReqOK, Grows
  <1>7. QED
    BY <1>1, <1>2, <1>3, <1>4, <1>5, <1>6 DEF ReqOK, r

\* The request of p goes on to r.
LEMMA RequestGoes ==
  ASSUME IInv, NEW p \in Slot, NEW r, Goto(p, r),
         Grows(disk', loaded', quoted', tokens'),
         ReqOK(r, disk', loaded', quoted', tokens')
  PROVE  Requests'
  <1>1. req' = [req EXCEPT ![p] = r] /\ req \in [Slot -> Request]
    BY DEF Goto, IInv, Requests
  <1>2. r \in Request
    BY DEF ReqOK
  <1>3. \A s \in Slot : req'[s] = IF s = p THEN r ELSE req[s]
    BY <1>1
  <1>4. ASSUME NEW s \in Slot
        PROVE  ReqOK(req'[s], disk', loaded', quoted', tokens')
    BY <1>3, RequestGrows
  <1>5. QED
    BY <1>1, <1>2, <1>4 DEF Requests

LEMMA RequestsStay ==
  ASSUME IInv, UNCHANGED req, Grows(disk', loaded', quoted', tokens')
  PROVE  Requests'
  BY RequestGrows DEF IInv, Requests

\* A write is under way until the request that writes goes on.
LEMMA WritingStays ==
  ASSUME IInv, NEW p \in Slot, NEW r, Goto(p, r), NEW x, Writing(x),
         ~(req[p].pc = "write" /\ req[p].item = x)
  PROVE  Writing(x)'
  <1>1. PICK s \in Slot : req[s].pc = "write" /\ req[s].item = x
    BY DEF Writing
  <1>2. s # p /\ req'[s] = req[s]
    BY <1>1 DEF Goto, IInv, Requests
  <1>3. QED
    BY <1>1, <1>2 DEF Writing

LEMMA BlocksAreItems ==
  ASSUME NEW f \in File
  PROVE  /\ Len(BlocksOf[f]) \in Nat
         /\ \A i \in 1..Len(BlocksOf[f]) : BlocksOf[f][i] \in Block
         /\ \A i \in 1..Len(BlocksOf[f]) : BlocksOf[f][i] \in Item
  <1>1. BlocksOf[f] \in Seq(Block)
    BY ItemAssumption
  <1>2. QED
    BY <1>1 DEF Item

LEMMA CompleteGrows ==
  ASSUME NEW f \in File, NEW d, Complete(f, disk),
         \A x \in Item : disk[x] # "absent" => d[x] # "absent"
  PROVE  Complete(f, d)
  BY BlocksAreItems DEF Complete
-------------------------------------------------------------------------------
(* The storage.                                                            *)

LEMMA LedgerStays == ASSUME IInv, UNCHANGED saleVars PROVE Ledger'
  BY DEF IInv, Ledger, SaleTypes, Records, TokensAreSales, saleVars

LEMMA NothingLost ==
  ASSUME IInv, UNCHANGED <<disk, loaded, quoted, tokens>>
  PROVE  Grows(disk', loaded', quoted', tokens')
  BY DEF Grows

\* A request that was not writing goes on, and the files stay.
LEMMA StoreStays ==
  ASSUME IInv, UNCHANGED storeVars, NEW p \in Slot, NEW r,
         (Goto(p, r) /\ req[p].pc # "write") \/ UNCHANGED req
  PROVE  StoreTypes' /\ Manifests' /\ IntactUnlessCut'
  <1>1. UNCHANGED <<disk, loaded, acked, cut, faults>>
    BY DEF storeVars
  <1>2. StoreTypes' /\ Manifests'
    BY <1>1 DEF IInv, StoreTypes, Manifests, Complete
  <1>3. ASSUME NEW x, Writing(x)
        PROVE  Writing(x)'
    BY <1>3, WritingStays DEF Writing
  <1>4. IntactUnlessCut'
    BY <1>1, <1>3 DEF IInv, IntactUnlessCut
  <1>5. QED
    BY <1>2, <1>4

\* A request goes on to r, and nothing else happens.
LEMMA OnlyGoes ==
  ASSUME IInv, NEW p \in Slot, NEW r, Goto(p, r), req[p].pc # "write",
         UNCHANGED <<storeVars, saleVars>>,
         ReqOK(r, disk, loaded, quoted, tokens)
  PROVE  IInv'
  <1>1. UNCHANGED <<disk, loaded, quoted, tokens>>
    BY DEF storeVars, saleVars
  <1>2. Grows(disk', loaded', quoted', tokens') /\ ReqOK(r, disk', loaded', quoted', tokens')
    BY <1>1, NothingLost
  <1>3. Requests'
    BY <1>2, RequestGoes
  <1>4. StoreTypes' /\ Manifests' /\ IntactUnlessCut'
    BY StoreStays
  <1>5. QED
    BY <1>3, <1>4, LedgerStays DEF IInv

LEMMA FreeIdle ==
  ASSUME NEW p \in Slot, Free(p)
  PROVE  req[p].pc = "idle"
  BY DEF Free, Idle

LEMMA PutBlockOK ==
  ASSUME IInv, NEW p \in Slot, NEW b \in Block, NEW bytes, PutBlock(p, b, bytes),
         UNCHANGED saleVars
  PROVE  IInv'
  <1> DEFINE r == [pc |-> "access", item |-> b, bytes |-> bytes]
  <1>1. r \in [pc : {"access", "open", "write"}, item : Item, bytes : {"whole"}]
    BY DEF PutBlock, VerifyCid, Item
  <1>2. ReqOK(r, disk, loaded, quoted, tokens)
    BY <1>1 DEF ReqOK, Request
  <1>3. Goto(p, r) /\ req[p].pc # "write" /\ UNCHANGED storeVars
    BY FreeIdle DEF PutBlock
  <1>4. QED
    BY <1>2, <1>3, OnlyGoes

LEMMA AccessBlockOK ==
  ASSUME IInv, NEW p \in Slot, AccessBlock(p), UNCHANGED saleVars
  PROVE  IInv'
  <1> DEFINE r == req[p]
             x == r.item
  <1>1. /\ r.pc = "access"
        /\ r \in [pc : {"access", "open", "write"}, item : Item, bytes : {"whole"}]
        /\ x \in Block
        /\ x \in Item
    BY RequestOf, RequestCases DEF AccessBlock, ReqOK
  <1>2. UNCHANGED <<disk, loaded, cut, faults>> /\ UNCHANGED <<quoted, tokens>>
    BY DEF AccessBlock, saleVars
  <1>3. CASE disk[x] # "absent"
    <2>1. Goto(p, Idle) /\ acked' = acked \cup {x}
      BY <1>3 DEF AccessBlock, Reply
    <2>2. Requests'
      BY <1>2, <2>1, RequestGoes, NothingLost, IdleOK
    <2>3. StoreTypes' /\ Manifests'
      BY <1>1, <1>2, <2>1 DEF IInv, StoreTypes, Manifests, Complete
    <2>4. ASSUME NEW y, Writing(y)
          PROVE  Writing(y)'
      BY <1>1, <2>1, <2>4, WritingStays
    <2>5. IntactUnlessCut'
      BY <1>1, <1>2, <1>3, <2>1, <2>4 DEF IInv, IntactUnlessCut
    <2>6. QED
      BY <2>2, <2>3, <2>5, LedgerStays DEF IInv
  <1>4. CASE disk[x] = "absent"
    <2> DEFINE s == [r EXCEPT !.pc = "open"]
    <2>1. s \in [pc : {"access", "open", "write"}, item : Item, bytes : {"whole"}]
      BY <1>1
    <2>2. s.pc = "open" /\ s.item = x
      BY <1>1
    <2>3. Goto(p, s) /\ UNCHANGED storeVars
      BY <1>2, <1>4 DEF AccessBlock, storeVars
    <2> HIDE DEF s
    <2>4. ReqOK(s, disk, loaded, quoted, tokens)
      BY <1>1, <2>1, <2>2 DEF ReqOK, Request
    <2>5. QED
      BY <1>1, <2>3, <2>4, OnlyGoes
  <1>5. QED
    BY <1>3, <1>4

\* The item of a request that opens or writes its file.
LEMMA WriterOf ==
  ASSUME IInv, NEW p \in Slot, req[p].pc \in {"open", "write"}
  PROVE  /\ req[p] \in [pc : {"access", "open", "write"}, item : Item, bytes : {"whole"}]
         /\ req[p].item \in Item
         /\ req[p].item \in Block \cup loaded
         /\ req[p].bytes = "whole"
         /\ disk \in [Item -> Content]
  <1>1. req[p] \in [pc : {"access", "open", "write"}, item : Item, bytes : {"whole"}]
    BY RequestOf, RequestCases
  <1>2. req[p].item \in Block \cup loaded
    BY RequestOf DEF ReqOK
  <1>3. QED
    BY <1>1, <1>2 DEF IInv, StoreTypes

LEMMA OpenFileOK ==
  ASSUME IInv, NEW p \in Slot, OpenFile(p), UNCHANGED saleVars
  PROVE  IInv'
  <1> DEFINE r == req[p]
             x == r.item
             s == [r EXCEPT !.pc = "write"]
  <1>1. r.pc = "open"
    BY DEF OpenFile
  <1>2. /\ r \in [pc : {"access", "open", "write"}, item : Item, bytes : {"whole"}]
        /\ x \in Item
        /\ x \in Block \cup loaded
        /\ disk \in [Item -> Content]
    BY <1>1, WriterOf
  <1>3. /\ s \in [pc : {"access", "open", "write"}, item : Item, bytes : {"whole"}]
        /\ s.pc = "write"
        /\ s.item = x
    BY <1>2
  <1>4. disk' = [disk EXCEPT ![x] = "other"] /\ Goto(p, s)
    BY DEF OpenFile
  <1>5. \A y \in Item : disk'[y] = IF y = x THEN "other" ELSE disk[y]
    BY <1>2, <1>4
  <1>6. UNCHANGED <<loaded, acked, cut, faults, quoted, tokens>>
    BY DEF OpenFile, saleVars
  <1> HIDE DEF r, x, s
  <1>7. ReqOK(s, disk', loaded', quoted', tokens')
    BY <1>2, <1>3, <1>6 DEF ReqOK, Request
  <1>8. Grows(disk', loaded', quoted', tokens')
    BY <1>5, <1>6 DEF Grows
  <1>9. Requests'
    BY <1>4, <1>7, <1>8, RequestGoes
  <1>10. StoreTypes'
    BY <1>2, <1>4, <1>6 DEF IInv, StoreTypes, Content
  <1>11. Manifests'
    <2>1. ASSUME NEW f \in File, f \in loaded' \/ disk'[f] = "whole"
          PROVE  Complete(f, disk')
      <3>1. f \in loaded \/ disk[f] = "whole"
        BY <1>5, <1>6, <2>1 DEF Item, Meta
      <3>2. QED
        BY <1>8, <3>1, CompleteGrows DEF IInv, Manifests, Grows
    <2>2. QED
      BY <2>1 DEF Manifests
  <1>12. ASSUME NEW y, y = x
         PROVE  Writing(y)'
    <2>1. req'[p] = s
      BY <1>4 DEF Goto, IInv, Requests
    <2>2. QED
      BY <1>3, <1>12, <2>1 DEF Writing
  <1>13. ASSUME NEW y, Writing(y)
         PROVE  Writing(y)'
    BY <1>1, <1>4, <1>13, WritingStays DEF r
  <1>14. IntactUnlessCut'
    <2>1. ASSUME NEW y \in Item, disk'[y] = "other"
          PROVE  Writing(y)' \/ y \in cut'
      BY <1>5, <1>6, <1>12, <1>13, <2>1 DEF IInv, IntactUnlessCut
    <2>2. ASSUME NEW y \in acked
          PROVE  disk'[y] # "absent" /\ (y \in Block \cup loaded \/ y \in cut)
      BY <1>5, <2>2 DEF IInv, IntactUnlessCut, StoreTypes
    <2>3. QED
      BY <1>6, <2>1, <2>2 DEF IntactUnlessCut
  <1>15. QED
    BY <1>9, <1>10, <1>11, <1>14, LedgerStays DEF IInv

LEMMA WriteFileOK ==
  ASSUME IInv, NEW p \in Slot, WriteFile(p), UNCHANGED saleVars
  PROVE  IInv'
  <1> DEFINE x == req[p].item
  <1>1. /\ req[p].pc = "write"
        /\ x \in Item
        /\ x \in Block \cup loaded
        /\ req[p].bytes = "whole"
        /\ disk \in [Item -> Content]
    BY WriterOf DEF WriteFile
  <1>2. /\ disk' = [disk EXCEPT ![x] = "whole"]
        /\ acked' = acked \cup {x}
        /\ cut' = cut \ {x}
        /\ Goto(p, Idle)
        /\ UNCHANGED <<loaded, faults, quoted, tokens>>
    BY <1>1 DEF WriteFile, Reply, saleVars
  <1>3. \A y \in Item : disk'[y] = IF y = x THEN "whole" ELSE disk[y]
    BY <1>1, <1>2
  <1>4. Grows(disk', loaded', quoted', tokens')
    BY <1>2, <1>3 DEF Grows
  <1>5. Requests'
    BY <1>2, <1>4, RequestGoes, IdleOK
  <1>6. StoreTypes'
    BY <1>1, <1>2 DEF IInv, StoreTypes, Content
  <1>7. Manifests'
    <2>1. ASSUME NEW f \in File, f \in loaded' \/ disk'[f] = "whole"
          PROVE  Complete(f, disk')
      <3>1. f \notin Block /\ f \in Item
        BY ItemAssumption DEF Item, Meta
      <3>2. f \in loaded \/ disk[f] = "whole"
        BY <1>1, <1>2, <1>3, <2>1, <3>1
      <3>3. QED
        BY <1>4, <3>2, CompleteGrows DEF IInv, Manifests, Grows
    <2>2. QED
      BY <2>1 DEF Manifests
  <1>8. ASSUME NEW y, Writing(y), y # x
        PROVE  Writing(y)'
    BY <1>2, <1>8, WritingStays
  <1>9. IntactUnlessCut'
    <2>1. ASSUME NEW y \in Item, disk'[y] = "other"
          PROVE  Writing(y)' \/ y \in cut'
      BY <1>2, <1>3, <1>8, <2>1 DEF IInv, IntactUnlessCut
    <2>2. ASSUME NEW y \in acked'
          PROVE  disk'[y] # "absent" /\ (y \in Block \cup loaded' \/ y \in cut')
      BY <1>1, <1>2, <1>3, <2>2 DEF IInv, IntactUnlessCut, StoreTypes
    <2>3. QED
      BY <2>1, <2>2 DEF IntactUnlessCut
  <1>10. QED
    BY <1>5, <1>6, <1>7, <1>9, LedgerStays DEF IInv

LEMMA WriteFailsOK ==
  ASSUME IInv, NEW p \in Slot, WriteFails(p), UNCHANGED saleVars
  PROVE  IInv'
  <1> DEFINE x == req[p].item
  <1>1. req[p].pc \in {"open", "write"} /\ x \in Item
    BY WriterOf DEF WriteFails
  <1>2. /\ cut' = IF req[p].pc = "write" /\ disk[x] = "other" THEN cut \cup {x} ELSE cut
        /\ Goto(p, Idle)
        /\ UNCHANGED <<disk, loaded, acked, quoted, tokens>>
    BY DEF WriteFails, Reply, saleVars
  <1>3. Requests'
    BY <1>2, NothingLost, RequestGoes, IdleOK
  <1>4. faults' \in 0..MaxFaults
    BY ItemAssumption DEF WriteFails, Fault, IInv, StoreTypes
  <1>5. StoreTypes' /\ Manifests'
    BY <1>1, <1>2, <1>4 DEF IInv, StoreTypes, Manifests, Complete
  <1>6. ASSUME NEW y, Writing(y), disk[y] = "other"
        PROVE  Writing(y)' \/ y \in cut'
    BY <1>2, <1>6, WritingStays
  <1>7. IntactUnlessCut'
    BY <1>2, <1>6 DEF IInv, IntactUnlessCut
  <1>8. QED
    BY <1>3, <1>5, <1>7, LedgerStays DEF IInv
LEMMA PutMetaOK ==
  ASSUME IInv, NEW p \in Slot, NEW x \in Meta, req[p].pc # "write", PutMeta(p, x),
         UNCHANGED <<disk, acked, cut, faults, saleVars>>,
         x \in File => Complete(x, disk)
  PROVE  IInv'
  <1> DEFINE s == [pc |-> "open", item |-> x, bytes |-> "whole"]
  <1>1. loaded' = loaded \cup {x} /\ Goto(p, s)
    BY DEF PutMeta
  <1>2. Grows(disk', loaded', quoted', tokens')
    BY <1>1 DEF Grows, saleVars
  <1>3. s \in [pc : {"access", "open", "write"}, item : Item, bytes : {"whole"}]
    BY DEF Item
  <1>4. ReqOK(s, disk', loaded', quoted', tokens')
    BY <1>1, <1>3 DEF ReqOK, Request
  <1>5. Requests'
    BY <1>1, <1>2, <1>4, RequestGoes
  <1>6. StoreTypes'
    BY <1>1 DEF IInv, StoreTypes
  <1>7. Manifests'
    BY <1>1 DEF IInv, Manifests, Complete
  <1>8. ASSUME NEW y, Writing(y)
        PROVE  Writing(y)'
    BY <1>1, <1>8, WritingStays
  <1>9. IntactUnlessCut'
    BY <1>1, <1>8 DEF IInv, IntactUnlessCut
  <1>10. QED
    BY <1>5, <1>6, <1>7, <1>9, LedgerStays DEF IInv

LEMMA PutFileOK ==
  ASSUME IInv, NEW p \in Slot, NEW f \in File, PutFile(p, f), UNCHANGED saleVars
  PROVE  IInv'
  <1>1. req[p].pc # "write" /\ UNCHANGED <<disk, acked, cut, faults>> /\ f \in Meta
    BY FreeIdle DEF PutFile, Meta
  <1>2. BlocksOf[f] \in Seq(Block)
    BY ItemAssumption
  <1>3. CASE BlocksOf[f] = <<>>
    <2>1. Complete(f, disk)
      BY <1>3 DEF Complete
    <2>2. PutMeta(p, f)
      BY <1>3 DEF PutFile
    <2>3. QED
      BY <1>1, <2>1, <2>2, PutMetaOK
  <1>4. CASE BlocksOf[f] # <<>>
    <2> DEFINE s == [pc |-> "blocks", item |-> f, next |-> 1]
    <2>1. Goto(p, s) /\ UNCHANGED storeVars
      BY <1>1, <1>4 DEF PutFile, storeVars
    <2>2. 1 \in 1..Len(BlocksOf[f])
      BY <1>2, <1>4
    <2>3. ReqOK(s, disk, loaded, quoted, tokens)
      BY <2>2 DEF ReqOK, Request
    <2>4. QED
      BY <1>1, <2>1, <2>3, OnlyGoes
  <1>5. QED
    BY <1>3, <1>4

LEMMA LookUpBlockOK ==
  ASSUME IInv, NEW p \in Slot, LookUpBlock(p), UNCHANGED saleVars
  PROVE  IInv'
  <1> DEFINE f == req[p].item
             i == req[p].next
             s == [req[p] EXCEPT !.next = i + 1]
  <1>1. /\ req[p].pc = "blocks"
        /\ req[p] \in [pc : {"blocks"}, item : File, next : Nat]
        /\ f \in File
        /\ i \in Nat
        /\ i \in 1..Len(BlocksOf[f])
        /\ \A j \in 1..(i - 1) : disk[BlocksOf[f][j]] # "absent"
    BY RequestOf, RequestCases DEF LookUpBlock, ReqOK
  <1>2. UNCHANGED <<disk, acked, cut, faults>> /\ f \in Meta /\ Len(BlocksOf[f]) \in Nat
    BY <1>1, BlocksAreItems DEF LookUpBlock, Meta
  <1>3. CASE ~HasBlock(BlocksOf[f][i])
    BY <1>1, <1>2, <1>3, IdleOK, OnlyGoes DEF LookUpBlock, Reply, storeVars
  <1>4. CASE HasBlock(BlocksOf[f][i]) /\ i < Len(BlocksOf[f])
    <2>1. Goto(p, s) /\ UNCHANGED storeVars
      BY <1>2, <1>4 DEF LookUpBlock, storeVars
    <2>2. /\ s \in [pc : {"blocks"}, item : File, next : Nat]
          /\ s.pc = "blocks"
          /\ s.item = f
          /\ s.next = i + 1
      BY <1>1
    <2>3. \A j \in 1..i : disk[BlocksOf[f][j]] # "absent"
      BY <1>1, <1>4 DEF HasBlock
    <2>4. i + 1 \in 1..Len(BlocksOf[f]) /\ (i + 1) - 1 = i
      BY <1>1, <1>2, <1>4
    <2> HIDE DEF s, f, i
    <2>5. ReqOK(s, disk, loaded, quoted, tokens)
      BY <2>2, <2>3, <2>4 DEF ReqOK, Request
    <2>6. QED
      BY <1>1, <2>1, <2>5, OnlyGoes
  <1>5. CASE HasBlock(BlocksOf[f][i]) /\ ~(i < Len(BlocksOf[f]))
    <2>1. PutMeta(p, f)
      BY <1>5 DEF LookUpBlock
    <2>2. Complete(f, disk)
      BY <1>1, <1>2, <1>5 DEF Complete, HasBlock
    <2>3. QED
      BY <1>1, <1>2, <2>1, <2>2, PutMetaOK
  <1>6. QED
    BY <1>3, <1>4, <1>5

LEMMA PutAssetOK ==
  ASSUME IInv, NEW p \in Slot, NEW a \in Asset, PutAsset(p, a), UNCHANGED saleVars
  PROVE  IInv'
  <1>1. req[p].pc # "write" /\ a \in Meta /\ a \notin File
    BY FreeIdle, ItemAssumption DEF PutAsset, Meta
  <1>2. PutMeta(p, a) /\ UNCHANGED <<disk, acked, cut, faults>>
    BY DEF PutAsset
  <1>3. QED
    BY <1>1, <1>2, PutMetaOK

LEMMA PutStep ==
  ASSUME IInv, NEW p \in Slot, PutNext(p), UNCHANGED saleVars
  PROVE  IInv'
  BY PutBlockOK, AccessBlockOK, OpenFileOK, WriteFileOK, WriteFailsOK, PutFileOK,
     LookUpBlockOK, PutAssetOK DEF PutNext

LEMMA RestartOK ==
  ASSUME IInv, RestartGateway
  PROVE  IInv'
  <1>1. /\ req' = [p \in Slot |-> Idle]
        /\ loaded' = LoadMeta
        /\ UNCHANGED <<disk, acked>>
        /\ cut' = cut \cup {x \in Item : disk[x] = "other" /\ Writing(x)}
        /\ record' = [i \in Invoice |-> NoRecord]
        /\ dropped' = dropped \cup {i \in Invoice : record[i] # NoRecord}
        /\ UNCHANGED <<epoch, lightning, tokens, held, receipts, quoted>>
    BY DEF RestartGateway, Restart, Writing
  <1>2. Requests'
    BY <1>1, IdleOK DEF Requests, Request
  <1>3. faults' \in 0..MaxFaults
    BY ItemAssumption DEF RestartGateway, Restart, Fault, IInv, StoreTypes
  <1>4. StoreTypes'
    BY <1>1, <1>3 DEF IInv, StoreTypes, LoadMeta
  <1>5. Manifests'
    BY <1>1 DEF IInv, Manifests, Complete, LoadMeta
  <1>6. IntactUnlessCut'
    <2>1. ASSUME NEW x \in Item, disk[x] = "other"
          PROVE  x \in cut'
      BY <1>1, <2>1 DEF IInv, IntactUnlessCut
    <2>2. ASSUME NEW x \in acked
          PROVE  disk[x] # "absent" /\ (x \in Block \cup loaded' \/ x \in cut')
      <3>1. x \in Item /\ disk[x] \in Content /\ disk[x] # "absent"
        BY <2>2 DEF IInv, IntactUnlessCut, StoreTypes
      <3>2. CASE disk[x] = "whole"
        BY <1>1, <3>1, <3>2 DEF LoadMeta, Item
      <3>3. CASE disk[x] = "other"
        BY <2>1, <3>1, <3>3
      <3>4. QED
        BY <3>1, <3>2, <3>3 DEF Content
    <2>3. QED
      BY <1>1, <2>1, <2>2 DEF IntactUnlessCut
  <1>7. SaleTypes' /\ TokensAreSales'
    BY <1>1 DEF IInv, Ledger, SaleTypes, TokensAreSales
  <1>8. Records'
    BY <1>1 DEF IInv, Ledger, Records
  <1>9. QED
    BY <1>2, <1>4, <1>5, <1>6, <1>7, <1>8 DEF IInv, Ledger
-------------------------------------------------------------------------------
(* The sale.                                                               *)

\* A request that was not writing goes on, or none does; the files stay.
LEMMA SaleGoes ==
  ASSUME IInv, UNCHANGED storeVars, Ledger',
         \A i \in Invoice : quoted[i] # NoRecord => quoted'[i] = quoted[i],
         tokens \subseteq tokens',
         NEW p \in Slot, NEW r,
         \/ /\ Goto(p, r)
            /\ req[p].pc # "write"
            /\ ReqOK(r, disk, loaded, quoted', tokens')
         \/ UNCHANGED req
  PROVE  IInv'
  <1>1. UNCHANGED <<disk, loaded>>
    BY DEF storeVars
  <1>2. Grows(disk', loaded', quoted', tokens')
    BY <1>1 DEF Grows
  <1>3. Requests'
    BY <1>1, <1>2, RequestGoes, RequestsStay
  <1>4. StoreTypes' /\ Manifests' /\ IntactUnlessCut'
    BY StoreStays
  <1>5. QED
    BY <1>3, <1>4 DEF IInv

LEMMA LedgerGoes ==
  ASSUME IInv, UNCHANGED <<req, storeVars>>, Ledger',
         \A i \in Invoice : quoted[i] # NoRecord => quoted'[i] = quoted[i],
         tokens \subseteq tokens'
  PROVE  IInv'
  <1>1. UNCHANGED <<disk, loaded, acked, cut, faults>>
    BY DEF storeVars
  <1>2. Requests'
    BY <1>1, RequestsStay DEF Grows
  <1>3. StoreTypes' /\ Manifests' /\ IntactUnlessCut'
    BY <1>1 DEF IInv, StoreTypes, Manifests, Complete, IntactUnlessCut, Writing
  <1>4. QED
    BY <1>2, <1>3 DEF IInv

LEMMA GateOK ==
  ASSUME IInv, NEW p \in Slot, NEW b \in Block, NEW i \in Invoice \cup {NoInvoice},
         disk[b] # "absent", Gate(p, b, i), req[p].pc # "write",
         UNCHANGED <<storeVars, saleVars>>
  PROVE  IInv'
  <1>1. CASE i = NoInvoice
    <2> DEFINE r == [pc |-> "invoice", item |-> b]
    <2>1. ReqOK(r, disk, loaded, quoted, tokens)
      BY DEF ReqOK, Request
    <2>2. QED
      BY <1>1, <2>1, OnlyGoes DEF Gate
  <1>2. CASE i # NoInvoice /\ PaidFor(i, b)
    <2> DEFINE r == [pc |-> "read", item |-> b, invoice |-> i, terms |-> record[i]]
    <2>1. i \in Invoice /\ record[i] # NoRecord /\ record[i].block = b
      BY <1>2 DEF PaidFor
    <2>2. record[i] \in Record /\ quoted[i] = record[i]
      BY <2>1 DEF IInv, Ledger, SaleTypes, Records
    <2>3. r \in [pc : {"read"}, item : Block, invoice : Invoice, terms : Record]
      BY <2>1, <2>2
    <2>4. ReqOK(r, disk, loaded, quoted, tokens)
      BY <2>1, <2>2, <2>3 DEF ReqOK, Request
    <2>5. QED
      BY <1>2, <2>4, OnlyGoes DEF Gate
  <1>3. CASE i # NoInvoice /\ ~PaidFor(i, b)
    BY <1>3, IdleOK, OnlyGoes DEF Gate, Reply
  <1>4. QED
    BY <1>1, <1>2, <1>3

LEMMA GetBlockOK ==
  ASSUME IInv, NEW p \in Slot, NEW b \in Block, NEW i \in Invoice \cup {NoInvoice},
         GetBlock(p, b, i)
  PROVE  IInv'
  <1> DEFINE r == [pc |-> "exists", item |-> b, invoice |-> i]
  <1>1. ReqOK(r, disk, loaded, quoted, tokens)
    BY DEF ReqOK, Request
  <1>2. QED
    BY <1>1, FreeIdle, OnlyGoes DEF GetBlock

LEMMA BlockExistsOK ==
  ASSUME IInv, NEW p \in Slot, BlockExists(p)
  PROVE  IInv'
  <1> DEFINE r == req[p]
             s == [r EXCEPT !.pc = "preview"]
  <1>1. /\ r.pc = "exists"
        /\ r \in [pc : {"exists", "preview"}, item : Block, invoice : Invoice \cup {NoInvoice}]
        /\ UNCHANGED <<storeVars, saleVars>>
    BY RequestOf, RequestCases DEF BlockExists
  <1>2. CASE disk[r.item] = "absent"
    BY <1>1, <1>2, IdleOK, OnlyGoes DEF BlockExists, Reply
  <1>3. CASE disk[r.item] # "absent" /\ FreePreview
    <2>1. s \in [pc : {"exists", "preview"}, item : Block, invoice : Invoice \cup {NoInvoice}]
          /\ s.pc = "preview" /\ s.item = r.item
      BY <1>1
    <2>2. Goto(p, s)
      BY <1>3 DEF BlockExists
    <2> HIDE DEF s
    <2>3. ReqOK(s, disk, loaded, quoted, tokens)
      BY <1>3, <2>1 DEF ReqOK, Request
    <2>4. QED
      BY <1>1, <2>2, <2>3, OnlyGoes
  <1>4. CASE disk[r.item] # "absent" /\ ~FreePreview
    BY <1>1, <1>4, GateOK DEF BlockExists
  <1>5. QED
    BY <1>2, <1>3, <1>4

LEMMA ReadPreviewOK ==
  ASSUME IInv, NEW p \in Slot, ReadPreview(p)
  PROVE  IInv'
  <1> DEFINE r == req[p]
  <1>1. /\ r.pc = "preview"
        /\ r \in [pc : {"exists", "preview"}, item : Block, invoice : Invoice \cup {NoInvoice}]
        /\ disk[r.item] # "absent"
        /\ UNCHANGED <<storeVars, saleVars>>
    BY RequestOf, RequestCases DEF ReadPreview, ReqOK
  <1>2. CASE disk[r.item] = "other" \/ r.item \in Small
    BY <1>1, <1>2, IdleOK, OnlyGoes DEF ReadPreview, Reply
  <1>3. CASE ~(disk[r.item] = "other" \/ r.item \in Small)
    BY <1>1, <1>3, GateOK DEF ReadPreview
  <1>4. QED
    BY <1>2, <1>3

LEMMA CreateInvoiceOK ==
  ASSUME IInv, NEW p \in Slot, NEW i \in Invoice, CreateInvoice(p, i)
  PROVE  IInv'
  <1> DEFINE r == [block |-> req[p].item, epoch |-> epoch]
  <1>1. req[p].pc = "invoice" /\ req[p].item \in Block /\ epoch \in Epoch
    BY RequestOf, RequestCases DEF CreateInvoice, IInv, Ledger, SaleTypes
  <1>2. r \in Record
    BY <1>1 DEF Record
  <1>3. /\ lightning[i] = "none"
        /\ lightning' = [lightning EXCEPT ![i] = "open"]
        /\ record' = [record EXCEPT ![i] = r]
        /\ quoted' = [quoted EXCEPT ![i] = r]
        /\ Goto(p, Idle)
        /\ UNCHANGED <<storeVars, epoch, tokens, held, receipts, dropped>>
    BY DEF CreateInvoice, Reply
  <1>4. r # NoRecord
    BY <1>2, NoRecordAssumption
  <1> HIDE DEF r
  <1>5. /\ record \in [Invoice -> Record \cup {NoRecord}]
        /\ quoted \in [Invoice -> Record \cup {NoRecord}]
        /\ lightning \in [Invoice -> {"none", "open", "paid", "lapsed"}]
        /\ quoted[i] = NoRecord
    BY <1>3 DEF IInv, Ledger, SaleTypes, Records
  <1>6. SaleTypes'
    BY <1>2, <1>3, <1>5 DEF IInv, Ledger, SaleTypes
  <1>7. \A j \in Invoice : j # i => /\ quoted'[j] = quoted[j]
                                    /\ record'[j] = record[j]
                                    /\ lightning'[j] = lightning[j]
    BY <1>3, <1>5
  <1>8. quoted'[i] = r /\ record'[i] = r /\ lightning'[i] = "open"
    BY <1>3, <1>5
  <1>9. Records'
    BY <1>3, <1>4, <1>7, <1>8 DEF IInv, Ledger, Records
  <1>10. TokensAreSales'
    <2>1. ASSUME NEW t \in tokens
          PROVE  t.invoice \in Invoice /\ t.invoice # i
      BY <1>3 DEF IInv, Ledger, SaleTypes, TokensAreSales, Token
    <2>2. QED
      BY <1>3, <1>7, <2>1 DEF IInv, Ledger, TokensAreSales
  <1>11. QED
    BY <1>1, <1>3, <1>5, <1>6, <1>7, <1>9, <1>10, IdleOK, SaleGoes DEF Ledger

LEMMA ReadPaidOK ==
  ASSUME IInv, NEW p \in Slot, ReadPaid(p)
  PROVE  IInv'
  <1> DEFINE r == req[p]
             s == [pc |-> "sign", item |-> r.item, invoice |-> r.invoice,
                   terms |-> r.terms, hash |-> disk[r.item]]
  <1>1. /\ r.pc = "read"
        /\ r \in [pc : {"read"}, item : Block, invoice : Invoice, terms : Record]
        /\ disk[r.item] # "absent"
        /\ quoted[r.invoice] = r.terms
        /\ r.terms.block = r.item
    BY RequestOf, RequestCases DEF ReadPaid, ReqOK
  <1>2. disk[r.item] \in {"other", "whole"}
    BY <1>1 DEF IInv, StoreTypes, Item, Content
  <1>3. s \in [pc : {"sign"}, item : Block, invoice : Invoice, terms : Record,
               hash : {"other", "whole"}]
    BY <1>1, <1>2
  <1>4. ReqOK(s, disk, loaded, quoted, tokens)
    BY <1>1, <1>3 DEF ReqOK, Request
  <1>5. Goto(p, s) /\ UNCHANGED <<storeVars, saleVars>>
    BY DEF ReadPaid
  <1>6. QED
    BY <1>1, <1>4, <1>5, OnlyGoes

\* The token the mint signs is for the sale that was quoted.
SignedToken(p) ==
  [invoice |-> req[p].invoice, block |-> req[p].item, epoch |-> req[p].terms.epoch,
   hash |-> req[p].hash]

LEMMA SignedIsSale ==
  ASSUME IInv, NEW p \in Slot, req[p].pc = "sign"
  PROVE  /\ SignedToken(p) \in Token
         /\ quoted[req[p].invoice] = [block |-> SignedToken(p).block,
                                      epoch |-> SignedToken(p).epoch]
  <1> DEFINE r == req[p]
  <1>1. /\ r \in [pc : {"sign"}, item : Block, invoice : Invoice, terms : Record,
                  hash : {"other", "whole"}]
        /\ quoted[r.invoice] = r.terms
        /\ r.terms.block = r.item
    BY RequestOf, RequestCases DEF ReqOK
  <1>2. r.terms \in Record /\ r.terms.epoch \in Epoch
    BY <1>1 DEF Record
  <1>3. SignedToken(p) \in Token
    BY <1>1, <1>2 DEF SignedToken, Token
  <1>4. r.terms = [block |-> r.terms.block, epoch |-> r.terms.epoch]
    BY <1>2 DEF Record
  <1>5. QED
    BY <1>1, <1>3, <1>4 DEF SignedToken

LEMMA SignReceiptOK ==
  ASSUME IInv, NEW p \in Slot, SignReceipt(p)
  PROVE  IInv'
  <1> DEFINE t == SignedToken(p)
             s == [pc |-> "signed", token |-> t]
  <1>1. /\ req[p].pc = "sign"
        /\ lightning[t.invoice] = "paid"
        /\ tokens' = tokens \cup {t}
        /\ Goto(p, s)
        /\ UNCHANGED <<storeVars, epoch, record, lightning, held, receipts, quoted, dropped>>
    BY DEF SignReceipt, Settled, SignedToken
  <1>2. t \in Token /\ quoted[t.invoice] = [block |-> t.block, epoch |-> t.epoch]
    BY <1>1, SignedIsSale DEF SignedToken
  <1> HIDE DEF t
  <1>3. SaleTypes'
    BY <1>1, <1>2 DEF IInv, Ledger, SaleTypes
  <1>4. Records'
    BY <1>1 DEF IInv, Ledger, Records
  <1>5. TokensAreSales'
    BY <1>1, <1>2 DEF IInv, Ledger, TokensAreSales
  <1>6. ReqOK(s, disk, loaded, quoted', tokens')
    BY <1>1, <1>2 DEF ReqOK, Request
  <1>7. QED
    BY <1>1, <1>3, <1>4, <1>5, <1>6, SaleGoes DEF Ledger
LEMMA DeliverOK ==
  ASSUME IInv, NEW p \in Slot, Deliver(p)
  PROVE  IInv'
  <1> DEFINE t == req[p].token
             i == t.invoice
  <1>1. /\ req[p].pc = "signed"
        /\ t \in tokens
        /\ i \in Invoice
    BY RequestOf, RequestCases DEF Deliver, ReqOK, Token
  <1>2. /\ record' = [record EXCEPT ![i] = NoRecord]
        /\ held' \subseteq held \cup {t}
        /\ Goto(p, Idle)
        /\ UNCHANGED <<storeVars, epoch, lightning, tokens, receipts, quoted, dropped>>
    BY DEF Deliver, Reply
  <1> HIDE DEF t
  <1>3. SaleTypes'
    BY <1>1, <1>2 DEF IInv, Ledger, SaleTypes
  <1>4. \A j \in Invoice : record'[j] = IF j = i THEN NoRecord ELSE record[j]
    BY <1>2 DEF IInv, Ledger, SaleTypes
  <1>5. Records'
    BY <1>1, <1>2, <1>4 DEF IInv, Ledger, Records
  <1>6. TokensAreSales'
    BY <1>2 DEF IInv, Ledger, TokensAreSales
  <1>7. QED
    BY <1>1, <1>2, <1>3, <1>5, <1>6, IdleOK, SaleGoes DEF Ledger

LEMMA GetBlockFailsOK ==
  ASSUME IInv, NEW p \in Slot, GetBlockFails(p)
  PROVE  IInv'
  BY IdleOK, OnlyGoes DEF GetBlockFails, Reply

LEMMA GetStep ==
  ASSUME IInv, NEW p \in Slot, GetNext(p)
  PROVE  IInv'
  BY GetBlockOK, BlockExistsOK, ReadPreviewOK, CreateInvoiceOK, ReadPaidOK, SignReceiptOK,
     DeliverOK, GetBlockFailsOK DEF GetNext

\* An invoice that is open is paid or lapses.
LEMMA InvoiceEnds ==
  ASSUME IInv, NEW i \in Invoice, NEW state \in {"paid", "lapsed"},
         lightning[i] = "open", lightning' = [lightning EXCEPT ![i] = state],
         UNCHANGED <<req, storeVars, epoch, record, tokens, held, receipts, quoted, dropped>>
  PROVE  IInv'
  <1>1. \A j \in Invoice : lightning'[j] = IF j = i THEN state ELSE lightning[j]
    BY DEF IInv, Ledger, SaleTypes
  <1>2. SaleTypes'
    BY DEF IInv, Ledger, SaleTypes
  <1>3. Records'
    BY <1>1 DEF IInv, Ledger, Records
  <1>4. TokensAreSales'
    <2>1. ASSUME NEW t \in tokens
          PROVE  lightning'[t.invoice] = "paid"
      BY <1>1 DEF IInv, Ledger, SaleTypes, TokensAreSales, Token
    <2>2. QED
      BY <2>1 DEF IInv, Ledger, TokensAreSales
  <1>5. QED
    BY <1>2, <1>3, <1>4, LedgerGoes DEF Ledger

LEMMA ExpireRecordOK ==
  ASSUME IInv, NEW i \in Invoice, ExpireRecord(i)
  PROVE  IInv'
  <1>1. /\ record' = [record EXCEPT ![i] = NoRecord]
        /\ dropped' = dropped \cup {i}
        /\ UNCHANGED <<req, storeVars, epoch, lightning, tokens, held, receipts, quoted>>
    BY DEF ExpireRecord
  <1>2. SaleTypes'
    BY <1>1 DEF IInv, Ledger, SaleTypes
  <1>3. \A j \in Invoice : record'[j] = IF j = i THEN NoRecord ELSE record[j]
    BY <1>1 DEF IInv, Ledger, SaleTypes
  <1>4. Records'
    BY <1>1, <1>3 DEF IInv, Ledger, Records
  <1>5. TokensAreSales'
    BY <1>1 DEF IInv, Ledger, TokensAreSales
  <1>6. QED
    BY <1>1, <1>2, <1>4, <1>5, LedgerGoes DEF Ledger

\* Steps that change the receipts or the clock at most.
LEMMA OthersStay ==
  ASSUME IInv, UNCHANGED <<req, storeVars, record, lightning, tokens, held, quoted, dropped>>,
         epoch' \in Epoch, receipts' \subseteq tokens
  PROVE  IInv'
  <1>1. Ledger'
    BY DEF IInv, Ledger, SaleTypes, Records, TokensAreSales
  <1>2. QED
    BY <1>1, LedgerGoes

LEMMA LedgerStep ==
  ASSUME IInv, LedgerNext
  PROVE  IInv'
  <1>1. ASSUME NEW i \in Invoice, PayInvoice(i) \/ LapseInvoice(i) \/ ExpireRecord(i)
        PROVE  IInv'
    BY <1>1, InvoiceEnds, ExpireRecordOK DEF PayInvoice, LapseInvoice
  <1>2. ASSUME NEW t \in held, NEW e \in Epoch, SubmitReceipt(t, e)
        PROVE  IInv'
    BY <1>2, OthersStay DEF SubmitReceipt, TokenValid, IInv, Ledger, SaleTypes
  <1>3. ASSUME NextEpoch
        PROVE  IInv'
    <2>1. epoch' \in Epoch
      BY <1>3, SaleAssumption DEF NextEpoch, Epoch, IInv, Ledger, SaleTypes
    <2>2. QED
      BY <1>3, <2>1, OthersStay DEF NextEpoch, IInv, Ledger, SaleTypes
  <1>4. QED
    BY <1>1, <1>2, <1>3 DEF LedgerNext

LEMMA SaleInitOK == ASSUME SaleInit PROVE IInv
  <1>1. 0 \in Epoch /\ 0 \in 0..MaxFaults
    BY ItemAssumption, SaleAssumption DEF Epoch
  <1>2. Requests
    BY IdleOK DEF SaleInit, StoreInit, Requests, Request
  <1>3. StoreTypes /\ IntactUnlessCut
    BY <1>1 DEF SaleInit, StoreInit, StoreTypes, Content, IntactUnlessCut
  <1>4. Manifests
    BY DEF SaleInit, StoreInit, Manifests, Item, Meta
  <1>5. Ledger
    BY <1>1 DEF SaleInit, Ledger, SaleTypes, Records, TokensAreSales
  <1>6. QED
    BY <1>2, <1>3, <1>4, <1>5 DEF IInv

LEMMA GatewayStep ==
  ASSUME IInv, [GatewayNext]_gatewayVars
  PROVE  IInv'
  <1>1. ASSUME UNCHANGED gatewayVars
        PROVE  IInv'
    <2>1. UNCHANGED <<req, storeVars, saleVars>>
      BY <1>1 DEF gatewayVars
    <2>2. Ledger'
      BY <2>1, LedgerStays
    <2>3. QED
      BY <2>1, <2>2, LedgerGoes DEF saleVars
  <1>2. QED
    BY <1>1, PutStep, GetStep, LedgerStep, RestartOK DEF GatewayNext

(***************************************************************************)
(* The inductive invariant of the gateway: what each request rests on when *)
(* it goes on after an await, besides the properties below.                *)
(***************************************************************************)
THEOREM GatewayInvariant == Spec => []IInv
  BY SaleInitOK, GatewayStep, PTL DEF Spec

\* Type correctness of the storage, the sale and the requests in flight.
THEOREM GatewayTypes == Spec => []GatewayTypeOK
  <1>1. ASSUME IInv PROVE GatewayTypeOK
    BY <1>1 DEF IInv, Requests, StoreTypes, Ledger, SaleTypes, GatewayTypeOK
  <1>2. QED
    BY <1>1, GatewayInvariant, PTL

(***************************************************************************)
(* BlockStore.put and MetadataStore.put: a file holds its item, and what   *)
(* was answered 201 stays, unless a write was cut; for any number of       *)
(* requests at a time and any number of faults.                            *)
(***************************************************************************)
THEOREM FilesIntact == Spec => []IntactUnlessCut
  <1>1. ASSUME IInv PROVE IntactUnlessCut
    BY <1>1 DEF IInv
  <1>2. QED
    BY <1>1, GatewayInvariant, PTL

(***************************************************************************)
(* PUT /file and PUT /asset: what the read routes answer leads on to what  *)
(* is there, for manifests of any length.                                  *)
(***************************************************************************)
THEOREM ManifestsComplete == Spec => []ServedIsComplete
  <1>1. ASSUME IInv PROVE ServedIsComplete
    <2>1. ASSUME NEW a \in Asset, OriginalOf[a] \in acked \ cut
          PROVE  GetCid(OriginalOf[a]) = "file"
      <3>1. OriginalOf[a] \in File
        BY ItemAssumption
      <3>2. OriginalOf[a] \notin Block /\ OriginalOf[a] \notin Asset
        BY <3>1, ItemAssumption
      <3>3. OriginalOf[a] \in loaded
        BY <1>1, <2>1, <3>2 DEF IInv, IntactUnlessCut
      <3>4. QED
        BY <3>1, <3>2, <3>3 DEF GetCid, GetAsset, GetFile
    <2>2. ASSUME NEW f \in File, GetCid(f) = "file", NEW i \in 1..Len(BlocksOf[f])
          PROVE  GetCid(BlocksOf[f][i]) # "absent"
      <3>1. f \notin Block
        BY ItemAssumption
      <3>2. f \in loaded
        BY <1>1, <2>2, <3>1 DEF GetCid, GetAsset, GetFile
      <3>3. BlocksOf[f][i] \in Block /\ disk[BlocksOf[f][i]] # "absent"
        BY <1>1, <3>2, BlocksAreItems DEF IInv, Manifests, Complete
      <3>4. BlocksOf[f][i] \notin File \cup Asset
        BY <3>3, ItemAssumption
      <3>5. QED
        BY <3>3, <3>4 DEF GetCid, GetAsset, GetFile
    <2>3. QED
      BY <2>1, <2>2 DEF ServedIsComplete
  <1>2. QED
    BY <1>1, GatewayInvariant, PTL

\* GET /block and POST /sign: a token is for a payment, on the quoted terms.
THEOREM TokensArePaid == Spec => []TokensAreSales
  <1>1. ASSUME IInv PROVE TokensAreSales
    BY <1>1 DEF IInv, Ledger
  <1>2. QED
    BY <1>1, GatewayInvariant, PTL

\* GET /block: only expiry, a restart or the token itself ends a payer's claim.
THEOREM ClaimsStay == Spec => []PaidStaysClaimable
  <1>1. ASSUME IInv PROVE PaidStaysClaimable
    BY <1>1 DEF IInv, Ledger, Records, PaidStaysClaimable
  <1>2. QED
    BY <1>1, GatewayInvariant, PTL
-------------------------------------------------------------------------------
(* The gateway sells as BlockSale promises.                                *)

LEMMA SalesStay ==
  ASSUME UNCHANGED <<quoted, lightning, tokens, receipts>>
  PROVE  UNCHANGED Sale!sales
  BY DEF Sale!sales, SaleTable

LEMMA InitMaps == ASSUME SaleInit PROVE Sale!Init
  BY DEF SaleInit, Sale!Init, SaleTable

LEMMA CreateInvoiceMaps ==
  ASSUME IInv, NEW p \in Slot, NEW i \in Invoice, CreateInvoice(p, i)
  PROVE  Sale!Next
  <1> DEFINE b == req[p].item
             r == [block |-> b, epoch |-> epoch]
  <1>1. b \in Block /\ epoch \in Epoch
    BY RequestOf, RequestCases DEF CreateInvoice, IInv, Ledger, SaleTypes
  <1>2. /\ quoted \in [Invoice -> Record \cup {NoRecord}]
        /\ lightning \in [Invoice -> {"none", "open", "paid", "lapsed"}]
        /\ quoted[i] = NoRecord
    BY DEF CreateInvoice, IInv, Ledger, SaleTypes, Records
  <1>3. /\ quoted' = [quoted EXCEPT ![i] = r]
        /\ lightning' = [lightning EXCEPT ![i] = "open"]
        /\ UNCHANGED <<tokens, receipts>>
    BY DEF CreateInvoice
  <1>4. r # NoRecord
    BY <1>1, NoRecordAssumption DEF Record
  <1>5. SaleTable[i] = NoRecord
    BY <1>2 DEF SaleTable
  <1>6. SaleTable' = [SaleTable EXCEPT ![i] = [block |-> b, epoch |-> epoch, paid |-> FALSE]]
    <2>1. ASSUME NEW j \in Invoice
          PROVE  SaleTable'[j] = IF j = i THEN [block |-> b, epoch |-> epoch, paid |-> FALSE]
                                 ELSE SaleTable[j]
      <3>1. CASE j = i
        <4>1. quoted'[i] = r /\ lightning'[i] = "open"
          BY <1>2, <1>3
        <4>2. (lightning'[i] = "paid") = FALSE
          BY <4>1
        <4>3. SaleTable'[i] = [block |-> quoted'[i].block, epoch |-> quoted'[i].epoch,
                               paid |-> lightning'[i] = "paid"]
          BY <1>4, <4>1 DEF SaleTable
        <4>4. quoted'[i].block = b /\ quoted'[i].epoch = epoch
          BY <4>1
        <4>5. SaleTable'[i] = [block |-> b, epoch |-> epoch, paid |-> FALSE]
          BY <4>2, <4>3, <4>4, Zenon
        <4>6. QED
          BY <3>1, <4>5
      <3>2. CASE j # i
        <4>1. quoted'[j] = quoted[j] /\ lightning'[j] = lightning[j]
          BY <1>2, <1>3, <3>2
        <4>2. QED
          BY <3>2, <4>1 DEF SaleTable
      <3>3. QED
        BY <3>1, <3>2
    <2>2. QED
      BY <2>1 DEF SaleTable
  <1>7. Sale!Quote(i, b, epoch)
    BY <1>3, <1>5, <1>6 DEF Sale!Quote
  <1>8. QED
    BY <1>1, <1>7 DEF Sale!Next

\* A sale of which the table holds the record q.
LEMMA SaleOf ==
  ASSUME IInv, NEW i \in Invoice, quoted[i] # NoRecord
  PROVE  /\ SaleTable[i] = [block |-> quoted[i].block, epoch |-> quoted[i].epoch,
                            paid |-> lightning[i] = "paid"]
         /\ SaleTable[i] # NoRecord
  <1>1. quoted[i] \in Record
    BY DEF IInv, Ledger, SaleTypes
  <1>2. SaleTable[i] = [block |-> quoted[i].block, epoch |-> quoted[i].epoch,
                        paid |-> lightning[i] = "paid"]
    BY DEF SaleTable
  <1>3. SaleTable[i] \in [block : Block, epoch : Epoch, paid : BOOLEAN]
    BY <1>1, <1>2 DEF Record
  <1>4. QED
    BY <1>2, <1>3, NoRecordAssumption

LEMMA PayInvoiceMaps ==
  ASSUME IInv, NEW i \in Invoice, PayInvoice(i)
  PROVE  Sale!Next
  <1>1. /\ lightning[i] = "open"
        /\ lightning' = [lightning EXCEPT ![i] = "paid"]
        /\ UNCHANGED <<quoted, tokens, receipts>>
        /\ lightning \in [Invoice -> {"none", "open", "paid", "lapsed"}]
    BY DEF PayInvoice, IInv, Ledger, SaleTypes
  <1>2. quoted[i] # NoRecord
    BY <1>1 DEF IInv, Ledger, Records
  <1>3. /\ SaleTable[i] = [block |-> quoted[i].block, epoch |-> quoted[i].epoch, paid |-> FALSE]
        /\ SaleTable[i] # NoRecord
    BY <1>1, <1>2, SaleOf
  <1>4. SaleTable' = [SaleTable EXCEPT ![i].paid = TRUE]
    <2>1. ASSUME NEW j \in Invoice
          PROVE  SaleTable'[j] = IF j = i THEN [SaleTable[i] EXCEPT !.paid = TRUE]
                                 ELSE SaleTable[j]
      <3>1. CASE j = i
        <4>1. quoted'[i] = quoted[i] /\ lightning'[i] = "paid"
          BY <1>1
        <4>2. SaleTable'[i] = [block |-> quoted[i].block, epoch |-> quoted[i].epoch,
                               paid |-> TRUE]
          BY <1>2, <4>1 DEF SaleTable
        <4>3. [SaleTable[i] EXCEPT !.paid = TRUE] =
                [block |-> quoted[i].block, epoch |-> quoted[i].epoch, paid |-> TRUE]
          <5> DEFINE yes == TRUE
                     no == FALSE
          <5>1. SaleTable[i] = [block |-> quoted[i].block, epoch |-> quoted[i].epoch,
                                paid |-> no]
            BY <1>3
          <5> HIDE DEF yes, no
          <5>2. [SaleTable[i] EXCEPT !.paid = yes] =
                  [block |-> quoted[i].block, epoch |-> quoted[i].epoch, paid |-> yes]
            BY <5>1
          <5>3. QED
            BY <5>2, Zenon DEF yes
        <4>4. QED
          BY <3>1, <4>2, <4>3, Zenon
      <3>2. CASE j # i
        <4>1. quoted'[j] = quoted[j] /\ lightning'[j] = lightning[j]
          BY <1>1, <3>2
        <4>2. QED
          BY <3>2, <4>1 DEF SaleTable
      <3>3. QED
        BY <3>1, <3>2
    <2>2. /\ SaleTable = [j \in Invoice |-> SaleTable[j]]
          /\ SaleTable' = [j \in Invoice |-> SaleTable'[j]]
      BY DEF SaleTable
    <2>3. QED
      BY <2>1, <2>2
  <1>5. Sale!Pay(i)
    BY <1>1, <1>3, <1>4 DEF Sale!Pay
  <1>6. QED
    BY <1>5 DEF Sale!Next

LEMMA LapseInvoiceMaps ==
  ASSUME IInv, NEW i \in Invoice, LapseInvoice(i)
  PROVE  UNCHANGED Sale!sales
  <1>1. /\ lightning[i] = "open"
        /\ lightning' = [lightning EXCEPT ![i] = "lapsed"]
        /\ UNCHANGED <<quoted, tokens, receipts>>
        /\ lightning \in [Invoice -> {"none", "open", "paid", "lapsed"}]
    BY DEF LapseInvoice, IInv, Ledger, SaleTypes
  <1>2. \A j \in Invoice : (lightning'[j] = "paid") = (lightning[j] = "paid")
    BY <1>1
  <1>3. \A j \in Invoice : SaleTable'[j] = SaleTable[j]
    BY <1>1, <1>2 DEF SaleTable
  <1>4. SaleTable' = SaleTable
    BY <1>3 DEF SaleTable
  <1>5. QED
    BY <1>1, <1>4 DEF Sale!sales

LEMMA SignReceiptMaps ==
  ASSUME IInv, NEW p \in Slot, SignReceipt(p)
  PROVE  Sale!Next
  <1> DEFINE t == SignedToken(p)
             i == req[p].invoice
  <1>1. /\ req[p].pc = "sign"
        /\ lightning[i] = "paid"
        /\ tokens' = tokens \cup {t}
        /\ UNCHANGED <<lightning, receipts, quoted>>
    BY DEF SignReceipt, Settled, SignedToken
  <1>2. /\ t \in Token
        /\ t.invoice = i
        /\ i \in Invoice
        /\ quoted[i] = [block |-> t.block, epoch |-> t.epoch]
    BY <1>1, SignedIsSale DEF SignedToken, Token
  <1> HIDE DEF t, i
  <1>3. quoted[i] # NoRecord
    BY <1>1, <1>2 DEF IInv, Ledger, Records
  <1>4. SaleTable[i] = [block |-> t.block, epoch |-> t.epoch, paid |-> TRUE]
        /\ SaleTable[i] # NoRecord
    <2>1. (lightning[i] = "paid") = TRUE
      BY <1>1
    <2>2. quoted[i].block = t.block /\ quoted[i].epoch = t.epoch
      BY <1>2
    <2>3. QED
      BY <1>2, <1>3, <2>1, <2>2, SaleOf, Zenon
  <1>5. SaleTable' = SaleTable
    BY <1>1 DEF SaleTable
  <1>6. Sale!Sign(t)
    BY <1>1, <1>2, <1>4, <1>5 DEF Sale!Sign
  <1>7. t \in Sale!Receipt
    BY <1>2 DEF Token, Sale!Receipt
  <1>8. QED
    BY <1>6, <1>7 DEF Sale!Next

LEMMA SubmitReceiptMaps ==
  ASSUME IInv, NEW t \in held, NEW e \in Epoch, SubmitReceipt(t, e)
  PROVE  Sale!Next
  <1> DEFINE r == [t EXCEPT !.epoch = e]
  <1>1. /\ r \in tokens
        /\ \A s \in receipts : s.invoice # r.invoice
        /\ receipts' = receipts \cup {r}
        /\ UNCHANGED <<quoted, lightning, tokens>>
    BY DEF SubmitReceipt, TokenValid, PaymentUnused
  <1> HIDE DEF r
  <1>2. SaleTable' = SaleTable
    BY <1>1 DEF SaleTable
  <1>3. Sale!Credit(r)
    BY <1>1, <1>2 DEF Sale!Credit
  <1>4. r \in Sale!Receipt
    BY <1>1 DEF IInv, Ledger, SaleTypes, Token, Sale!Receipt
  <1>5. QED
    BY <1>3, <1>4 DEF Sale!Next

LEMMA GateMaps ==
  ASSUME UNCHANGED saleVars \/ UNCHANGED <<quoted, lightning, tokens, receipts>>
  PROVE  UNCHANGED Sale!sales
  BY SalesStay DEF saleVars

LEMMA StepMaps ==
  ASSUME IInv, [GatewayNext]_gatewayVars
  PROVE  [Sale!Next]_(Sale!sales)
  <1>1. ASSUME NEW p \in Slot, GetNext(p)
        PROVE  [Sale!Next]_(Sale!sales)
    <2>1. ASSUME NEW i \in Invoice, CreateInvoice(p, i)
          PROVE  Sale!Next
      BY <2>1, CreateInvoiceMaps
    <2>2. ASSUME SignReceipt(p)
          PROVE  Sale!Next
      BY <2>2, SignReceiptMaps
    <2>3. ASSUME \/ \E b \in Block, i \in Invoice \cup {NoInvoice} : GetBlock(p, b, i)
                 \/ BlockExists(p) \/ ReadPreview(p) \/ ReadPaid(p)
                 \/ Deliver(p) \/ GetBlockFails(p)
          PROVE  UNCHANGED Sale!sales
      BY <2>3, GateMaps DEF GetBlock, BlockExists, ReadPreview, ReadPaid, Deliver,
                            GetBlockFails
    <2>4. QED
      BY <1>1, <2>1, <2>2, <2>3 DEF GetNext
  <1>2. ASSUME LedgerNext
        PROVE  [Sale!Next]_(Sale!sales)
    <2>1. ASSUME NEW i \in Invoice, PayInvoice(i) \/ LapseInvoice(i) \/ ExpireRecord(i)
          PROVE  [Sale!Next]_(Sale!sales)
      BY <2>1, PayInvoiceMaps, LapseInvoiceMaps, GateMaps DEF ExpireRecord
    <2>2. ASSUME NEW t \in held, NEW e \in Epoch, SubmitReceipt(t, e)
          PROVE  Sale!Next
      BY <2>2, SubmitReceiptMaps
    <2>3. ASSUME NextEpoch
          PROVE  UNCHANGED Sale!sales
      BY <2>3, GateMaps DEF NextEpoch
    <2>4. QED
      BY <1>2, <2>1, <2>2, <2>3 DEF LedgerNext
  <1>3. ASSUME RestartGateway
        PROVE  UNCHANGED Sale!sales
    BY <1>3, GateMaps DEF RestartGateway
  <1>4. ASSUME NEW p \in Slot, UNCHANGED saleVars
        PROVE  UNCHANGED Sale!sales
    BY <1>4, GateMaps
  <1>5. ASSUME UNCHANGED gatewayVars
        PROVE  UNCHANGED Sale!sales
    BY <1>5, GateMaps DEF gatewayVars
  <1>6. QED
    BY <1>1, <1>2, <1>3, <1>4, <1>5 DEF GatewayNext

(***************************************************************************)
(* Gateway, mint and coordinator together implement BlockSale: the quote   *)
(* is the invoice, the payment Lightning's, the receipt the mint's and the *)
(* credit the coordinator's, and every other step, restarts included,      *)
(* leaves the sales alone.                                                 *)
(***************************************************************************)
THEOREM GatewaySells == Spec => SellsBlocks
  <1>1. SaleInit => Sale!Init
    BY InitMaps
  <1>2. IInv /\ [GatewayNext]_gatewayVars => [Sale!Next]_(Sale!sales)
    BY StepMaps
  <1>3. QED
    BY <1>1, <1>2, GatewayInvariant, PTL DEF Spec, SellsBlocks, Sale!Spec

===============================================================================
