----------------------------- MODULE GatewayStore -----------------------------
(***************************************************************************)
(* The storage of a gateway (apps/gateway/src/storage) and the routes that *)
(* fill and read it: content-addressed blocks in files, manifests and      *)
(* asset roots in memory and in JSON files.  A request occupies a slot     *)
(* from its first file-system call to its reply, and other requests run    *)
(* whenever it awaits one.                                                 *)
(*                                                                         *)
(* An item is known by the hash in its name, so what a file holds is the   *)
(* item ("whole") or something else ("other").  writeFile truncates the    *)
(* file it opens and then writes it; what is cut between the two is empty. *)
(***************************************************************************)
EXTENDS Sequences, Naturals, FiniteSets

CONSTANTS
  Slot,          \* requests the gateway serves at a time
  Block,
  File,          \* file roots
  Asset,         \* asset roots
  BlocksOf,      \* the blocks of a manifest, in order
  OriginalOf,    \* the original file of an asset
  MaxFaults      \* bound on failing writes and restarts

ASSUME ItemAssumption ==
  /\ Block \cap (File \cup Asset) = {}
  /\ File \cap Asset = {}
  /\ BlocksOf \in [File -> Seq(Block)]
  /\ OriginalOf \in [Asset -> File]
  /\ MaxFaults \in Nat

Meta == File \cup Asset
Item == Block \cup Meta

Content == {"absent", "other", "whole"}

VARIABLES
  disk,      \* what the file of each item holds
  loaded,    \* manifests and assets in the maps of MetadataStore
  req,       \* the request in each slot
  acked,     \* history: items whose PUT was answered 201
  cut,       \* history: items whose last write stopped halfway
  faults     \* failing writes and restarts so far

storeVars == <<disk, loaded, acked, cut, faults>>

Idle == [pc |-> "idle"]

Free(p) == req[p] = Idle

Goto(p, r) == req' = [req EXCEPT ![p] = r]

Reply(p) == Goto(p, Idle)

(***************************************************************************)
(* BlockStore.put.  The claimed hash is that of the bytes.                 *)
(***************************************************************************)
\* Fault: the bytes are taken on trust.
VerifyNothing(bytes) == TRUE
VerifyCid(bytes) == bytes = "whole"

\* PUT /block of b with some bytes.
PutBlock(p, b, bytes) ==
  /\ Free(p)
  /\ VerifyCid(bytes)
  /\ Goto(p, [pc |-> "access", item |-> b, bytes |-> bytes])
  /\ UNCHANGED storeVars

\* The answer of access: a file that exists is taken for the block.
AccessBlock(p) ==
  /\ req[p].pc = "access"
  /\ IF disk[req[p].item] # "absent"
       THEN Reply(p) /\ acked' = acked \cup {req[p].item}
       ELSE Goto(p, [req[p] EXCEPT !.pc = "open"]) /\ UNCHANGED acked
  /\ UNCHANGED <<disk, loaded, cut, faults>>

\* writeFile, in its two halves: open truncates, write fills.
OpenFile(p) ==
  /\ req[p].pc = "open"
  /\ disk' = [disk EXCEPT ![req[p].item] = "other"]
  /\ Goto(p, [req[p] EXCEPT !.pc = "write"])
  /\ UNCHANGED <<loaded, acked, cut, faults>>

WriteFile(p) ==
  /\ req[p].pc = "write"
  /\ disk' = [disk EXCEPT ![req[p].item] = req[p].bytes]
  /\ acked' = acked \cup {req[p].item}
  /\ cut' = cut \ {req[p].item}
  /\ Reply(p)
  /\ UNCHANGED <<loaded, faults>>

Fault == faults < MaxFaults /\ faults' = faults + 1

\* The disk refuses: the handler answers 422 or 500, and undoes nothing.
WriteFails(p) ==
  /\ Fault
  /\ req[p].pc \in {"open", "write"}
  /\ cut' = IF req[p].pc = "write" /\ disk[req[p].item] = "other"
            THEN cut \cup {req[p].item} ELSE cut
  /\ Reply(p)
  /\ UNCHANGED <<disk, loaded, acked>>

(***************************************************************************)
(* PUT /file: every block of the manifest is looked up, one await each;    *)
(* putManifest then has it in memory before it is on disk.                 *)
(***************************************************************************)
\* putManifest and putAsset up to their await.
PutMeta(p, x) ==
  /\ loaded' = loaded \cup {x}
  /\ Goto(p, [pc |-> "open", item |-> x, bytes |-> "whole"])

PutFile(p, f) ==
  /\ Free(p)
  /\ IF BlocksOf[f] = <<>> THEN PutMeta(p, f)
     ELSE Goto(p, [pc |-> "blocks", item |-> f, next |-> 1]) /\ UNCHANGED loaded
  /\ UNCHANGED <<disk, acked, cut, faults>>

\* Fault: a manifest is taken before its blocks are.
AnyBlock(b) == TRUE
HasBlock(b) == disk[b] # "absent"

LookUpBlock(p) ==
  LET f == req[p].item
      i == req[p].next
  IN  /\ req[p].pc = "blocks"
      /\ IF ~HasBlock(BlocksOf[f][i])
           THEN Reply(p) /\ UNCHANGED loaded
           ELSE IF i < Len(BlocksOf[f])
                  THEN Goto(p, [req[p] EXCEPT !.next = i + 1]) /\ UNCHANGED loaded
                  ELSE PutMeta(p, f)
      /\ UNCHANGED <<disk, acked, cut, faults>>

\* PUT /asset: the manifest of its original file must be there.
PutAsset(p, a) ==
  /\ Free(p)
  /\ OriginalOf[a] \in loaded
  /\ PutMeta(p, a)
  /\ UNCHANGED <<disk, acked, cut, faults>>

(***************************************************************************)
(* The routes that only read.  GET /cid redirects to an asset or a         *)
(* manifest that is in the maps, and answers a block with what its file    *)
(* holds; GET /spot-check looks at block files only, and hashes them.      *)
(***************************************************************************)
GetAsset(x) == x \in Asset \cap loaded

GetFile(x) == x \in File \cap loaded

GetCid(x) == IF GetAsset(x) THEN "asset" ELSE IF GetFile(x) THEN "file"
             ELSE IF x \in Block THEN disk[x] ELSE "absent"

SpotCheck(x) == x \in Block /\ disk[x] = "whole"

(***************************************************************************)
(* The process stops and is started again: the requests are gone, and init *)
(* reads what JSON files it can parse.                                     *)
(***************************************************************************)
\* Fault: init reads every directory of the store.
LoadEverything == {x \in Item : disk[x] = "whole"}
LoadMeta == {x \in Meta : disk[x] = "whole"}

Restart ==
  /\ Fault
  /\ req' = [p \in Slot |-> Idle]
  /\ loaded' = LoadMeta
  /\ cut' = cut \cup {x \in Item : /\ disk[x] = "other"
                                   /\ \E p \in Slot : req[p].pc = "write"
                                                   /\ req[p].item = x}
  /\ UNCHANGED <<disk, acked>>

StoreInit ==
  /\ disk = [x \in Item |-> "absent"]
  /\ loaded = {}
  /\ req = [p \in Slot |-> Idle]
  /\ acked = {}
  /\ cut = {}
  /\ faults = 0

PutNext(p) ==
  \/ \E b \in Block, bytes \in {"whole", "other"} : PutBlock(p, b, bytes)
  \/ AccessBlock(p)
  \/ OpenFile(p)
  \/ WriteFile(p)
  \/ WriteFails(p)
  \/ \E f \in File : PutFile(p, f)
  \/ LookUpBlock(p)
  \/ \E a \in Asset : PutAsset(p, a)

-------------------------------------------------------------------------------
Writing(x) == \E p \in Slot : req[p].pc = "write" /\ req[p].item = x

(***************************************************************************)
(* BlockStore.put and MetadataStore.put: the file of an item holds that    *)
(* item unless a write of it is under way or was cut, and what was         *)
(* answered 201 can be read, across restarts, unless a write of it was cut.*)
(***************************************************************************)
IntactUnlessCut ==
  /\ \A x \in Item : disk[x] = "other" => Writing(x) \/ x \in cut
  /\ \A x \in acked : disk[x] # "absent" /\ (x \in Block \cup loaded \/ x \in cut)

(***************************************************************************)
(* PUT /file and PUT /asset: what GET /file and GET /asset answer leads to *)
(* a manifest and to blocks that are there; a manifest may be missing only *)
(* if a write of it was cut or its PUT was never answered 201.             *)
(***************************************************************************)
ServedIsComplete ==
  /\ \A a \in Asset : GetCid(a) = "asset" /\ OriginalOf[a] \in acked \ cut
                     => GetCid(OriginalOf[a]) = "file"
  /\ \A f \in File : GetCid(f) = "file" =>
       \A i \in 1..Len(BlocksOf[f]) : GetCid(BlocksOf[f][i]) # "absent"

===============================================================================
