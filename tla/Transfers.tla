------------------------------- MODULE Transfers -------------------------------
(***************************************************************************)
(* Content on its way into gateways and out of them: dupenet upload and    *)
(* dupenet fetch (apps/cli), the mirror cycles of the node agents          *)
(* (apps/node-agent), and the downloads and previews of the web client     *)
(* (apps/web).  Each is a sequence of requests with nothing but requests   *)
(* of others in between; any of them may fail, and a command that is       *)
(* killed is one whose steps do not come.                                  *)
(*                                                                         *)
(* A gateway answers a request at once (module GatewayStore has what goes  *)
(* on inside) and deletes nothing.  Content is known by its hash; a block  *)
(* file that a crash has cut is served, but is not the block.              *)
(***************************************************************************)
EXTENDS Integers, FiniteSets, SequencesExt

CONSTANTS
  Client,       \* commands and cycles that may be under way at a time
  Gateway,
  Home,         \* the gateway the CLI and the web client are configured with
  Agent,        \* the gateways with a node agent
  Trusted,      \* the gateways of TRUSTED hosts that gave an endpoint
  Block, File, Asset,
  BlocksOf,     \* the blocks of a manifest, in order
  OriginalOf, VariantsOf,
  Inline,       \* how many blocks of a CID pass INLINE_MAX
  Image,        \* the CIDs declared images; the others are text
  Priced,       \* <<g, b>>: gateway g answers 402 for block b
  Cut,          \* <<g, b>>: a crash has cut the file of b in gateway g
  CanPay,       \* the CLI has an LND node
  MaxMirrors,   \* config.maxMirrorsPerCycle
  Serving,      \* external: what hosts have announced by themselves
  Holding,      \* external: what gateways hold at the start
  MaxCommands   \* bound on commands and cycles

Cid == Block \cup Asset

ASSUME TransfersAssumption ==
  /\ IsFiniteSet(Asset) /\ Asset # {} /\ Block \cap Asset = {}
  /\ Home \in Gateway /\ Agent \subseteq Gateway /\ Trusted \subseteq Gateway
  /\ BlocksOf \in [File -> Seq(Block)]
  /\ \A f \in File : BlocksOf[f] # <<>>
  /\ OriginalOf \in [Asset -> File] /\ VariantsOf \in [Asset -> Seq(File)]
  /\ Inline \in [Cid -> Nat \ {0}] /\ Image \subseteq Cid
  /\ Priced \subseteq Gateway \X Block /\ Cut \subseteq Gateway \X Block
  /\ CanPay \in BOOLEAN /\ MaxMirrors \in Nat /\ MaxCommands \in Nat
  /\ Serving \subseteq Gateway \X Cid
  /\ Holding \in [Gateway -> SUBSET (Block \cup File \cup Asset)]

VARIABLES
  held,      \* what each gateway holds
  serves,    \* table HostServe: the gateway of the host, and the CID
  announced, \* assets of ANNOUNCE events
  listed,    \* items of LIST events
  mirrored,  \* mirroredCids of each agent
  task,      \* what each client is doing
  results,   \* history: files saved and answers given to readers
  commands   \* commands and cycles so far

transferVars == <<held, serves, announced, listed, mirrored, task, results, commands>>

NoTask == [pc |-> "idle"]
Does(c, next) == task' = [task EXCEPT ![c] = next]
At(c, cmd, pc) == task[c] # NoTask /\ task[c].cmd = cmd /\ task[c].pc = pc

Start(c, new) ==
  /\ task[c] = NoTask
  /\ commands < MaxCommands
  /\ commands' = commands + 1
  /\ Does(c, new)

(***************************************************************************)
(* The routes of a gateway, as its clients see them.                       *)
(***************************************************************************)
Stores(g, x) == held' = [held EXCEPT ![g] = @ \cup {x}]

HasBlocks(g, f) == ToSet(BlocksOf[f]) \subseteq held[g]

\* GET /block, without a preimage.
GetBlock(g, b) == CASE b \notin held[g]      -> "missing"
                    [] <<g, b>> \in Priced   -> "priced"
                    [] <<g, b>> \in Cut      -> "cut"
                    [] OTHER                 -> "good"

\* GET /block, with the preimage of its invoice.
GetPaidBlock(g, b) == IF <<g, b>> \in Cut THEN "cut" ELSE "good"

(***************************************************************************)
(* dupenet upload: for each file the blocks in order, the manifest, the    *)
(* asset root, then an ANNOUNCE event whose failure is let go.  What fails *)
(* before that ends the file, and the command unless it is for a directory *)
(* (task.all), which ends with a LIST event of the files that went through.*)
(* PUT of what is there already is answered like any other: a second run   *)
(* of the command resumes.                                                 *)
(***************************************************************************)
UploadFile(rest, done, all) ==
  [cmd |-> "upload", pc |-> "blocks", todo |-> BlocksOf[OriginalOf[Head(rest)]],
   rest |-> rest, done |-> done, all |-> all]

CollectFiles == SetToSeq(Asset)

Upload(c) ==
  /\ \/ \E a \in Asset : Start(c, UploadFile(<<a>>, {}, FALSE))
     \/ Start(c, UploadFile(CollectFiles, {}, TRUE))
  /\ UNCHANGED <<held, serves, announced, listed, mirrored, results>>

UploadBlock(c) ==
  /\ At(c, "upload", "blocks")
  /\ Stores(Home, Head(task[c].todo))
  /\ Does(c, [task[c] EXCEPT !.todo = Tail(@),
                             !.pc = IF Len(task[c].todo) = 1 THEN "file" ELSE "blocks"])
  /\ UNCHANGED <<serves, announced, listed, mirrored, results, commands>>

UploadManifest(c) ==
  LET f == OriginalOf[Head(task[c].rest)]
  IN /\ At(c, "upload", "file")
     /\ HasBlocks(Home, f)
     /\ Stores(Home, f)
     /\ Does(c, [task[c] EXCEPT !.pc = "asset"])
     /\ UNCHANGED <<serves, announced, listed, mirrored, results, commands>>

UploadAsset(c) ==
  LET a == Head(task[c].rest)
  IN /\ At(c, "upload", "asset")
     /\ OriginalOf[a] \in held[Home]
     /\ Stores(Home, a)
     /\ Does(c, [task[c] EXCEPT !.pc = "announce"])
     /\ UNCHANGED <<serves, announced, listed, mirrored, results, commands>>

\* The next file of a directory, then its LIST event.
NextUpload(c, done) ==
  IF ~task[c].all THEN NoTask
  ELSE IF Len(task[c].rest) > 1 THEN UploadFile(Tail(task[c].rest), done, TRUE)
  ELSE IF done = {} THEN NoTask
  ELSE [task[c] EXCEPT !.pc = "list", !.done = done]

AnnounceUpload(c, posted) ==
  LET a == Head(task[c].rest)
  IN /\ At(c, "upload", "announce")
     /\ announced' = IF posted THEN announced \cup {a} ELSE announced
     /\ Does(c, NextUpload(c, task[c].done \cup {a}))
     /\ UNCHANGED <<held, serves, listed, mirrored, results, commands>>

\* Fault: a file that failed is listed with the others.
AndThisOne(c) == task[c].done \cup {Head(task[c].rest)}
OnlyDone(c) == task[c].done

UploadFails(c) ==
  /\ At(c, "upload", "blocks") \/ At(c, "upload", "file") \/ At(c, "upload", "asset")
  /\ Does(c, NextUpload(c, OnlyDone(c)))
  /\ UNCHANGED <<held, serves, announced, listed, mirrored, results, commands>>

ListUploads(c, posted) ==
  /\ At(c, "upload", "list")
  /\ listed' = IF posted THEN listed \cup task[c].done ELSE listed
  /\ Does(c, NoTask)
  /\ UNCHANGED <<held, serves, announced, mirrored, results, commands>>

UploadNext(c) ==
  \/ Upload(c)
  \/ UploadBlock(c)
  \/ UploadManifest(c)
  \/ UploadAsset(c)
  \/ UploadFails(c)
  \/ \E posted \in BOOLEAN : AnnounceUpload(c, posted) \/ ListUploads(c, posted)

(***************************************************************************)
(* A cycle of a node agent: the bounty feed offers what hosts serve, with  *)
(* the endpoints of the trusted ones; a source is drawn for each of at     *)
(* most MaxMirrors CIDs not mirrored in this session.  The timer starts    *)
(* the next cycle whether or not the last has ended.  Which pools carry    *)
(* enough to be in the feed, and rank first, is open.                      *)
(***************************************************************************)
Offers == {s \in serves : s[1] \in Trusted}

ProfitableTargets(g) == {o \in Offers : o[2] \notin mirrored[g]}

Poll(c, g) ==
  /\ \E targets \in SUBSET ProfitableTargets(g) :
       /\ Cardinality(targets) \in 1..MaxMirrors
       /\ \A o, p \in targets : o[2] = p[2] => o = p
       /\ Start(c, [cmd |-> "mirror", pc |-> "next", agent |-> g, targets |-> targets])
  /\ UNCHANGED <<held, serves, announced, listed, mirrored, results>>

\* mirrorFile, once the manifest of f is there.
MirrorFile(t, f, later) ==
  [cmd |-> "mirror", pc |-> "blocks", agent |-> t.agent, targets |-> t.targets,
   source |-> t.source, cid |-> t.cid, file |-> f, todo |-> BlocksOf[f],
   allOk |-> TRUE, later |-> later]

NextTarget(t) ==
  IF t.targets = {} THEN NoTask
  ELSE [cmd |-> "mirror", pc |-> "next", agent |-> t.agent, targets |-> t.targets]

Announcing(t) == [cmd |-> "mirror", pc |-> "announce", agent |-> t.agent,
                  targets |-> t.targets, cid |-> t.cid]

\* A block is mirrored only if its source gives it, for nothing, and whole.
CanMirror(s, b) == GetBlock(s, b) = "good"

Mirrored(g, x) == mirrored' = [mirrored EXCEPT ![g] = @ \cup {x}]

\* mirrorCid: as an asset if the source has one, else as a block.
MirrorTarget(c) ==
  /\ At(c, "mirror", "next")
  /\ \E o \in task[c].targets :
       LET x == o[2]
           t == [agent |-> task[c].agent, targets |-> task[c].targets \ {o},
                 source |-> o[1], cid |-> x]
       IN \/ /\ x \in Asset \cap held[o[1]]
             /\ OriginalOf[x] \in held[o[1]]
             /\ Does(c, MirrorFile(t, OriginalOf[x], VariantsOf[x]))
             /\ UNCHANGED <<held, mirrored>>
          \/ /\ x \in Block
             /\ CanMirror(o[1], x)
             /\ Stores(t.agent, x)
             /\ Mirrored(t.agent, x)
             /\ Does(c, Announcing(t))
          \/ Does(c, NextTarget(t)) /\ UNCHANGED <<held, mirrored>>
  /\ UNCHANGED <<serves, announced, listed, results, commands>>

\* mirrorBlock; copied is FALSE when it fails for whatever reason.
MirrorBlock(c, copied) ==
  LET b == Head(task[c].todo)
      g == task[c].agent
  IN /\ At(c, "mirror", "blocks")
     /\ IF copied
        THEN CanMirror(task[c].source, b) /\ Stores(g, b)
        ELSE UNCHANGED held
     /\ Does(c, [task[c] EXCEPT
          !.todo = Tail(@),
          !.allOk = @ /\ copied,
          !.pc = IF Len(task[c].todo) = 1 THEN "file" ELSE "blocks"])
     /\ UNCHANGED <<serves, announced, listed, mirrored, results, commands>>

(***************************************************************************)
(* The manifest is put even if a block failed, and taken if the gateway    *)
(* has the block from elsewhere.  The target is given up if the original   *)
(* did not go through; whether a variant did is not looked at.             *)
(***************************************************************************)
MirrorManifest(c, put) ==
  LET t == task[c]
      original == t.file = OriginalOf[t.cid]
  IN /\ At(c, "mirror", "file")
     /\ IF put
        THEN HasBlocks(t.agent, t.file) /\ Stores(t.agent, t.file)
        ELSE UNCHANGED held
     /\ IF original /\ ~(put /\ t.allOk)
        THEN Does(c, NextTarget(t))
        ELSE \/ \E i \in DOMAIN t.later :
                  /\ t.later[i] \in held[t.source]
                  /\ Does(c, MirrorFile(t, t.later[i], SubSeq(t.later, i + 1, Len(t.later))))
             \/ Does(c, [t EXCEPT !.pc = "asset"])
     /\ UNCHANGED <<serves, announced, listed, mirrored, results, commands>>

\* Fault: the answer to the PUT is not looked at.
DespiteError(put) == TRUE
IfPut(put) == put

MirrorAsset(c, put) ==
  LET t == task[c]
      g == t.agent
  IN /\ At(c, "mirror", "asset")
     /\ IF put
        THEN OriginalOf[t.cid] \in held[g] /\ Stores(g, t.cid)
        ELSE UNCHANGED held
     /\ IF IfPut(put)
        THEN Mirrored(g, t.cid) /\ Does(c, Announcing(t))
        ELSE Does(c, NextTarget(t)) /\ UNCHANGED mirrored
     /\ UNCHANGED <<serves, announced, listed, results, commands>>

\* announceServe; a CID whose announcement failed is mirrored, and not tried again.
AnnounceServe(c, posted) ==
  LET t == task[c]
  IN /\ At(c, "mirror", "announce")
     /\ serves' = IF posted THEN serves \cup {<<t.agent, t.cid>>} ELSE serves
     /\ Does(c, NextTarget(t))
     /\ UNCHANGED <<held, announced, listed, mirrored, results, commands>>

MirrorNext(c) ==
  \/ \E g \in Agent : Poll(c, g)
  \/ MirrorTarget(c)
  \/ \E ok \in BOOLEAN :
       MirrorBlock(c, ok) \/ MirrorManifest(c, ok) \/ MirrorAsset(c, ok) \/ AnnounceServe(c, ok)

(***************************************************************************)
(* The readers: dupenet fetch, GET /api/download and fetchContentPreview.  *)
(* All get the asset, its manifest and then block after block; where the   *)
(* asset is not there they try the CID as a block.                         *)
(*                                                                         *)
(* dupenet fetch rotates over endpoints, the trusted hosts of the          *)
(* directory (if it can be read and has any) and the configured gateway.   *)
(***************************************************************************)
ResolveGateways == {{Home}, Trusted \cup {Home}}

Fetch(c) ==
  /\ \E x \in Cid, from \in ResolveGateways :
       Start(c, [cmd |-> "fetch", pc |-> "asset", cid |-> x, from |-> from])
  /\ UNCHANGED <<held, serves, announced, listed, mirrored, results>>

Download(c) ==
  /\ \E x \in Cid : Start(c, [cmd |-> "download", pc |-> "asset", cid |-> x, from |-> {Home}])
  /\ UNCHANGED <<held, serves, announced, listed, mirrored, results>>

Preview(c) ==
  /\ \E x \in Cid : Start(c, [cmd |-> "preview", pc |-> "asset", cid |-> x, from |-> {Home}])
  /\ UNCHANGED <<held, serves, announced, listed, mirrored, results>>

\* fetchWithRotation: a request that fails in the network goes to the next endpoint,
\* so any may be the one that answers; its answer is final.
MayAnswer(t) == t.from

Reading(c, pc) ==
  task[c] # NoTask /\ task[c].cmd \in {"fetch", "download", "preview"} /\ task[c].pc = pc

GetFrom(t, todo) ==
  [cmd |-> t.cmd, pc |-> "read", cid |-> t.cid, from |-> t.from, todo |-> todo, got |-> <<>>]

\* The first two requests; a manifest that is not there ends the reading.
GetManifest(c) ==
  /\ Reading(c, "asset")
  /\ LET t == task[c] IN
     \/ \E g, h \in MayAnswer(t) :
          /\ t.cid \in Asset \cap held[g]
          /\ OriginalOf[t.cid] \in held[h]
          /\ Does(c, GetFrom(t, BlocksOf[OriginalOf[t.cid]]))
     \/ /\ t.cid \in Block
        /\ Does(c, GetFrom(t, <<t.cid>>))
     \/ Does(c, NoTask)
  /\ UNCHANGED <<held, serves, announced, listed, mirrored, results, commands>>

Answers(c, got, kind) ==
  /\ results' = results \cup
       {[cmd |-> task[c].cmd, cid |-> task[c].cid, got |-> got, kind |-> kind]}
  /\ Does(c, NoTask)

Wanted(x) == IF x \in Asset THEN BlocksOf[OriginalOf[x]] ELSE <<x>>

(***************************************************************************)
(* reassembleFile, or verifyCid for a block: dupenet fetch keeps one       *)
(* content for each hash, the last that came, and goes by the manifest.    *)
(***************************************************************************)
Reassembled(x, got) ==
  [i \in DOMAIN Wanted(x) |->
     got[Max({j \in DOMAIN got : got[j][1] = Wanted(x)[i]})]]

\* Fault: what came is written.
TakenAsIs(file) == TRUE
Verified(file) == \A i \in DOMAIN file : file[i][2] = "good"

Save(c, got) ==
  LET file == Reassembled(task[c].cid, got)
  IN IF Verified(file)
     THEN Answers(c, file, "saved")
     ELSE Does(c, NoTask) /\ UNCHANGED results

(***************************************************************************)
(* The web client has all blocks, or stopped at one it did not get or when *)
(* it had enough.  A download is all or nothing, and so is an image, which *)
(* must not be large; of a text what there is is shown, and marked if it   *)
(* is not all.  Of a large block only the start is shown.                  *)
(***************************************************************************)
\* Fault: nobody counts the blocks.
AnyNumber(x, got) == TRUE
IsFull(x, got) == Len(got) >= Len(Wanted(x))

Large(t, got) == t.cmd = "preview" /\ Len(got) >= Inline[t.cid]

SendFile(t, got) == IF IsFull(t.cid, got) THEN "whole" ELSE "none"

ShowBlock(t, got) ==
  CASE ~Large(t, got)                    -> "whole"
    [] Large(t, got) /\ t.cid \in Image  -> "none"
    [] OTHER                             -> "truncated"

ShowAsset(t, got) ==
  CASE t.cid \in Image -> IF IsFull(t.cid, got) /\ ~Large(t, got) THEN "whole" ELSE "none"
    [] t.cid \notin Image -> IF IsFull(t.cid, got) THEN "whole" ELSE "truncated"

Respond(c, got) ==
  LET t == task[c]
      kind == CASE got = <<>> -> "none"
                [] t.cmd = "download" /\ got # <<>> -> SendFile(t, got)
                [] t.cmd = "preview" /\ got # <<>>  ->
                     IF t.cid \in Block THEN ShowBlock(t, got) ELSE ShowAsset(t, got)
  IN Answers(c, IF kind = "none" THEN <<>> ELSE got, kind)

Got(c, b, content) ==
  LET t == task[c]
      got == Append(t.got, <<b, content>>)
  IN IF Len(t.todo) > 1 /\ ~Large(t, got)
     THEN Does(c, [t EXCEPT !.todo = Tail(@), !.got = got]) /\ UNCHANGED results
     ELSE IF t.cmd = "fetch" THEN Save(c, got) ELSE Respond(c, got)

\* The CLI pays what it is asked, if it can; the web client never does.
PayInvoice(c) == task[c].cmd = "fetch" /\ CanPay

ReadBlock(c) ==
  /\ Reading(c, "read")
  /\ LET b == Head(task[c].todo) IN
     \E g \in MayAnswer(task[c]) :
       \/ /\ GetBlock(g, b) \in {"good", "cut"}
          /\ Got(c, b, GetBlock(g, b))
       \/ /\ GetBlock(g, b) = "priced"
          /\ PayInvoice(c)
          /\ Got(c, b, GetPaidBlock(g, b))
  /\ UNCHANGED <<held, serves, announced, listed, mirrored, commands>>

\* fetchBlock throws, also after a payment; the web client makes do with what it has.
ReadBlockFails(c) ==
  /\ Reading(c, "read")
  /\ IF task[c].cmd = "fetch"
     THEN Does(c, NoTask) /\ UNCHANGED results
     ELSE Respond(c, task[c].got)
  /\ UNCHANGED <<held, serves, announced, listed, mirrored, commands>>

ReadNext(c) ==
  \/ Fetch(c)
  \/ Download(c)
  \/ Preview(c)
  \/ GetManifest(c)
  \/ ReadBlock(c)
  \/ ReadBlockFails(c)

-------------------------------------------------------------------------------
TransfersInit ==
  /\ held = Holding
  /\ serves = Serving
  /\ announced = {}
  /\ listed = {}
  /\ mirrored = [g \in Agent |-> {}]
  /\ task = [c \in Client |-> NoTask]
  /\ results = {}
  /\ commands = 0

TransfersNext == \E c \in Client : UploadNext(c) \/ MirrorNext(c) \/ ReadNext(c)

TransfersSpec == TransfersInit /\ [][TransfersNext]_transferVars

\* A gateway has the CID and, of an asset, the whole original: no variant.  It may
\* sell a block of it, or hold a file of it that is cut.
Complete(g, x) ==
  /\ x \in held[g]
  /\ x \in Asset => OriginalOf[x] \in held[g] /\ HasBlocks(g, OriginalOf[x])

(***************************************************************************)
(* What is advertised is there: the gateway it was uploaded to has the     *)
(* manifest and every block of an asset announced or listed by an upload,  *)
(* and an agent's own gateway those of what the agent says it serves,      *)
(* whatever failed on the way and whatever cycles and commands overlapped. *)
(* Nothing is said of what a block costs, or of a block file a crash cut:  *)
(* put() takes such a file for the block (IntactUnlessCut of GatewayStore).*)
(***************************************************************************)
AdvertisedIsHeld ==
  /\ \A a \in announced \cup listed : Complete(Home, a)
  /\ \A s \in serves \ Serving : Complete(s[1], s[2])

(***************************************************************************)
(* Nothing partial passes for the whole.  A file dupenet fetch has saved   *)
(* is the original, from whatever mixture of gateways its blocks came.     *)
(* Downloads and previews check no hash: what is not marked as truncated   *)
(* has every block in its place, and is the original unless the gateway    *)
(* holds a cut file.                                                       *)
(***************************************************************************)
NothingPartialAsWhole ==
  \A r \in results :
    /\ r.kind \in {"saved", "whole"} =>
         [i \in DOMAIN r.got |-> r.got[i][1]] = Wanted(r.cid)
    /\ r.kind = "saved" => \A i \in DOMAIN r.got : r.got[i][2] = "good"
    /\ r.kind = "whole" =>
         \A i \in DOMAIN r.got : r.got[i][2] = "cut" => <<Home, r.got[i][1]>> \in Cut
================================================================================
