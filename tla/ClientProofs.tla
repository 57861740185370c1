----------------------------- MODULE ClientProofs -----------------------------
(***************************************************************************)
(* Proofs about what runs outside the coordinator.  Content under way, for *)
(* every number of commands, gateways, agents, blocks, files and assets:   *)
(* what an upload announces or lists, and what an agent says it serves,    *)
(* is where it is said to be, whole; and nothing partial that is read      *)
(* passes for the whole.  And the button that funds a pool, for every      *)
(* number of sessions and polls: no payment is dropped in silence.         *)
(***************************************************************************)
EXTENDS Transfers, Fortify, FiniteSetTheorems, SequenceTheorems, WellFoundedInduction, TLAPS

\* All of file f, and all a reader of x needs, are among what a gateway holds.
HasAll(H, f) == f \in H /\ ToSet(BlocksOf[f]) \subseteq H
Whole(H, x) == x \in H /\ (x \in Asset => HasAll(H, OriginalOf[x]))

Content == Block \cup File \cup Asset

(***************************************************************************)
(* What a client is doing, and what it rests on: H has what each gateway   *)
(* holds.                                                                  *)
(***************************************************************************)
UploadState ==
  [cmd : {"upload"}, pc : {"blocks", "file", "asset", "announce", "list"},
   todo : Seq(Block), rest : Seq(Asset) \ {<<>>}, done : SUBSET Asset, all : BOOLEAN]

NextState == [cmd : {"mirror"}, pc : {"next"}, agent : Agent, targets : SUBSET (Gateway \X Cid)]

CopyState ==
  [cmd : {"mirror"}, pc : {"blocks", "file", "asset"}, agent : Agent,
   targets : SUBSET (Gateway \X Cid), source : Gateway, cid : Asset, file : File,
   todo : Seq(Block), allOk : BOOLEAN, later : Seq(File)]

AnnounceState ==
  [cmd : {"mirror"}, pc : {"announce"}, agent : Agent, targets : SUBSET (Gateway \X Cid),
   cid : Cid]

Reader == {"fetch", "download", "preview"}

AskState == [cmd : Reader, pc : {"asset"}, cid : Cid, from : SUBSET Gateway]

ReadState == [cmd : Reader, pc : {"read"}, cid : Cid, from : SUBSET Gateway,
              todo : Seq(Block) \ {<<>>}, got : Seq(Block \X {"cut", "good"})]

TaskState ==
  {NoTask} \cup UploadState \cup NextState \cup CopyState \cup AnnounceState
           \cup AskState \cup ReadState

UploadOK(t, H) ==
  /\ t.pc = "blocks" => t.todo # <<>>
  /\ \A a \in t.done : Whole(H, a)
  /\ t.pc = "asset" => HasAll(H, OriginalOf[Head(t.rest)])
  /\ t.pc = "announce" => Whole(H, Head(t.rest))

CopyOK(t, H) ==
  /\ t.pc = "blocks" => t.todo # <<>>
  /\ t.file # OriginalOf[t.cid] \/ t.pc = "asset" => HasAll(H, OriginalOf[t.cid])

\* What a reader of x has got is the beginning of what it wants,
GotOK(x, got) ==
  /\ Len(got) <= Len(Wanted(x))
  /\ \A i \in 1..Len(got) : got[i][1] = Wanted(x)[i]

\* with the files that are cut at home, for one who reads there.
CutAtHome(got) == \A i \in 1..Len(got) : got[i][2] = "cut" => <<Home, got[i][1]>> \in Cut

ReadOK(t) ==
  /\ GotOK(t.cid, t.got)
  /\ t.cmd # "fetch" => CutAtHome(t.got)
  /\ Len(t.got) + Len(t.todo) = Len(Wanted(t.cid))
  /\ \A i \in 1..Len(t.todo) : t.todo[i] = Wanted(t.cid)[Len(t.got) + i]

TaskOK(t, H) ==
  /\ t \in UploadState => UploadOK(t, H[Home])
  /\ t \in CopyState => CopyOK(t, H[t.agent])
  /\ t \in AnnounceState => Whole(H[t.agent], t.cid)
  /\ t \in AskState \cup ReadState /\ t.cmd # "fetch" => t.from = {Home}
  /\ t \in ReadState => ReadOK(t)

\* What NothingPartialAsWhole says of one result.
ResultOK(r) ==
  /\ r.kind \in {"saved", "whole"} =>
       [i \in DOMAIN r.got |-> r.got[i][1]] = Wanted(r.cid)
  /\ r.kind = "saved" => \A i \in DOMAIN r.got : r.got[i][2] = "good"
  /\ r.kind = "whole" =>
       \A i \in DOMAIN r.got : r.got[i][2] = "cut" => <<Home, r.got[i][1]>> \in Cut

Advertised(A, S, H) ==
  /\ \A a \in A : Whole(H[Home], a)
  /\ \A s \in S \ Serving : Whole(H[s[1]], s[2])

IInv ==
  /\ held \in [Gateway -> SUBSET Content]
  /\ serves \subseteq Gateway \X Cid
  /\ task \in [Client -> TaskState]
  /\ \A c \in Client : TaskOK(task[c], held)
  /\ Advertised(announced \cup listed, serves, held)
  /\ \A r \in results : ResultOK(r)

-------------------------------------------------------------------------------
(* Facts of the data, and steps.                                           *)

LEMMA CollectedFiles == CollectFiles \in Seq(Asset) \ {<<>>}
  <1> DEFINE n == Cardinality(Asset)
  <1>1. n \in Nat /\ n # 0
    BY TransfersAssumption, FS_CardinalityType, FS_EmptySet
  <1>2. ExistsBijection(1..n, Asset)
    BY TransfersAssumption, FS_CardinalityType
  <1>3. \E f \in [1..n -> Asset] : IsInjective(f)
    BY <1>2 DEF ExistsBijection, Bijection, Injection
  <1>4. CollectFiles \in [1..n -> Asset]
    BY <1>3 DEF CollectFiles, SetToSeq
  <1>5. CollectFiles \in Seq(Asset) /\ Len(CollectFiles) = n
    BY <1>1, <1>4
  <1>6. QED
    BY <1>1, <1>5

\* Gateways delete nothing, so what was rested on still holds.
LEMMA WholeStays ==
  ASSUME NEW H, NEW K, H \subseteq K, NEW x
  PROVE  /\ HasAll(H, x) => HasAll(K, x)
         /\ Whole(H, x) => Whole(K, x)
  BY DEF HasAll, Whole

LEMMA TaskStays ==
  ASSUME NEW H \in [Gateway -> SUBSET Content], NEW K \in [Gateway -> SUBSET Content],
         \A g \in Gateway : H[g] \subseteq K[g],
         NEW t \in TaskState, TaskOK(t, H)
  PROVE  TaskOK(t, K)
  <1>1. Home \in Gateway /\ Agent \subseteq Gateway
    BY TransfersAssumption
  <1>2. t \in UploadState => UploadOK(t, K[Home])
    <2> SUFFICES ASSUME t \in UploadState
                 PROVE  UploadOK(t, K[Home])
      OBVIOUS
    <2>1. UploadOK(t, H[Home]) /\ H[Home] \subseteq K[Home]
      BY <1>1 DEF TaskOK
    <2>2. QED
      BY <2>1, WholeStays DEF UploadOK
  <1>3. t \in CopyState => CopyOK(t, K[t.agent])
    <2> SUFFICES ASSUME t \in CopyState
                 PROVE  CopyOK(t, K[t.agent])
      OBVIOUS
    <2>1. t.agent \in Gateway
      BY <1>1 DEF CopyState
    <2>2. CopyOK(t, H[t.agent]) /\ H[t.agent] \subseteq K[t.agent]
      BY <2>1 DEF TaskOK
    <2>3. HasAll(H[t.agent], OriginalOf[t.cid]) => HasAll(K[t.agent], OriginalOf[t.cid])
      BY <2>2, WholeStays
    <2>4. QED
      BY <2>2, <2>3 DEF CopyOK
  <1>4. t \in AnnounceState => Whole(K[t.agent], t.cid)
    <2> SUFFICES ASSUME t \in AnnounceState
                 PROVE  Whole(K[t.agent], t.cid)
      OBVIOUS
    <2>1. t.agent \in Gateway
      BY <1>1 DEF AnnounceState
    <2>2. Whole(H[t.agent], t.cid) /\ H[t.agent] \subseteq K[t.agent]
      BY <2>1 DEF TaskOK
    <2>3. QED
      BY <2>2, WholeStays
  <1>5. QED
    BY <1>2, <1>3, <1>4 DEF TaskOK

\* The shape of a step: client c goes on to t, gateways may have got something, and what is
\* advertised from now on is there.
LEMMA TaskStep ==
  ASSUME IInv,
         NEW c \in Client, NEW t \in TaskState, Does(c, t),
         held' \in [Gateway -> SUBSET Content],
         \A g \in Gateway : held[g] \subseteq held'[g],
         TaskOK(t, held'),
         serves' \subseteq Gateway \X Cid,
         \A a \in (announced \cup listed)' : a \in announced \cup listed \/ Whole(held'[Home], a),
         \A s \in serves' : s \in serves \/ Whole(held'[s[1]], s[2]),
         \A r \in results' : r \in results \/ ResultOK(r)
  PROVE  IInv'
  <1>1. task' \in [Client -> TaskState]
    BY DEF IInv, Does
  <1>2. \A d \in Client : TaskOK(task'[d], held')
    <2> SUFFICES ASSUME NEW d \in Client
                 PROVE  TaskOK(task'[d], held')
      OBVIOUS
    <2>1. CASE d = c
      BY <2>1 DEF IInv, Does
    <2>2. CASE d # c
      <3>1. task'[d] = task[d] /\ task[d] \in TaskState /\ TaskOK(task[d], held)
        BY <2>2 DEF IInv, Does
      <3>2. QED
        BY <3>1, TaskStays DEF IInv
    <2>3. QED
      BY <2>1, <2>2
  <1>3. Advertised((announced \cup listed)', serves', held')
    <2>1. Home \in Gateway
      BY TransfersAssumption
    <2>2. \A a \in (announced \cup listed)' : Whole(held'[Home], a)
      BY <2>1, WholeStays DEF IInv, Advertised
    <2>3. \A s \in serves' \ Serving : Whole(held'[s[1]], s[2])
      <3> SUFFICES ASSUME NEW s \in serves', s \notin Serving
                   PROVE  Whole(held'[s[1]], s[2])
        OBVIOUS
      <3>1. s[1] \in Gateway
        OBVIOUS
      <3>2. CASE s \in serves
        <4>1. Whole(held[s[1]], s[2]) /\ held[s[1]] \subseteq held'[s[1]]
          BY <3>1, <3>2 DEF IInv, Advertised
        <4>2. QED
          BY <4>1, WholeStays
      <3>3. QED
        BY <3>2
    <2>4. QED
      BY <2>2, <2>3 DEF Advertised
  <1>4. \A r \in results' : ResultOK(r)
    BY DEF IInv
  <1>5. QED
    BY <1>1, <1>2, <1>3, <1>4 DEF IInv

-------------------------------------------------------------------------------
(* dupenet upload.                                                         *)

LEMMA StartsUpload ==
  ASSUME NEW rest \in Seq(Asset) \ {<<>>}, NEW done \in SUBSET Asset, NEW all \in BOOLEAN
  PROVE  /\ UploadFile(rest, done, all) \in UploadState
         /\ UploadFile(rest, done, all).pc = "blocks"
         /\ UploadFile(rest, done, all).done = done
         /\ UploadFile(rest, done, all).todo # <<>>
  <1>1. Head(rest) \in Asset
    OBVIOUS
  <1>2. BlocksOf[OriginalOf[Head(rest)]] \in Seq(Block) \ {<<>>}
    BY <1>1, TransfersAssumption
  <1>3. QED
    BY <1>2 DEF UploadFile, UploadState

\* A task of the one kind is none of the others.
LEMMA UploadTask ==
  ASSUME NEW t \in UploadState, NEW K, UploadOK(t, K[Home])
  PROVE  t \in TaskState /\ TaskOK(t, K)
  BY DEF UploadState, CopyState, AnnounceState, AskState, ReadState, Reader, TaskState, TaskOK

LEMMA PlainTask ==
  ASSUME NEW t \in {NoTask} \cup NextState, NEW K
  PROVE  t \in TaskState /\ TaskOK(t, K)
  BY DEF UploadState, CopyState, AnnounceState, NextState, AskState, ReadState, NoTask, Reader,
         TaskState, TaskOK

\* The uploads, by where they stand.
LEMMA UploadAt ==
  ASSUME IInv, NEW c \in Client, NEW pc, At(c, "upload", pc)
  PROVE  /\ task[c] \in UploadState
         /\ task[c].pc = pc
         /\ UploadOK(task[c], held[Home])
         /\ Head(task[c].rest) \in Asset
         /\ OriginalOf[Head(task[c].rest)] \in File
  <1>1. task[c] \in TaskState /\ TaskOK(task[c], held)
    BY DEF IInv
  <1>2. task[c] \in UploadState
    BY <1>1 DEF At, TaskState, NextState, CopyState, AnnounceState, AskState, ReadState, Reader
  <1>3. task[c].rest \in Seq(Asset) \ {<<>>}
    BY <1>2 DEF UploadState
  <1>4. Head(task[c].rest) \in Asset
    BY <1>3
  <1>5. QED
    BY <1>1, <1>2, <1>4, TransfersAssumption DEF TaskOK, At

\* What has been stored stays, and what is being stored is there.
LEMMA Storing ==
  ASSUME IInv, NEW g \in Gateway, NEW x \in Content, Stores(g, x)
  PROVE  /\ held' \in [Gateway -> SUBSET Content]
         /\ \A h \in Gateway : held[h] \subseteq held'[h]
         /\ held'[g] = held[g] \cup {x}
  BY DEF IInv, Stores

\* One is taken off what is left to do, and there is more, or that was the last.
LEMMA OneLess ==
  ASSUME NEW S, NEW todo \in Seq(S) \ {<<>>}
  PROVE  /\ Head(todo) \in S
         /\ Tail(todo) \in Seq(S)
         /\ Len(todo) # 1 => Tail(todo) # <<>>
  <1>1. Head(todo) \in S /\ Tail(todo) \in Seq(S)
    BY HeadTailProperties
  <1>2. Len(todo) \in Nat /\ Len(Tail(todo)) = Len(todo) - 1
    BY HeadTailProperties
  <1>3. Len(todo) # 1 => Len(Tail(todo)) # Len(<<>>)
    BY <1>2
  <1>4. QED
    BY <1>1, <1>3

\* The next file of a directory, its LIST event, or the end.
LEMMA NextFile ==
  ASSUME NEW c \in Client, task[c] \in UploadState, NEW done \in SUBSET Asset,
         \A a \in done : Whole(held[Home], a)
  PROVE  NextUpload(c, done) \in TaskState /\ TaskOK(NextUpload(c, done), held)
  <1>0. /\ task[c].all \in BOOLEAN
        /\ task[c].rest \in Seq(Asset) /\ task[c].rest # <<>>
        /\ Len(task[c].rest) \in Nat
    BY DEF UploadState
  <1>1. CASE ~task[c].all \/ (~(Len(task[c].rest) > 1) /\ done = {})
    <2>1. NextUpload(c, done) = NoTask
      BY <1>0, <1>1 DEF NextUpload
    <2>2. QED
      BY <2>1, PlainTask
  <1>2. CASE task[c].all /\ Len(task[c].rest) > 1
    <2> DEFINE t == UploadFile(Tail(task[c].rest), done, TRUE)
    <2>1. Tail(task[c].rest) \in Seq(Asset) \ {<<>>}
      <3> DEFINE n == Len(task[c].rest)
      <3>1. n \in Nat /\ n > 1
        BY <1>0, <1>2
      <3> HIDE DEF n
      <3>2. n # 1
        BY <3>1
      <3>3. QED
        BY <1>0, <3>2, OneLess DEF n
    <2>2. t \in UploadState /\ t.pc = "blocks" /\ t.done = done /\ t.todo # <<>>
      BY <2>1, StartsUpload
    <2>3. UploadOK(t, held[Home])
      BY <2>2 DEF UploadOK
    <2>4. NextUpload(c, done) = t
      BY <1>2 DEF NextUpload
    <2>5. QED
      BY <2>2, <2>3, <2>4, UploadTask
  <1>3. CASE task[c].all /\ ~(Len(task[c].rest) > 1) /\ done # {}
    <2> DEFINE t == [task[c] EXCEPT !.pc = "list", !.done = done]
    <2>1. t \in UploadState /\ t.pc = "list" /\ t.done = done
      BY DEF UploadState
    <2>2. UploadOK(t, held[Home])
      BY <2>1 DEF UploadOK
    <2>3. NextUpload(c, done) = t
      BY <1>0, <1>3 DEF NextUpload
    <2>4. QED
      BY <2>1, <2>2, <2>3, UploadTask
  <1>4. QED
    BY <1>0, <1>1, <1>2, <1>3

LEMMA StepsOfUpload ==
  ASSUME IInv, NEW c \in Client, UploadNext(c)
  PROVE  IInv'
  <1>0. /\ held \in [Gateway -> SUBSET Content]
        /\ serves \subseteq Gateway \X Cid
        /\ Home \in Gateway
        /\ results' = results
    BY TransfersAssumption DEF IInv, UploadNext, Upload, UploadBlock, UploadManifest,
         UploadAsset, UploadFails, AnnounceUpload, ListUploads
  <1>1. CASE Upload(c)
    <2>1. PICK t \in UploadState : /\ Does(c, t)
                                  /\ t.pc = "blocks" /\ t.done = {} /\ t.todo # <<>>
      <3>1. CASE \E a \in Asset : Start(c, UploadFile(<<a>>, {}, FALSE))
        <4>1. PICK a \in Asset : Start(c, UploadFile(<<a>>, {}, FALSE))
          BY <3>1
        <4>2. <<a>> \in Seq(Asset) \ {<<>>}
          OBVIOUS
        <4>3. QED
          BY <4>1, <4>2, StartsUpload DEF Start
      <3>2. CASE Start(c, UploadFile(CollectFiles, {}, TRUE))
        BY <3>2, StartsUpload, CollectedFiles DEF Start
      <3>3. QED
        BY <1>1, <3>1, <3>2 DEF Upload
    <2>2. UploadOK(t, held'[Home])
      BY <2>1 DEF UploadOK
    <2>3. held' = held /\ serves' = serves /\ announced' = announced /\ listed' = listed
      BY <1>1 DEF Upload
    <2>4. t \in TaskState /\ TaskOK(t, held')
      BY <2>2, UploadTask
    <2>5. QED
      BY <1>0, <2>1, <2>3, <2>4, TaskStep
  <1>2. CASE UploadBlock(c)
    <2> DEFINE t == [task[c] EXCEPT !.todo = Tail(@),
                                    !.pc = IF Len(task[c].todo) = 1 THEN "file" ELSE "blocks"]
    <2>1. /\ task[c] \in UploadState /\ task[c].pc = "blocks"
          /\ UploadOK(task[c], held[Home])
      BY <1>2, UploadAt DEF UploadBlock
    <2>2. task[c].todo \in Seq(Block) \ {<<>>}
      BY <2>1 DEF UploadState, UploadOK
    <2>3. /\ t \in UploadState /\ t.done = task[c].done /\ t.todo = Tail(task[c].todo)
          /\ t.pc = IF Len(task[c].todo) = 1 THEN "file" ELSE "blocks"
      BY <2>1, <2>2, OneLess DEF UploadState
    <2>4. /\ held' \in [Gateway -> SUBSET Content]
          /\ \A g \in Gateway : held[g] \subseteq held'[g]
      BY <1>0, <1>2, <2>2, OneLess, Storing DEF UploadBlock, Content
    <2>5. UploadOK(t, held'[Home])
      BY <1>0, <2>1, <2>2, <2>3, <2>4, OneLess, WholeStays DEF UploadOK
    <2>6. t \in TaskState /\ TaskOK(t, held')
      BY <2>3, <2>5, UploadTask
    <2>7. Does(c, t) /\ serves' = serves /\ announced' = announced /\ listed' = listed
      BY <1>2 DEF UploadBlock
    <2>8. QED
      BY <1>0, <2>4, <2>6, <2>7, TaskStep
  <1>3. CASE UploadManifest(c)
    <2> DEFINE t == [task[c] EXCEPT !.pc = "asset"]
    <2> DEFINE f == OriginalOf[Head(task[c].rest)]
    <2>1. /\ task[c] \in UploadState /\ f \in File
          /\ UploadOK(task[c], held[Home])
      BY <1>3, UploadAt DEF UploadManifest
    <2>2. /\ t \in UploadState /\ t.done = task[c].done /\ t.rest = task[c].rest
          /\ t.pc = "asset"
      BY <2>1 DEF UploadState
    <2>3. /\ held' \in [Gateway -> SUBSET Content]
          /\ \A g \in Gateway : held[g] \subseteq held'[g]
          /\ held'[Home] = held[Home] \cup {f}
      BY <1>0, <1>3, <2>1, Storing DEF UploadManifest, Content
    <2>4. HasAll(held'[Home], f)
      BY <1>3, <2>3 DEF UploadManifest, HasBlocks, HasAll
    <2>5. UploadOK(t, held'[Home])
      BY <1>0, <2>1, <2>2, <2>3, <2>4, WholeStays DEF UploadOK
    <2>6. t \in TaskState /\ TaskOK(t, held')
      BY <2>2, <2>5, UploadTask
    <2>7. Does(c, t) /\ serves' = serves /\ announced' = announced /\ listed' = listed
      BY <1>3 DEF UploadManifest
    <2>8. QED
      BY <1>0, <2>3, <2>6, <2>7, TaskStep
  <1>4. CASE UploadAsset(c)
    <2> DEFINE t == [task[c] EXCEPT !.pc = "announce"]
    <2> DEFINE a == Head(task[c].rest)
    <2>1. /\ task[c] \in UploadState /\ a \in Asset /\ task[c].pc = "asset"
          /\ UploadOK(task[c], held[Home])
      BY <1>4, UploadAt DEF UploadAsset
    <2>2. /\ t \in UploadState /\ t.done = task[c].done /\ t.rest = task[c].rest
          /\ t.pc = "announce"
      BY <2>1 DEF UploadState
    <2>3. /\ held' \in [Gateway -> SUBSET Content]
          /\ \A g \in Gateway : held[g] \subseteq held'[g]
          /\ held'[Home] = held[Home] \cup {a}
      BY <1>0, <1>4, <2>1, Storing DEF UploadAsset, Content
    <2>4. HasAll(held[Home], OriginalOf[a])
      BY <2>1 DEF UploadOK
    <2>5. Whole(held'[Home], a)
      <3>1. held[Home] \subseteq held'[Home]
        BY <2>3
      <3>2. HasAll(held'[Home], OriginalOf[a])
        BY <2>4, <3>1, WholeStays
      <3>3. QED
        BY <2>3, <3>2 DEF Whole
    <2>6. UploadOK(t, held'[Home])
      BY <1>0, <2>1, <2>2, <2>3, <2>5, WholeStays DEF UploadOK
    <2>7. t \in TaskState /\ TaskOK(t, held')
      BY <2>2, <2>6, UploadTask
    <2>8. Does(c, t) /\ serves' = serves /\ announced' = announced /\ listed' = listed
      BY <1>4 DEF UploadAsset
    <2>9. QED
      BY <1>0, <2>3, <2>7, <2>8, TaskStep
  <1>5. CASE \E posted \in BOOLEAN : AnnounceUpload(c, posted)
    <2> DEFINE a == Head(task[c].rest)
    <2> DEFINE t == NextUpload(c, task[c].done \cup {a})
    <2>1. /\ task[c] \in UploadState /\ a \in Asset /\ task[c].pc = "announce"
          /\ UploadOK(task[c], held[Home])
      BY <1>5, UploadAt DEF AnnounceUpload
    <2>2. Whole(held[Home], a)
      BY <2>1 DEF UploadOK
    <2>3. held' = held /\ serves' = serves /\ listed' = listed /\ Does(c, t)
          /\ announced' \in {announced, announced \cup {a}}
      BY <1>5 DEF AnnounceUpload
    <2>4. t \in TaskState /\ TaskOK(t, held)
      BY <2>1, <2>2, NextFile DEF UploadOK, UploadState
    <2>5. QED
      BY <1>0, <2>2, <2>3, <2>4, TaskStep
  <1>6. CASE UploadFails(c)
    <2> DEFINE t == NextUpload(c, task[c].done)
    <2>1. task[c] \in UploadState /\ UploadOK(task[c], held[Home])
      BY <1>6, UploadAt DEF UploadFails
    <2>2. t \in TaskState /\ TaskOK(t, held)
      BY <2>1, NextFile DEF UploadOK, UploadState
    <2>3. /\ held' = held /\ serves' = serves /\ announced' = announced /\ listed' = listed
          /\ Does(c, t)
      BY <1>6 DEF UploadFails, OnlyDone
    <2>4. QED
      BY <1>0, <2>2, <2>3, TaskStep
  <1>7. CASE \E posted \in BOOLEAN : ListUploads(c, posted)
    <2>1. task[c] \in UploadState /\ UploadOK(task[c], held[Home])
      BY <1>7, UploadAt DEF ListUploads
    <2>2. NoTask \in TaskState /\ TaskOK(NoTask, held)
      BY PlainTask
    <2>3. /\ held' = held /\ serves' = serves /\ announced' = announced
          /\ listed' \in {listed, listed \cup task[c].done} /\ Does(c, NoTask)
      BY <1>7 DEF ListUploads
    <2>4. QED
      BY <1>0, <2>1, <2>2, <2>3, TaskStep DEF UploadOK
  <1>8. QED
    BY <1>1, <1>2, <1>3, <1>4, <1>5, <1>6, <1>7 DEF UploadNext

-------------------------------------------------------------------------------
(* The cycles of the node agents.                                          *)

LEMMA CopyTask ==
  ASSUME NEW t \in CopyState, NEW K, CopyOK(t, K[t.agent])
  PROVE  t \in TaskState /\ TaskOK(t, K)
  BY DEF UploadState, CopyState, AnnounceState, AskState, ReadState, Reader, TaskState, TaskOK

LEMMA AnnounceTask ==
  ASSUME NEW t \in AnnounceState, NEW K, Whole(K[t.agent], t.cid)
  PROVE  t \in TaskState /\ TaskOK(t, K)
  BY DEF UploadState, CopyState, AnnounceState, AskState, ReadState, Reader, TaskState, TaskOK

\* The cycles, by where they stand.
LEMMA MirrorAt ==
  ASSUME IInv, NEW c \in Client, NEW pc, At(c, "mirror", pc)
  PROVE  /\ pc = "next" => task[c] \in NextState
         /\ pc \in {"blocks", "file", "asset"} =>
              /\ task[c] \in CopyState
              /\ task[c].pc = pc
              /\ CopyOK(task[c], held[task[c].agent])
         /\ pc = "announce" => /\ task[c] \in AnnounceState
                               /\ Whole(held[task[c].agent], task[c].cid)
  <1>1. task[c] \in TaskState /\ TaskOK(task[c], held)
    BY DEF IInv
  <1>2. task[c] \in NextState \cup CopyState \cup AnnounceState
    BY <1>1 DEF At, TaskState, UploadState, AskState, ReadState, Reader
  <1>3. QED
    BY <1>1, <1>2 DEF At, TaskOK, NextState, CopyState, AnnounceState

\* A cycle goes on to its next target, or ends.
LEMMA NextTargetTask ==
  ASSUME NEW t, t.agent \in Agent, t.targets \in SUBSET (Gateway \X Cid), NEW K
  PROVE  NextTarget(t) \in TaskState /\ TaskOK(NextTarget(t), K)
  <1>1. NextTarget(t) \in {NoTask} \cup NextState
    BY DEF NextTarget, NextState
  <1>2. QED
    BY <1>1, PlainTask

\* Of a file a cycle begins to copy.
LEMMA StartsFile ==
  ASSUME NEW t, t.agent \in Agent, t.targets \in SUBSET (Gateway \X Cid),
         t.source \in Gateway, t.cid \in Asset,
         NEW f \in File, NEW later \in Seq(File)
  PROVE  /\ MirrorFile(t, f, later) \in CopyState
         /\ MirrorFile(t, f, later).pc = "blocks"
         /\ MirrorFile(t, f, later).file = f
         /\ MirrorFile(t, f, later).agent = t.agent
         /\ MirrorFile(t, f, later).cid = t.cid
         /\ MirrorFile(t, f, later).todo # <<>>
  <1>1. BlocksOf[f] \in Seq(Block) \ {<<>>}
    BY TransfersAssumption
  <1>2. QED
    BY <1>1 DEF MirrorFile, CopyState

LEMMA StepsOfMirror ==
  ASSUME IInv, NEW c \in Client, MirrorNext(c)
  PROVE  IInv'
  <1>0. /\ held \in [Gateway -> SUBSET Content]
        /\ serves \subseteq Gateway \X Cid
        /\ Home \in Gateway
        /\ Agent \subseteq Gateway
        /\ results' = results
    BY TransfersAssumption DEF IInv, MirrorNext, Poll, MirrorTarget, MirrorBlock,
         MirrorManifest, MirrorAsset, AnnounceServe
  <1>1. CASE \E g \in Agent : Poll(c, g)
    <2>0. PICK g \in Agent : Poll(c, g)
      BY <1>1
    <2>1. PICK targets \in SUBSET ProfitableTargets(g) :
            Does(c, [cmd |-> "mirror", pc |-> "next", agent |-> g, targets |-> targets])
      BY <2>0 DEF Poll, Start
    <2> DEFINE t == [cmd |-> "mirror", pc |-> "next", agent |-> g, targets |-> targets]
    <2>2. targets \in SUBSET (Gateway \X Cid)
      BY <1>0 DEF ProfitableTargets, Offers
    <2>3. t \in NextState
      BY <2>2 DEF NextState
    <2>4. t \in TaskState /\ TaskOK(t, held)
      BY <2>3, PlainTask
    <2>5. held' = held /\ serves' = serves /\ announced' = announced /\ listed' = listed
      BY <2>0 DEF Poll
    <2>6. QED
      BY <1>0, <2>1, <2>4, <2>5, TaskStep
  <1>2. CASE MirrorTarget(c)
    <2>1. task[c] \in NextState
      BY <1>2, MirrorAt DEF MirrorTarget
    <2>2. PICK o \in task[c].targets :
            LET x == o[2]
                t == [agent |-> task[c].agent, targets |-> task[c].targets \ {o},
                      source |-> o[1], cid |-> x]
            IN \/ /\ x \in Asset \cap held[o[1]]
                  /\ OriginalOf[x] \in held[o[1]]
                  /\ Does(c, MirrorFile(t, OriginalOf[x], VariantsOf[x]))
                  /\ UNCHANGED <<held, mirrored>>
               \/ /\ x \in Block
                  /\ CanMirror(o[1], x)
                  /\ Stores(t.agent, x)
                  /\ Mirrored(t.agent, x)
                  /\ Does(c, Announcing(t))
               \/ Does(c, NextTarget(t)) /\ UNCHANGED <<held, mirrored>>
      BY <1>2 DEF MirrorTarget
    <2> DEFINE t == [agent |-> task[c].agent, targets |-> task[c].targets \ {o},
                     source |-> o[1], cid |-> o[2]]
    <2>3. o \in Gateway \X Cid /\ t.agent \in Agent /\ t.targets \in SUBSET (Gateway \X Cid)
      BY <2>1 DEF NextState
    <2>4. t.source \in Gateway /\ t.cid = o[2] /\ t.cid \in Cid
      BY <2>3
    <2>5. serves' = serves /\ announced' = announced /\ listed' = listed
      BY <1>2 DEF MirrorTarget
    <2>6. CASE /\ o[2] \in Asset
               /\ Does(c, MirrorFile(t, OriginalOf[o[2]], VariantsOf[o[2]]))
               /\ UNCHANGED <<held, mirrored>>
      <3> DEFINE u == MirrorFile(t, OriginalOf[o[2]], VariantsOf[o[2]])
      <3>1. OriginalOf[o[2]] \in File /\ VariantsOf[o[2]] \in Seq(File)
        BY <2>6, TransfersAssumption
      <3> HIDE DEF t
      <3>2. /\ u \in CopyState /\ u.pc = "blocks" /\ u.file = OriginalOf[u.cid]
            /\ u.todo # <<>>
        BY <2>3, <2>4, <2>6, <3>1, StartsFile
      <3>3. CopyOK(u, held[u.agent])
        BY <3>2 DEF CopyOK
      <3>4. u \in TaskState /\ TaskOK(u, held)
        BY <3>2, <3>3, CopyTask
      <3>5. Does(c, u) /\ held' = held
        BY <2>6
      <3>6. QED
        BY <1>0, <2>5, <3>4, <3>5, TaskStep
    <2>7. CASE o[2] \in Block /\ Stores(t.agent, o[2]) /\ Does(c, Announcing(t))
      <3> HIDE DEF t
      <3>1. Announcing(t) \in AnnounceState /\ Announcing(t).agent = t.agent
            /\ Announcing(t).cid = o[2]
        BY <2>3, <2>4 DEF Announcing, AnnounceState
      <3>2. /\ held' \in [Gateway -> SUBSET Content]
            /\ \A h \in Gateway : held[h] \subseteq held'[h]
            /\ held'[t.agent] = held[t.agent] \cup {o[2]}
        BY <1>0, <2>3, <2>7, Storing DEF Content
      <3>3. Whole(held'[t.agent], o[2])
        BY <2>7, <3>2, TransfersAssumption DEF Whole
      <3>4. Announcing(t) \in TaskState /\ TaskOK(Announcing(t), held')
        BY <3>1, <3>3, AnnounceTask
      <3>5. QED
        BY <1>0, <2>5, <2>7, <3>2, <3>4, TaskStep
    <2>8. CASE Does(c, NextTarget(t)) /\ UNCHANGED <<held, mirrored>>
      <3> HIDE DEF t
      <3>1. NextTarget(t) \in TaskState /\ TaskOK(NextTarget(t), held)
        BY <2>3, NextTargetTask
      <3>2. QED
        BY <1>0, <2>5, <2>8, <3>1, TaskStep
    <2>9. QED
      BY <2>2, <2>6, <2>7, <2>8
  <1>3. CASE \E copied \in BOOLEAN : MirrorBlock(c, copied)
    <2>1. PICK copied \in BOOLEAN : MirrorBlock(c, copied)
      BY <1>3
    <2> DEFINE t == [task[c] EXCEPT
                       !.todo = Tail(@),
                       !.allOk = @ /\ copied,
                       !.pc = IF Len(task[c].todo) = 1 THEN "file" ELSE "blocks"]
    <2>2. /\ task[c] \in CopyState /\ task[c].pc = "blocks"
          /\ CopyOK(task[c], held[task[c].agent])
      BY <2>1, MirrorAt DEF MirrorBlock
    <2>3. task[c].todo \in Seq(Block) \ {<<>>} /\ task[c].agent \in Gateway
      BY <1>0, <2>2 DEF CopyState, CopyOK
    <2>4. /\ t \in CopyState /\ t.agent = task[c].agent /\ t.cid = task[c].cid
          /\ t.file = task[c].file /\ t.todo = Tail(task[c].todo)
          /\ t.pc = IF Len(task[c].todo) = 1 THEN "file" ELSE "blocks"
      BY <2>2, <2>3, OneLess DEF CopyState
    <2>5. /\ held' \in [Gateway -> SUBSET Content]
          /\ \A g \in Gateway : held[g] \subseteq held'[g]
      <3>1. Head(task[c].todo) \in Content
        BY <2>3, OneLess DEF Content
      <3>2. CASE copied
        BY <2>1, <2>3, <3>1, <3>2, Storing DEF MirrorBlock
      <3>3. CASE ~copied
        BY <1>0, <2>1, <3>3 DEF MirrorBlock
      <3>4. QED
        BY <3>2, <3>3
    <2>6. CopyOK(t, held'[t.agent])
      <3>1. held[t.agent] \subseteq held'[t.agent]
        BY <2>3, <2>4, <2>5
      <3>2. ASSUME t.file # OriginalOf[t.cid]
            PROVE  HasAll(held'[t.agent], OriginalOf[t.cid])
        <4>1. HasAll(held[t.agent], OriginalOf[t.cid])
          BY <2>2, <2>4, <3>2 DEF CopyOK
        <4>2. QED
          BY <3>1, <4>1, WholeStays
      <3>3. t.pc # "asset" /\ (t.pc = "blocks" => t.todo # <<>>)
        BY <2>3, <2>4, OneLess
      <3>4. QED
        BY <3>2, <3>3 DEF CopyOK
    <2>7. t \in TaskState /\ TaskOK(t, held')
      BY <2>4, <2>6, CopyTask
    <2>8. Does(c, t) /\ serves' = serves /\ announced' = announced /\ listed' = listed
      BY <2>1 DEF MirrorBlock
    <2>9. QED
      BY <1>0, <2>5, <2>7, <2>8, TaskStep
  <1>4. CASE \E put \in BOOLEAN : MirrorManifest(c, put)
    <2>1. PICK put \in BOOLEAN : MirrorManifest(c, put)
      BY <1>4
    <2> DEFINE t == task[c]
    <2>2. t \in CopyState /\ t.pc = "file" /\ CopyOK(t, held[t.agent])
      BY <2>1, MirrorAt DEF MirrorManifest
    <2>3. /\ t.agent \in Agent /\ t.agent \in Gateway /\ t.source \in Gateway
          /\ t.targets \in SUBSET (Gateway \X Cid)
          /\ t.cid \in Asset /\ t.file \in File /\ t.later \in Seq(File)
      BY <1>0, <2>2 DEF CopyState
    <2>4. /\ held' \in [Gateway -> SUBSET Content]
          /\ \A g \in Gateway : held[g] \subseteq held'[g]
          /\ put => HasAll(held'[t.agent], t.file)
      <3>1. CASE put
        <4>1. HasBlocks(t.agent, t.file) /\ Stores(t.agent, t.file)
          BY <2>1, <3>1 DEF MirrorManifest
        <4>2. /\ held' \in [Gateway -> SUBSET Content]
              /\ \A g \in Gateway : held[g] \subseteq held'[g]
              /\ held'[t.agent] = held[t.agent] \cup {t.file}
          BY <2>3, <4>1, Storing DEF Content
        <4>3. HasAll(held'[t.agent], t.file)
          BY <4>1, <4>2 DEF HasBlocks, HasAll
        <4>4. QED
          BY <4>2, <4>3
      <3>2. CASE ~put
        BY <1>0, <2>1, <3>2 DEF MirrorManifest
      <3>3. QED
        BY <3>1, <3>2
    <2>5. serves' = serves /\ announced' = announced /\ listed' = listed
      BY <2>1 DEF MirrorManifest
    <2>6. CASE Does(c, NextTarget(t))
      <3>1. NextTarget(t) \in TaskState /\ TaskOK(NextTarget(t), held')
        BY <2>3, NextTargetTask
      <3>2. QED
        BY <1>0, <2>4, <2>5, <2>6, <3>1, TaskStep
    <2>7. CASE t.file = OriginalOf[t.cid] => put
      <3>1. HasAll(held'[t.agent], OriginalOf[t.cid])
        <4>1. CASE t.file = OriginalOf[t.cid]
          BY <2>4, <2>7, <4>1
        <4>2. CASE t.file # OriginalOf[t.cid]
          <5>1. HasAll(held[t.agent], OriginalOf[t.cid]) /\ held[t.agent] \subseteq held'[t.agent]
            BY <2>2, <2>3, <2>4, <4>2 DEF CopyOK
          <5>2. QED
            BY <5>1, WholeStays
        <4>3. QED
          BY <4>1, <4>2
      <3>2. CASE \E i \in DOMAIN t.later :
                   Does(c, MirrorFile(t, t.later[i], SubSeq(t.later, i + 1, Len(t.later))))
        <4>1. PICK i \in DOMAIN t.later :
                Does(c, MirrorFile(t, t.later[i], SubSeq(t.later, i + 1, Len(t.later))))
          BY <3>2
        <4> DEFINE later == SubSeq(t.later, i + 1, Len(t.later))
        <4> DEFINE u == MirrorFile(t, t.later[i], later)
        <4>2. i \in 1..Len(t.later) /\ t.later[i] \in File /\ Len(t.later) \in Nat
          BY <2>3, <4>1
        <4>3. later \in Seq(File)
          BY <2>3, <4>2, SubSeqProperties
        <4> HIDE DEF t, later
        <4>4. /\ u \in CopyState /\ u.pc = "blocks" /\ u.agent = t.agent /\ u.cid = t.cid
              /\ u.todo # <<>>
          BY <2>3, <4>2, <4>3, StartsFile
        <4>5. CopyOK(u, held'[u.agent])
          BY <3>1, <4>4 DEF CopyOK
        <4>6. u \in TaskState /\ TaskOK(u, held')
          BY <4>4, <4>5, CopyTask
        <4>7. Does(c, u)
          BY <4>1 DEF later
        <4>8. QED
          BY <1>0, <2>4, <2>5, <4>6, <4>7, TaskStep
      <3>3. CASE Does(c, [t EXCEPT !.pc = "asset"])
        <4> DEFINE u == [t EXCEPT !.pc = "asset"]
        <4>1. u \in CopyState /\ u.pc = "asset" /\ u.agent = t.agent /\ u.cid = t.cid
          BY <2>2 DEF CopyState
        <4>2. CopyOK(u, held'[u.agent])
          BY <3>1, <4>1 DEF CopyOK
        <4>3. u \in TaskState /\ TaskOK(u, held')
          BY <4>1, <4>2, CopyTask
        <4>4. QED
          BY <1>0, <2>4, <2>5, <3>3, <4>3, TaskStep
      <3>4. Does(c, NextTarget(t)) => IInv'
        BY <2>6
      <3>5. QED
        BY <2>1, <3>2, <3>3, <3>4 DEF MirrorManifest
    <2>8. CASE t.file = OriginalOf[t.cid] /\ ~put
      BY <2>1, <2>6, <2>8 DEF MirrorManifest
    <2>9. QED
      BY <2>7, <2>8
  <1>5. CASE \E put \in BOOLEAN : MirrorAsset(c, put)
    <2>1. PICK put \in BOOLEAN : MirrorAsset(c, put)
      BY <1>5
    <2> DEFINE t == task[c]
    <2>2. t \in CopyState /\ t.pc = "asset" /\ CopyOK(t, held[t.agent])
      BY <2>1, MirrorAt DEF MirrorAsset
    <2>3. /\ t.agent \in Agent /\ t.agent \in Gateway /\ t.cid \in Asset
          /\ t.targets \in SUBSET (Gateway \X Cid)
      BY <1>0, <2>2 DEF CopyState
    <2>4. serves' = serves /\ announced' = announced /\ listed' = listed
      BY <2>1 DEF MirrorAsset
    <2>5. CASE put
      <3>1. Stores(t.agent, t.cid) /\ Does(c, Announcing(t))
        BY <2>1, <2>5 DEF MirrorAsset, IfPut
      <3>2. /\ held' \in [Gateway -> SUBSET Content]
            /\ \A g \in Gateway : held[g] \subseteq held'[g]
            /\ held'[t.agent] = held[t.agent] \cup {t.cid}
        BY <2>3, <3>1, Storing DEF Content
      <3>3. HasAll(held'[t.agent], OriginalOf[t.cid])
        <4>1. HasAll(held[t.agent], OriginalOf[t.cid]) /\ held[t.agent] \subseteq held'[t.agent]
          BY <2>2, <2>3, <3>2 DEF CopyOK
        <4>2. QED
          BY <4>1, WholeStays
      <3>4. Whole(held'[t.agent], t.cid)
        BY <3>2, <3>3 DEF Whole
      <3>5. Announcing(t) \in AnnounceState /\ Announcing(t).agent = t.agent
            /\ Announcing(t).cid = t.cid
        BY <2>3 DEF Announcing, AnnounceState, Cid
      <3>6. Announcing(t) \in TaskState /\ TaskOK(Announcing(t), held')
        BY <3>4, <3>5, AnnounceTask
      <3>7. QED
        BY <1>0, <2>4, <3>1, <3>2, <3>6, TaskStep
    <2>6. CASE ~put
      <3>1. held' = held /\ Does(c, NextTarget(t))
        BY <2>1, <2>6 DEF MirrorAsset, IfPut
      <3>2. NextTarget(t) \in TaskState /\ TaskOK(NextTarget(t), held)
        BY <2>3, NextTargetTask
      <3>3. QED
        BY <1>0, <2>4, <3>1, <3>2, TaskStep
    <2>7. QED
      BY <2>5, <2>6
  <1>6. CASE \E posted \in BOOLEAN : AnnounceServe(c, posted)
    <2> DEFINE t == task[c]
    <2>1. t \in AnnounceState /\ Whole(held[t.agent], t.cid)
      BY <1>6, MirrorAt DEF AnnounceServe
    <2>2. /\ t.agent \in Agent /\ t.agent \in Gateway /\ t.cid \in Cid
          /\ t.targets \in SUBSET (Gateway \X Cid)
      BY <1>0, <2>1 DEF AnnounceState
    <2>3. /\ held' = held /\ announced' = announced /\ listed' = listed
          /\ Does(c, NextTarget(t)) /\ serves' \in {serves, serves \cup {<<t.agent, t.cid>>}}
      BY <1>6 DEF AnnounceServe
    <2>4. NextTarget(t) \in TaskState /\ TaskOK(NextTarget(t), held)
      BY <2>2, NextTargetTask
    <2>5. /\ serves' \subseteq Gateway \X Cid
          /\ \A s \in serves' : s \in serves \/ Whole(held'[s[1]], s[2])
      BY <1>0, <2>1, <2>2, <2>3
    <2>6. QED
      BY <1>0, <2>3, <2>4, <2>5, TaskStep
  <1>7. QED
    BY <1>1, <1>2, <1>3, <1>4, <1>5, <1>6 DEF MirrorNext

-------------------------------------------------------------------------------
(* The readers.                                                            *)

LEMMA LargestExists ==
  ASSUME NEW n \in Nat, NEW S, S \subseteq 1..n, S # {}
  PROVE  Max(S) \in S
  <1> DEFINE T == {k \in Nat : \A y \in S : k >= y}
  <1>1. n \in T
    OBVIOUS
  <1> DEFINE Less == {ss \in Nat \X Nat : ss[1] < ss[2]}
  <1>2. OpToRel(<, Nat) = Less
    BY Zenon DEF OpToRel
  <1>3. IsWellFoundedOn(Less, Nat)
    BY <1>2, NatLessThanWellFounded, Zenon
  <1>4. PICK m \in T : \A k \in T : ~(<<k, m>> \in Less)
    <2>1. T \subseteq Nat /\ T # {}
      BY <1>1
    <2> HIDE DEF T, Less
    <2>2. QED
      BY <1>3, <2>1, WFMin
  <1>5. m \in Nat /\ \A k \in T : m <= k
    <2>1. m \in Nat
      OBVIOUS
    <2>2. \A k \in Nat : k < m => <<k, m>> \in Less
      BY <2>1
    <2>3. ASSUME NEW k \in T
          PROVE  k \in Nat /\ ~(k < m)
      BY <1>4, <2>2, <2>3
    <2>4. QED
      BY <2>1, <2>3
  <1>6. \A y \in S : m >= y
    BY <1>4
  <1>7. m \in S
    <2>1. SUFFICES ASSUME m \notin S
                   PROVE  FALSE
      OBVIOUS
    <2>2. \A y \in S : y \in Nat /\ y >= 1 /\ y # m
      BY <2>1
    <2>3. \A y \in S : m - 1 >= y
      BY <1>5, <1>6, <2>2
    <2>4. m - 1 \in Nat
      <3>1. PICK y \in S : TRUE
        OBVIOUS
      <3>2. QED
        BY <1>5, <2>2, <2>3, <3>1
    <2>5. m - 1 \in T
      BY <2>3, <2>4
    <2>6. QED
      BY <1>5, <2>4, <2>5
  <1>8. QED
    BY <1>6, <1>7 DEF Max

LEMMA WantedBlocks ==
  ASSUME NEW x \in Cid
  PROVE  /\ Wanted(x) \in Seq(Block) \ {<<>>}
         /\ Len(Wanted(x)) \in Nat
         /\ x \in Block => Len(Wanted(x)) = 1
  <1>1. CASE x \in Asset
    BY <1>1, TransfersAssumption DEF Wanted
  <1>2. CASE x \notin Asset
    BY <1>2 DEF Wanted, Cid
  <1>3. QED
    BY <1>1, <1>2, TransfersAssumption

\* A step of a reader changes its task and the results alone.
LEMMA ReaderStep ==
  ASSUME IInv, NEW c \in Client, NEW t \in TaskState, Does(c, t), TaskOK(t, held),
         UNCHANGED <<held, serves, announced, listed>>,
         \A r \in results' : r \in results \/ ResultOK(r)
  PROVE  IInv'
  <1>1. held \in [Gateway -> SUBSET Content] /\ serves \subseteq Gateway \X Cid
    BY DEF IInv
  <1>2. QED
    BY <1>1, TaskStep

LEMMA ReadTask ==
  ASSUME NEW t \in AskState \cup ReadState, NEW K,
         t.cmd # "fetch" => t.from = {Home},
         t \in ReadState => ReadOK(t)
  PROVE  t \in TaskState /\ TaskOK(t, K)
  BY DEF UploadState, CopyState, AnnounceState, AskState, ReadState, Reader, TaskState, TaskOK

LEMMA ReadingAt ==
  ASSUME IInv, NEW c \in Client, NEW pc, Reading(c, pc)
  PROVE  /\ pc = "asset" => task[c] \in AskState
         /\ pc = "read" => task[c] \in ReadState /\ ReadOK(task[c])
         /\ pc \in {"asset", "read"} /\ task[c].cmd # "fetch" => task[c].from = {Home}
  <1>1. task[c] \in TaskState /\ TaskOK(task[c], held)
    BY DEF IInv
  <1>2. task[c] \in AskState \cup ReadState
    BY <1>1 DEF Reading, TaskState, UploadState, NextState, CopyState, AnnounceState
  <1>3. QED
    BY <1>1, <1>2 DEF Reading, AskState, ReadState, TaskOK

\* reassembleFile has a content for every block of the manifest.
LEMMA SavedIsWanted ==
  ASSUME NEW x \in Cid, NEW got \in Seq(Block \X {"cut", "good"}), GotOK(x, got),
         Len(got) = Len(Wanted(x)),
         NEW r, r.kind = "saved", r.cid = x, r.got = Reassembled(x, got), Verified(r.got)
  PROVE  ResultOK(r)
  <1> DEFINE n == Len(Wanted(x))
  <1>1. n \in Nat /\ DOMAIN Wanted(x) = 1..n /\ DOMAIN got = 1..n
    BY WantedBlocks
  <1>2. ASSUME NEW i \in 1..n
        PROVE  Reassembled(x, got)[i][1] = Wanted(x)[i]
    <2> DEFINE S == {j \in DOMAIN got : got[j][1] = Wanted(x)[i]}
    <2>1. S \subseteq 1..n /\ i \in S
      BY <1>1 DEF GotOK
    <2>2. Max(S) \in S
      BY <1>1, <2>1, LargestExists
    <2>3. Reassembled(x, got)[i] = got[Max(S)]
      BY <1>1 DEF Reassembled
    <2>4. QED
      BY <2>2, <2>3
  <1>3. DOMAIN r.got = 1..n
    BY <1>1 DEF Reassembled
  <1>4. [i \in DOMAIN r.got |-> r.got[i][1]] = Wanted(x)
    BY <1>1, <1>2, <1>3, WantedBlocks
  <1>5. \A i \in DOMAIN r.got : r.got[i][2] = "good"
    BY DEF Verified
  <1>6. QED
    BY <1>4, <1>5 DEF ResultOK

\* What the web client shows unmarked has all the blocks.
LEMMA WholeIsWanted ==
  ASSUME NEW x \in Cid, NEW got \in Seq(Block \X {"cut", "good"}), GotOK(x, got),
         CutAtHome(got), IsFull(x, got),
         NEW r, r.kind = "whole", r.cid = x, r.got = got
  PROVE  ResultOK(r)
  <1> DEFINE n == Len(Wanted(x))
  <1>1. n \in Nat /\ Len(got) = n /\ DOMAIN got = 1..n
    BY WantedBlocks DEF GotOK, IsFull
  <1>2. [i \in DOMAIN got |-> got[i][1]] = Wanted(x)
    BY <1>1, WantedBlocks DEF GotOK
  <1>3. QED
    BY <1>1, <1>2 DEF ResultOK, CutAtHome

LEMMA ResponseOK ==
  ASSUME NEW c \in Client, task[c] \in ReadState, task[c].cmd # "fetch",
         NEW got \in Seq(Block \X {"cut", "good"}), GotOK(task[c].cid, got), CutAtHome(got),
         Respond(c, got)
  PROVE  Does(c, NoTask) /\ \A r \in results' : r \in results \/ ResultOK(r)
  <1> DEFINE t == task[c]
  <1> DEFINE kind == CASE got = <<>> -> "none"
                       [] t.cmd = "download" /\ got # <<>> -> SendFile(t, got)
                       [] t.cmd = "preview" /\ got # <<>>  ->
                            IF t.cid \in Block THEN ShowBlock(t, got) ELSE ShowAsset(t, got)
  <1> DEFINE new == [cmd |-> t.cmd, cid |-> t.cid,
                     got |-> IF kind = "none" THEN <<>> ELSE got, kind |-> kind]
  <1>1. t.cmd \in {"download", "preview"} /\ t.cid \in Cid
    BY DEF ReadState, Reader
  <1>2. results' = results \cup {new} /\ Does(c, NoTask)
    BY DEF Respond, Answers
  <1>3. kind = "whole" => got # <<>> /\ IsFull(t.cid, got)
    <2>1. CASE got = <<>>
      BY <2>1
    <2>2. CASE got # <<>> /\ t.cmd = "download"
      BY <2>2 DEF SendFile
    <2>3. CASE got # <<>> /\ t.cmd = "preview" /\ t.cid \in Block
      <3>1. Len(got) >= 1
        BY <2>3
      <3>2. IsFull(t.cid, got)
        BY <1>1, <2>3, <3>1, WantedBlocks DEF IsFull
      <3>3. QED
        BY <2>3, <3>2
    <2>4. CASE got # <<>> /\ t.cmd = "preview" /\ t.cid \notin Block
      <3>1. kind = ShowAsset(t, got)
        BY <2>4
      <3>2. QED
        BY <2>4, <3>1 DEF ShowAsset
    <2>5. QED
      BY <1>1, <2>1, <2>2, <2>3, <2>4
  <1>4. kind \in {"none", "whole", "truncated"}
    <2>1. SendFile(t, got) \in {"none", "whole", "truncated"}
      BY DEF SendFile
    <2>2. ShowBlock(t, got) \in {"none", "whole", "truncated"}
      BY DEF ShowBlock
    <2>3. ShowAsset(t, got) \in {"none", "whole", "truncated"}
      BY DEF ShowAsset
    <2>4. QED
      BY <1>1, <2>1, <2>2, <2>3
  <1>5. ResultOK(new)
    <2> HIDE DEF kind
    <2>1. CASE kind = "whole"
      <3>1. new.kind = "whole" /\ new.cid = t.cid /\ new.got = got
        BY <2>1
      <3> HIDE DEF new
      <3>2. QED
        BY <1>1, <1>3, <2>1, <3>1, WholeIsWanted
    <2>2. CASE kind # "whole"
      BY <1>4, <2>2 DEF ResultOK
    <2>3. QED
      BY <2>1, <2>2
  <1>6. QED
    BY <1>2, <1>5

\* One more block, the next that is wanted.
LEMMA Appended ==
  ASSUME NEW t \in ReadState, ReadOK(t), NEW content \in {"cut", "good"},
         t.cmd # "fetch" /\ content = "cut" => <<Home, Head(t.todo)>> \in Cut,
         NEW got, got = Append(t.got, <<Head(t.todo), content>>)
  PROVE  /\ got \in Seq(Block \X {"cut", "good"})
         /\ Len(got) = Len(t.got) + 1
         /\ GotOK(t.cid, got)
         /\ t.cmd # "fetch" => CutAtHome(got)
  <1> DEFINE n == Len(t.got)
             m == Len(t.todo)
             w == Len(Wanted(t.cid))
             e == <<Head(t.todo), content>>
  <1>1. /\ t.got \in Seq(Block \X {"cut", "good"}) /\ t.todo \in Seq(Block) \ {<<>>}
        /\ t.cid \in Cid
    BY DEF ReadState
  <1>2. Head(t.todo) \in Block /\ Head(t.todo) = t.todo[1] /\ m \in Nat \ {0} /\ n \in Nat
    BY <1>1, HeadTailProperties, LenProperties, EmptySeq
  <1>3. w \in Nat /\ n + m = w
    BY <1>1, WantedBlocks DEF ReadOK
  <1>4. e \in Block \X {"cut", "good"} /\ e[1] = t.todo[1] /\ e[2] = content
    BY <1>2
  <1>5. /\ got \in Seq(Block \X {"cut", "good"})
        /\ Len(got) = n + 1
        /\ got[n + 1] = e
        /\ \A i \in 1..n : got[i] = t.got[i]
    BY <1>1, <1>4, AppendProperties
  <1>6. t.todo[1] = Wanted(t.cid)[n + 1]
    BY <1>2 DEF ReadOK
  <1>7. /\ \A i \in 1..n : t.got[i][1] = Wanted(t.cid)[i]
        /\ t.cmd # "fetch" => \A i \in 1..n : t.got[i][2] = "cut" => <<Home, t.got[i][1]>> \in Cut
    BY DEF ReadOK, GotOK, CutAtHome
  <1>8. \A i \in 1..(n + 1) : i \in 1..n \/ i = n + 1
    BY <1>2
  <1> HIDE DEF n, m, w, e
  <1>9. n + 1 <= w
    BY <1>2, <1>3
  <1>10. \A i \in 1..(n + 1) : got[i][1] = Wanted(t.cid)[i]
    BY <1>4, <1>5, <1>6, <1>7, <1>8
  <1>11. GotOK(t.cid, got)
    BY <1>5, <1>9, <1>10 DEF GotOK, w
  <1>12. ASSUME t.cmd # "fetch"
         PROVE  CutAtHome(got)
    <2>1. <<Home, e[1]>> \in Cut \/ e[2] # "cut"
      BY <1>2, <1>4, <1>12
    <2>2. \A i \in 1..(n + 1) : got[i][2] = "cut" => <<Home, got[i][1]>> \in Cut
      BY <1>5, <1>7, <1>8, <1>12, <2>1
    <2>3. QED
      BY <1>5, <2>2 DEF CutAtHome
  <1>13. QED
    BY <1>5, <1>11, <1>12 DEF n

\* What is left to do after it.
LEMMA ReadsOn ==
  ASSUME NEW t \in ReadState, ReadOK(t), Len(t.todo) > 1,
         NEW got \in Seq(Block \X {"cut", "good"}), Len(got) = Len(t.got) + 1,
         GotOK(t.cid, got), t.cmd # "fetch" => CutAtHome(got),
         NEW next, next = [t EXCEPT !.todo = Tail(@), !.got = got]
  PROVE  next \in ReadState /\ ReadOK(next)
  <1> DEFINE n == Len(t.got)
             m == Len(t.todo)
             w == Len(Wanted(t.cid))
  <1>1. /\ t.got \in Seq(Block \X {"cut", "good"}) /\ t.todo \in Seq(Block) \ {<<>>}
        /\ t.cid \in Cid
    BY DEF ReadState
  <1>2. m \in Nat /\ m > 1 /\ n \in Nat
    BY <1>1, LenProperties
  <1>3. w \in Nat /\ n + m = w
    BY <1>1, WantedBlocks DEF ReadOK
  <1>4. \A i \in 1..m : t.todo[i] = Wanted(t.cid)[n + i]
    BY DEF ReadOK
  <1>5. /\ Tail(t.todo) \in Seq(Block) /\ Len(Tail(t.todo)) = m - 1
        /\ \A i \in 1..(m - 1) : Tail(t.todo)[i] = t.todo[i + 1]
    BY <1>1, HeadTailProperties
  <1>6. /\ next.todo = Tail(t.todo) /\ next.got = got
        /\ next.cmd = t.cmd /\ next.cid = t.cid
    BY DEF ReadState
  <1> HIDE DEF n, m, w
  <1>7. m # 1
    BY <1>2
  <1>8. Tail(t.todo) # <<>>
    BY <1>1, <1>7, OneLess DEF m
  <1>9. next \in ReadState
    BY <1>5, <1>8 DEF ReadState
  <1>10. Len(got) + Len(Tail(t.todo)) = w
    <2>1. Len(got) = n + 1
      BY DEF n
    <2>2. (n + 1) + (m - 1) = w
      BY <1>2, <1>3
    <2>3. QED
      BY <1>5, <2>1, <2>2
  <1>11. \A i \in 1..(m - 1) : Tail(t.todo)[i] = Wanted(t.cid)[(n + 1) + i]
    <2> SUFFICES ASSUME NEW i \in 1..(m - 1)
                 PROVE  Tail(t.todo)[i] = Wanted(t.cid)[(n + 1) + i]
      OBVIOUS
    <2>1. i + 1 \in 1..m /\ n + (i + 1) = (n + 1) + i
      BY <1>2
    <2>2. t.todo[i + 1] = Wanted(t.cid)[n + (i + 1)]
      BY <1>4, <2>1
    <2>3. QED
      BY <1>5, <2>1, <2>2
  <1>12. \A i \in 1..Len(next.todo) : next.todo[i] = Wanted(next.cid)[Len(next.got) + i]
    BY <1>5, <1>6, <1>11 DEF n
  <1>13. Len(next.got) + Len(next.todo) = Len(Wanted(next.cid))
    BY <1>6, <1>10 DEF w
  <1>14. QED
    BY <1>6, <1>9, <1>12, <1>13 DEF ReadOK

\* What a reader does with a block it got: the next, or the end.
LEMMA GotTask ==
  ASSUME NEW c \in Client, task[c] \in ReadState, ReadOK(task[c]),
         task[c].cmd # "fetch" => task[c].from = {Home},
         NEW content \in {"cut", "good"},
         task[c].cmd # "fetch" /\ content = "cut" => <<Home, Head(task[c].todo)>> \in Cut,
         Got(c, Head(task[c].todo), content)
  PROVE  \E t \in TaskState :
           Does(c, t) /\ TaskOK(t, held) /\ \A r \in results' : r \in results \/ ResultOK(r)
  <1> DEFINE t == task[c]
             got == Append(t.got, <<Head(t.todo), content>>)
             n == Len(t.todo)
  <1>1. /\ got \in Seq(Block \X {"cut", "good"})
        /\ Len(got) = Len(t.got) + 1
        /\ GotOK(t.cid, got)
        /\ t.cmd # "fetch" => CutAtHome(got)
    BY Appended
  <1>2. t.cid \in Cid /\ t.todo \in Seq(Block) /\ t.todo # <<>>
    BY DEF ReadState
  <1>3. n \in Nat /\ n # 0
    BY <1>2
  <1>4. NoTask \in TaskState /\ TaskOK(NoTask, held)
    BY PlainTask
  <1>5. CASE n > 1 /\ ~Large(t, got)
    <2> DEFINE next == [t EXCEPT !.todo = Tail(@), !.got = got]
    <2>1. Does(c, next) /\ results' = results
      BY <1>5 DEF Got
    <2> HIDE DEF got
    <2>2. next \in ReadState /\ ReadOK(next)
      BY <1>1, <1>5, ReadsOn
    <2>3. next.cmd = t.cmd /\ next.from = t.from
      BY DEF ReadState
    <2>4. next \in TaskState /\ TaskOK(next, held)
      <3> HIDE DEF next
      <3>1. QED
        BY <2>2, <2>3, ReadTask
    <2>5. QED
      BY <2>1, <2>4
  <1>6. CASE ~(n > 1 /\ ~Large(t, got)) /\ t.cmd = "fetch"
    <2>1. Save(c, got)
      BY <1>6 DEF Got
    <2> HIDE DEF got
    <2>2. ~Large(t, got)
      BY <1>6 DEF Large
    <2>3. n = 1
      <3>1. ~(n > 1)
        BY <1>6, <2>2
      <3> HIDE DEF n
      <3>2. QED
        BY <1>3, <3>1
    <2>4. Len(got) = Len(Wanted(t.cid))
      BY <1>1, <2>3 DEF ReadOK
    <2> DEFINE file == Reassembled(t.cid, got)
               new == [cmd |-> t.cmd, cid |-> t.cid, got |-> file, kind |-> "saved"]
    <2>5. \/ Verified(file) /\ results' = results \cup {new}
          \/ results' = results
      BY <2>1 DEF Save, Answers
    <2>6. Does(c, NoTask)
      BY <2>1 DEF Save, Answers
    <2>7. Verified(file) => ResultOK(new)
      <3>1. new.kind = "saved" /\ new.cid = t.cid /\ new.got = file
        OBVIOUS
      <3> HIDE DEF new
      <3>2. QED
        BY <1>1, <1>2, <2>4, <3>1, SavedIsWanted
    <2>8. QED
      BY <1>4, <2>5, <2>6, <2>7
  <1>7. CASE ~(n > 1 /\ ~Large(t, got)) /\ t.cmd # "fetch"
    <2>1. Respond(c, got)
      BY <1>7 DEF Got
    <2> HIDE DEF got
    <2>2. Does(c, NoTask) /\ \A r \in results' : r \in results \/ ResultOK(r)
      BY <1>1, <1>7, <2>1, ResponseOK
    <2>3. QED
      BY <1>4, <2>2
  <1>8. QED
    BY <1>5, <1>6, <1>7

\* Reading begins with nothing got and all that is wanted left to do.
LEMMA BeginsToRead ==
  ASSUME NEW t \in AskState, t.cmd # "fetch" => t.from = {Home}
  PROVE  /\ GetFrom(t, Wanted(t.cid)) \in TaskState
         /\ TaskOK(GetFrom(t, Wanted(t.cid)), held)
  <1> DEFINE next == GetFrom(t, Wanted(t.cid))
             todo == Wanted(t.cid)
  <1>1. t.cid \in Cid /\ todo \in Seq(Block) \ {<<>>} /\ Len(todo) \in Nat
    BY WantedBlocks DEF AskState
  <1>2. /\ next \in ReadState /\ next.cmd = t.cmd /\ next.from = t.from
        /\ next.cid = t.cid /\ next.todo = todo /\ next.got = <<>>
    BY <1>1 DEF GetFrom, AskState, ReadState
  <1>3. ReadOK(next)
    <2>1. GotOK(t.cid, <<>>) /\ CutAtHome(<<>>)
      BY <1>1 DEF GotOK, CutAtHome
    <2>2. Len(<<>>) + Len(todo) = Len(todo) /\ \A i \in 1..Len(todo) : todo[i] = todo[Len(<<>>) + i]
      BY <1>1
    <2> HIDE DEF next
    <2>3. QED
      BY <1>2, <2>1, <2>2 DEF ReadOK
  <1>4. QED
    <2> HIDE DEF next
    <2>1. next \in TaskState /\ TaskOK(next, held)
      BY <1>2, <1>3, ReadTask
    <2>2. QED
      BY <2>1 DEF next

LEMMA StepsOfReaders ==
  ASSUME IInv, NEW c \in Client, ReadNext(c)
  PROVE  IInv'
  <1>0. UNCHANGED <<held, serves, announced, listed>>
    BY DEF ReadNext, Fetch, Download, Preview, GetManifest, ReadBlock, ReadBlockFails
  <1>1. NoTask \in TaskState /\ TaskOK(NoTask, held)
    BY PlainTask
  <1>2. CASE Fetch(c) \/ Download(c) \/ Preview(c)
    <2>1. ResolveGateways \subseteq SUBSET Gateway /\ {Home} \subseteq Gateway
      BY TransfersAssumption DEF ResolveGateways
    <2>2. \E cmd \in Reader, x \in Cid, from \in SUBSET Gateway :
            /\ Does(c, [cmd |-> cmd, pc |-> "asset", cid |-> x, from |-> from])
            /\ cmd # "fetch" => from = {Home}
      <3>1. CASE Fetch(c)
        BY <2>1, <3>1 DEF Fetch, Start, Reader
      <3>2. CASE Download(c)
        BY <2>1, <3>2 DEF Download, Start, Reader
      <3>3. CASE Preview(c)
        BY <2>1, <3>3 DEF Preview, Start, Reader
      <3>4. QED
        BY <1>2, <3>1, <3>2, <3>3
    <2>3. PICK t \in AskState : Does(c, t) /\ (t.cmd # "fetch" => t.from = {Home})
      BY <2>2 DEF AskState
    <2>4. t \in TaskState /\ TaskOK(t, held)
      <3>1. t \notin ReadState
        BY DEF AskState, ReadState
      <3>2. QED
        BY <2>3, <3>1, ReadTask
    <2>5. results' = results
      BY <1>2 DEF Fetch, Download, Preview
    <2>6. QED
      BY <1>0, <2>3, <2>4, <2>5, ReaderStep
  <1>3. CASE GetManifest(c)
    <2> DEFINE t == task[c]
    <2>1. t \in AskState /\ (t.cmd # "fetch" => t.from = {Home})
      BY <1>3, ReadingAt DEF GetManifest
    <2>2. Does(c, GetFrom(t, Wanted(t.cid))) \/ Does(c, NoTask)
      BY <1>3, TransfersAssumption DEF GetManifest, Wanted
    <2>3. results' = results
      BY <1>3 DEF GetManifest
    <2>4. QED
      BY <1>0, <1>1, <2>1, <2>2, <2>3, BeginsToRead, ReaderStep
  <1>4. CASE ReadBlock(c)
    <2> DEFINE t == task[c]
               b == Head(t.todo)
    <2>1. t \in ReadState /\ ReadOK(t) /\ (t.cmd # "fetch" => t.from = {Home})
      BY <1>4, ReadingAt DEF ReadBlock
    <2>2. PICK g \in MayAnswer(t) :
            \/ GetBlock(g, b) \in {"good", "cut"} /\ Got(c, b, GetBlock(g, b))
            \/ t.cmd = "fetch" /\ Got(c, b, GetPaidBlock(g, b))
      BY <1>4 DEF ReadBlock, PayInvoice
    <2>3. GetPaidBlock(g, b) \in {"cut", "good"}
      BY DEF GetPaidBlock
    <2>4. GetBlock(g, b) = "cut" => <<g, b>> \in Cut
      BY DEF GetBlock
    <2>5. t.cmd # "fetch" => g = Home
      BY <2>1 DEF MayAnswer
    <2>6. PICK content \in {"cut", "good"} :
            /\ Got(c, b, content)
            /\ t.cmd # "fetch" /\ content = "cut" => <<Home, b>> \in Cut
      BY <2>2, <2>3, <2>4, <2>5
    <2>7. \E next \in TaskState :
            Does(c, next) /\ TaskOK(next, held) /\ \A r \in results' : r \in results \/ ResultOK(r)
      BY <2>1, <2>6, GotTask
    <2>8. QED
      BY <1>0, <2>7, ReaderStep
  <1>5. CASE ReadBlockFails(c)
    <2> DEFINE t == task[c]
    <2>1. t \in ReadState /\ ReadOK(t)
      BY <1>5, ReadingAt DEF ReadBlockFails
    <2>2. CASE t.cmd = "fetch"
      <3>1. Does(c, NoTask) /\ results' = results
        BY <1>5, <2>2 DEF ReadBlockFails
      <3>2. QED
        BY <1>0, <1>1, <3>1, ReaderStep
    <2>3. CASE t.cmd # "fetch"
      <3>1. Respond(c, t.got)
        BY <1>5, <2>3 DEF ReadBlockFails
      <3>2. t.got \in Seq(Block \X {"cut", "good"}) /\ GotOK(t.cid, t.got) /\ CutAtHome(t.got)
        BY <2>1, <2>3 DEF ReadState, ReadOK
      <3>3. Does(c, NoTask) /\ \A r \in results' : r \in results \/ ResultOK(r)
        BY <2>1, <2>3, <3>1, <3>2, ResponseOK
      <3>4. QED
        BY <1>0, <1>1, <3>3, ReaderStep
    <2>4. QED
      BY <2>2, <2>3
  <1>6. QED
    BY <1>2, <1>3, <1>4, <1>5 DEF ReadNext

-------------------------------------------------------------------------------
LEMMA InvInit == TransfersInit => IInv
  <1> SUFFICES ASSUME TransfersInit
               PROVE  IInv
    OBVIOUS
  <1>1. held \in [Gateway -> SUBSET Content] /\ serves \subseteq Gateway \X Cid
    BY TransfersAssumption DEF TransfersInit, Content
  <1>2. \A c \in Client : task[c] = NoTask /\ task[c] \in TaskState /\ TaskOK(task[c], held)
    BY PlainTask DEF TransfersInit
  <1>3. task \in [Client -> TaskState]
    BY <1>2 DEF TransfersInit
  <1>4. Advertised(announced \cup listed, serves, held)
    BY DEF TransfersInit, Advertised
  <1>5. results = {}
    BY DEF TransfersInit
  <1>6. QED
    BY <1>1, <1>2, <1>3, <1>4, <1>5 DEF IInv

LEMMA InvStep == IInv /\ [TransfersNext]_transferVars => IInv'
  <1> SUFFICES ASSUME IInv, [TransfersNext]_transferVars
               PROVE  IInv'
    OBVIOUS
  <1>1. CASE TransfersNext
    BY <1>1, StepsOfUpload, StepsOfMirror, StepsOfReaders DEF TransfersNext
  <1>2. CASE UNCHANGED transferVars
    BY <1>2 DEF transferVars, IInv
  <1>3. QED
    BY <1>1, <1>2

\* What each command in flight rests on, several requests after it was done, is
\* still so: what it stored is at its gateway, and what it has read is what it wants.
THEOREM TransfersInvariant == TransfersSpec => []IInv
  BY InvInit, InvStep, PTL DEF TransfersSpec

\* Of what uploads announce or list, the gateway they went to has the manifest and
\* every block, and so has an agent's own of what it says it serves, whatever
\* requests failed, whatever commands were killed and whatever cycles overlapped.
THEOREM AdvertisedStaysHeld == TransfersSpec => []AdvertisedIsHeld
  <1>1. IInv => AdvertisedIsHeld
    BY DEF IInv, Advertised, AdvertisedIsHeld, Complete, Whole, HasAll, HasBlocks
  <1>2. QED
    BY <1>1, TransfersInvariant, PTL

\* A file that dupenet fetch saves is the original, whatever gateways answered for
\* its blocks, and what the web client shows without a mark has every block in its
\* place, and is the original but for the files that are cut in its gateway.
THEOREM PartialNeverWhole == TransfersSpec => []NothingPartialAsWhole
  <1>1. IInv => NothingPartialAsWhole
    BY DEF IInv, ResultOK, NothingPartialAsWhole
  <1>2. QED
    BY <1>1, TransfersInvariant, PTL

-------------------------------------------------------------------------------
(* The button that funds a pool.  Until the user closes a dialog, or       *)
(* something comes back into a later one, only the last session can have   *)
(* an invoice that was not credited; and of that one the poll runs, or the *)
(* wallet or a post is under way, or an error is shown.  A poll answered   *)
(* late does not matter: a check under way is not needed for that.         *)

FortifyCall ==
  [of : Session, what : {"request", "wallet", "check", "post"}, n : Nat,
   is : {"sent", "answered", "settled", "open", "found", "rejected", "consumed", "ok"}]

FortifyTypeOK ==
  /\ devMode \in BOOLEAN /\ session \in 0..MaxSessions
  /\ calls \in SUBSET FortifyCall /\ \A c \in calls : c.of <= session
  /\ cycles \in SUBSET [post : Session \X Nat, over : BOOLEAN]
  /\ checks \in [Session -> Nat] /\ polls \in SUBSET (1..session)
  /\ shown \in SUBSET (1..session) /\ paid \in SUBSET shown
  /\ credited \in [Session -> Nat]

\* What is reported as done was credited.
ReportsOK ==
  /\ step.at = "cycling" => step.of \in Session /\ credited[step.of] > 0
  /\ \A c \in calls : c.what = "post" /\ c.is = "ok" => credited[c.of] > 0
  /\ \A p \in cycles : credited[p.post[1]] > 0

\* The wallet pays the invoice of session s, or its event is being posted.
UnderWay(s) == \E c \in calls : c.of = s /\ c.what \in {"wallet", "post"}

\* A payment of session s, if there was one, will be noticed.
Pursued(s) == credited[s] > 0 \/ s \in polls \/ UnderWay(s) \/ step.at = "error"

PursuitOK ==
  ~closed /\ ~crossed =>
    /\ step.at \in {"idle", "picking"} /\ session # 0 => credited[session] > 0
    /\ \A s \in shown : s = session \/ credited[s] > 0
    /\ session \in shown => Pursued(session)

FortifyInv == FortifyTypeOK /\ ReportsOK /\ PursuitOK

\* A call takes another state.
LEMMA CallBecomes ==
  ASSUME FortifyTypeOK, NEW c \in calls, NEW is, Becomes(c, is), UNCHANGED session,
         is \in {"sent", "answered", "settled", "open", "found", "rejected", "consumed", "ok"}
  PROVE  /\ calls' \in SUBSET FortifyCall /\ \A d \in calls' : d.of <= session'
         /\ \A s : UnderWay(s) => UnderWay(s)'
         /\ \A d \in calls' : d \in calls \/ (d.of = c.of /\ d.what = c.what /\ d.is = is)
  <1> DEFINE d == [c EXCEPT !.is = is]
  <1>1. c \in FortifyCall /\ calls' = (calls \ {c}) \cup {d}
    BY DEF FortifyTypeOK, Becomes
  <1>2. d \in FortifyCall /\ d.of = c.of /\ d.what = c.what /\ d.is = is
    BY <1>1 DEF FortifyCall
  <1> HIDE DEF d
  <1>3. calls' \in SUBSET FortifyCall /\ \A e \in calls' : e.of <= session'
    BY <1>1, <1>2 DEF FortifyTypeOK
  <1>4. ASSUME NEW s, UnderWay(s)
        PROVE  UnderWay(s)'
    <2>1. PICK e \in calls : e.of = s /\ e.what \in {"wallet", "post"}
      BY <1>4 DEF UnderWay
    <2>2. CASE e = c
      BY <1>1, <1>2, <2>1, <2>2 DEF UnderWay
    <2>3. CASE e # c
      BY <1>1, <2>1, <2>3 DEF UnderWay
    <2>4. QED
      BY <2>2, <2>3
  <1>5. QED
    BY <1>1, <1>2, <1>3, <1>4

\* A step of the coordinator, or of a call on its way.
LEMMA FortifyAway ==
  ASSUME FortifyInv, UNCHANGED <<devMode, session, step, polls, cycles, closed, crossed>>,
         checks' \in [Session -> Nat],
         shown' = shown, paid' \in SUBSET shown,
         credited' \in [Session -> Nat], \A s \in Session : credited'[s] >= credited[s],
         calls' \in SUBSET FortifyCall, \A c \in calls' : c.of <= session,
         \A c \in calls' : c.what = "post" /\ c.is = "ok" => credited'[c.of] > 0,
         \A s : UnderWay(s) => UnderWay(s)'
  PROVE  FortifyInv'
  <1>1. \A s \in Session : credited[s] > 0 => credited'[s] > 0
    BY DEF FortifyInv, FortifyTypeOK
  <1>2. \A s \in 1..session : s \in Session
    BY FortifyAssumption DEF FortifyInv, FortifyTypeOK, Session
  <1>3. FortifyTypeOK'
    BY DEF FortifyInv, FortifyTypeOK
  <1>4. ReportsOK'
    <2>1. \A p \in cycles : p.post[1] \in Session
      BY DEF FortifyInv, FortifyTypeOK
    <2>2. QED
      BY <1>1, <2>1 DEF FortifyInv, ReportsOK
  <1>5. PursuitOK'
    <2> SUFFICES ASSUME ~closed, ~crossed
                 PROVE  /\ step.at \in {"idle", "picking"} /\ session # 0
                             => credited'[session] > 0
                        /\ \A s \in shown : s = session \/ credited'[s] > 0
                        /\ session \in shown => Pursued(session)'
      BY DEF PursuitOK
    <2>1. session # 0 => session \in Session
      BY FortifyAssumption DEF FortifyInv, FortifyTypeOK, Session
    <2>2. \A s \in shown : s \in Session
      BY <1>2 DEF FortifyInv, FortifyTypeOK
    <2>3. session \in shown => Pursued(session)'
      BY <1>1, <2>2 DEF FortifyInv, PursuitOK, Pursued
    <2>4. QED
      BY <1>1, <2>1, <2>2, <2>3 DEF FortifyInv, PursuitOK
  <1>6. QED
    BY <1>3, <1>4, <1>5 DEF FortifyInv

\* A continuation of session s runs, and leaves its payment pursued.
LEMMA FortifyResumes ==
  ASSUME FortifyInv, NEW s \in Session, Resume(s),
         s <= session \/ (shown' = shown /\ polls' = polls /\ calls' \subseteq calls),
         polls' \subseteq polls \cup {s},
         UNCHANGED <<devMode, session, paid, credited>>, checks' \in [Session -> Nat],
         step'.at \in {"idle", "cycling"} => step'.of = s /\ credited[s] > 0,
         step'.at # "picking",
         calls' \in SUBSET FortifyCall,
         \A c \in calls' : c \in calls \/ (c.of = s /\ c.is = "sent"),
         \A p \in cycles' : /\ p \in [post : Session \X Nat, over : BOOLEAN]
                            /\ credited[p.post[1]] > 0,
         shown' \in {shown, shown \cup {s}},
         Pursued(s)'
  PROVE  FortifyInv'
  <1>1. /\ session \in 0..MaxSessions /\ MaxSessions \in Nat
        /\ s <= session => s \in 1..session
        /\ shown \in SUBSET (1..session) /\ polls \in SUBSET (1..session)
    BY FortifyAssumption DEF FortifyInv, FortifyTypeOK, Session
  <1>2. /\ shown' \in SUBSET (1..session) /\ shown \subseteq shown'
        /\ polls' \in SUBSET (1..session)
    BY <1>1
  <1>3. FortifyTypeOK'
    BY <1>2 DEF FortifyInv, FortifyTypeOK
  <1>4. ReportsOK'
    <2>1. step'.at = "cycling" => step'.of \in Session /\ credited'[step'.of] > 0
      OBVIOUS
    <2>2. \A c \in calls' : c.what = "post" /\ c.is = "ok" => credited'[c.of] > 0
      BY DEF FortifyInv, ReportsOK
    <2>3. \A p \in cycles' : credited'[p.post[1]] > 0
      OBVIOUS
    <2>4. QED
      BY <2>1, <2>2, <2>3 DEF ReportsOK
  <1>5. PursuitOK'
    <2> SUFFICES ASSUME ~closed', ~crossed'
                 PROVE  /\ step'.at \in {"idle", "picking"} /\ session # 0
                             => credited[session] > 0
                        /\ \A x \in shown' : x = session \/ credited[x] > 0
                        /\ Pursued(session)'
      BY DEF PursuitOK
    <2>1. s = session /\ ~closed /\ ~crossed
      BY DEF Resume
    <2>2. \A x \in shown : x = session \/ credited[x] > 0
      BY <2>1 DEF FortifyInv, PursuitOK
    <2>3. \A x \in shown' : x = session \/ credited[x] > 0
      BY <2>1, <2>2
    <2>4. Pursued(session)'
      BY <2>1
    <2>5. QED
      BY <2>1, <2>3, <2>4
  <1>6. QED
    BY <1>3, <1>4, <1>5 DEF FortifyInv

\* What is known of a call, and what remains without it.
LEMMA OneCall ==
  ASSUME FortifyInv, NEW c \in calls
  PROVE  /\ c.of \in Session /\ c.of <= session
         /\ c.what \in {"request", "wallet", "check", "post"} /\ c.n \in Nat
         /\ calls \ {c} \in SUBSET FortifyCall
         /\ c.what = "post" /\ c.is = "ok" => credited[c.of] > 0
         /\ \A p \in cycles : /\ p \in [post : Session \X Nat, over : BOOLEAN]
                              /\ credited[p.post[1]] > 0
  <1>1. c \in FortifyCall
    BY DEF FortifyInv, FortifyTypeOK
  <1>2. QED
    BY <1>1 DEF FortifyInv, FortifyTypeOK, FortifyCall, ReportsOK

\* signAndPost posts or shows an error.
LEMMA SignsOrFails ==
  ASSUME FortifyInv, NEW c \in calls, NEW n \in Nat, SignAndPost(c.of, n, calls \ {c})
  PROVE  /\ step'.at \in {"confirming", "error"}
         /\ calls' \in SUBSET FortifyCall
         /\ \A d \in calls' : d \in calls \/ (d.of = c.of /\ d.is = "sent")
         /\ Pursued(c.of)'
  <1> DEFINE d == Call(c.of, "post", n)
  <1>1. c.of \in Session /\ calls \ {c} \in SUBSET FortifyCall
    BY OneCall
  <1>2. d \in FortifyCall /\ d.of = c.of /\ d.is = "sent" /\ d.what = "post"
    BY <1>1 DEF Call, FortifyCall
  <1> HIDE DEF d
  <1>3. CASE SetState("confirming", c.of) /\ calls' = (calls \ {c}) \cup {d}
    BY <1>1, <1>2, <1>3 DEF SetState, Pursued, UnderWay
  <1>4. CASE SetState("error", c.of) /\ calls' = calls \ {c}
    BY <1>1, <1>4 DEF SetState, Pursued
  <1>5. QED
    BY <1>3, <1>4 DEF SignAndPost, d

\* The invoice is shown and polled for.
LEMMA ShowsAndPolls ==
  ASSUME FortifyInv, NEW c \in calls, ShowInvoice(c.of, calls \ {c})
  PROVE  /\ step'.at = "paying" /\ polls' \subseteq polls \cup {c.of}
         /\ calls' \in SUBSET FortifyCall
         /\ \A d \in calls' : d \in calls \/ (d.of = c.of /\ d.is = "sent")
         /\ Pursued(c.of)'
  <1>1. calls \ {c} \in SUBSET FortifyCall
    BY OneCall
  <1>2. QED
    BY <1>1 DEF ShowInvoice, SetState, StartPoll, Pursued

-------------------------------------------------------------------------------
(* The user and the coordinator.                                           *)

LEMMA FortifyPick ==
  ASSUME FortifyInv, Pick, UNCHANGED site
  PROVE  FortifyInv'
  <1>1. /\ step.at = "idle" /\ step'.at = "picking"
        /\ UNCHANGED <<devMode, session, polls, cycles, calls, checks, shown, paid, credited,
                       closed, crossed>>
    BY DEF Pick, SetState, coordinator, history, site
  <1>2. FortifyTypeOK' /\ ReportsOK'
    BY <1>1 DEF FortifyInv, FortifyTypeOK, ReportsOK
  <1>3. PursuitOK'
    <2> SUFFICES ASSUME ~closed, ~crossed
                 PROVE  /\ session # 0 => credited[session] > 0
                        /\ \A s \in shown : s = session \/ credited[s] > 0
                        /\ session \in shown => credited[session] > 0
      BY <1>1 DEF PursuitOK, Pursued
    <2>1. session # 0 => credited[session] > 0
      BY <1>1 DEF FortifyInv, PursuitOK
    <2>2. session \in shown => session # 0
      BY DEF FortifyInv, FortifyTypeOK
    <2>3. QED
      BY <2>1, <2>2 DEF FortifyInv, PursuitOK
  <1>4. QED
    BY <1>2, <1>3 DEF FortifyInv

LEMMA FortifyReset ==
  ASSUME FortifyInv, Reset, UNCHANGED site
  PROVE  FortifyInv'
  <1>1. /\ step'.at = "idle" /\ closed' /\ cycles' \in SUBSET cycles
        /\ polls' \in SUBSET polls
        /\ UNCHANGED <<devMode, session, calls, checks, shown, paid, credited>>
    BY DEF Reset, SetState, coordinator, site
  <1>2. FortifyTypeOK' /\ ReportsOK' /\ PursuitOK'
    BY <1>1 DEF FortifyInv, FortifyTypeOK, ReportsOK, PursuitOK
  <1>3. QED
    BY <1>2 DEF FortifyInv

\* A new session starts when the last one has nothing left to pursue.
LEMMA FortifyStart ==
  ASSUME FortifyInv, StartFortify, UNCHANGED site
  PROVE  FortifyInv'
  <1> DEFINE c == Call(session + 1, "request", 0)
  <1>1. /\ step.at = "picking" /\ step'.at = "requesting"
        /\ session < MaxSessions /\ session' = session + 1 /\ calls' = calls \cup {c}
        /\ UNCHANGED <<devMode, polls, cycles, checks, shown, paid, credited, closed, crossed>>
    BY DEF StartFortify, AmountsOffered, SetState, coordinator, history, site
  <1>2. session \in 0..MaxSessions /\ MaxSessions \in Nat /\ shown \in SUBSET (1..session)
        /\ polls \in SUBSET (1..session)
    BY FortifyAssumption DEF FortifyInv, FortifyTypeOK
  <1>3. session' \in 1..MaxSessions /\ session' \in Session /\ shown \in SUBSET (1..session')
        /\ polls' \in SUBSET (1..session') /\ session' \notin shown /\ \A s \in shown : s \in 1..session
    BY <1>1, <1>2 DEF Session
  <1>4. c \in FortifyCall /\ c.of = session' /\ c.is = "sent"
    BY <1>1, <1>3 DEF Call, FortifyCall
  <1> HIDE DEF c
  <1>5. \A d \in calls' : d.of <= session'
    <2>1. \A d \in calls : d.of <= session /\ d.of \in Nat
      BY <1>2 DEF FortifyInv, FortifyTypeOK, FortifyCall, Session
    <2>2. QED
      BY <1>1, <1>2, <1>3, <1>4, <2>1
  <1>6. FortifyTypeOK'
    BY <1>1, <1>3, <1>4, <1>5 DEF FortifyInv, FortifyTypeOK
  <1>7. ReportsOK'
    BY <1>1, <1>4 DEF FortifyInv, ReportsOK
  <1>8. PursuitOK'
    <2> SUFFICES ASSUME ~closed, ~crossed, NEW s \in shown
                 PROVE  credited[s] > 0
      BY <1>1, <1>3 DEF PursuitOK
    <2>1. session # 0 /\ credited[session] > 0
      BY <1>1, <1>2, <1>3 DEF FortifyInv, PursuitOK
    <2>2. QED
      BY <2>1 DEF FortifyInv, PursuitOK
  <1>9. QED
    BY <1>6, <1>7, <1>8 DEF FortifyInv

LEMMA FortifyCoordinator ==
  ASSUME FortifyInv, UNCHANGED site,
         \/ \E s \in Session : Pay(s) \/ Forget(s)
         \/ \E c \in calls :
              CreateRequest(c) \/ AnswerCheck(c) \/ AcceptPost(c) \/ ConsumePost(c)
  PROVE  FortifyInv'
  <1>1. CASE \E s \in Session : Pay(s) \/ Forget(s)
    <2>1. /\ UNCHANGED <<devMode, session, step, polls, cycles, calls, closed, crossed, checks,
                         shown, credited>>
          /\ paid' \in SUBSET shown
      BY <1>1 DEF Pay, Forget, site, screen, history, FortifyInv, FortifyTypeOK
    <2>2. /\ credited' \in [Session -> Nat] /\ \A s \in Session : credited'[s] >= credited[s]
          /\ calls' \in SUBSET FortifyCall /\ \A c \in calls' : c.of <= session
          /\ \A c \in calls' : c.what = "post" /\ c.is = "ok" => credited'[c.of] > 0
          /\ \A s : UnderWay(s) => UnderWay(s)'
          /\ checks' \in [Session -> Nat]
      BY <2>1 DEF FortifyInv, FortifyTypeOK, ReportsOK, UnderWay
    <2>3. QED
      BY <2>1, <2>2, FortifyAway
  <1>2. CASE \E c \in calls :
              CreateRequest(c) \/ AnswerCheck(c) \/ AcceptPost(c) \/ ConsumePost(c)
    <2>1. PICK c \in calls :
            CreateRequest(c) \/ AnswerCheck(c) \/ AcceptPost(c) \/ ConsumePost(c)
      BY <1>2
    <2>2. PICK is \in {"answered", "settled", "open", "found", "rejected", "consumed"} :
            Becomes(c, is)
      BY <2>1 DEF CreateRequest, AnswerCheck, AcceptPost, ConsumePost
    <2>3. /\ UNCHANGED <<devMode, session, step, polls, cycles, closed, crossed, checks, shown,
                         paid, credited>>
      BY <2>1 DEF CreateRequest, AnswerCheck, AcceptPost, ConsumePost, site, screen, history,
         coordinator
    <2>4. /\ calls' \in SUBSET FortifyCall /\ \A d \in calls' : d.of <= session
          /\ \A s : UnderWay(s) => UnderWay(s)'
          /\ \A d \in calls' : d \in calls \/ d.is = is
      BY <2>2, <2>3, CallBecomes DEF FortifyInv
    <2>5. /\ credited' \in [Session -> Nat] /\ \A s \in Session : credited'[s] >= credited[s]
          /\ \A d \in calls' : d.what = "post" /\ d.is = "ok" => credited'[d.of] > 0
          /\ paid' \in SUBSET shown /\ checks' \in [Session -> Nat]
      BY <2>2, <2>3, <2>4 DEF FortifyInv, FortifyTypeOK, ReportsOK
    <2>6. QED
      BY <2>3, <2>4, <2>5, FortifyAway
  <1>3. QED
    BY <1>1, <1>2

LEMMA FortifyCredit ==
  ASSUME FortifyInv, UNCHANGED site, NEW c \in calls, CreditPost(c)
  PROVE  FortifyInv'
  <1>1. /\ Becomes(c, "ok") /\ credited' = [credited EXCEPT ![c.of] = @ + 1]
        /\ UNCHANGED <<devMode, session, step, polls, cycles, closed, crossed, checks, shown,
                       paid>>
    BY DEF CreditPost, site, screen, history
  <1>2. c.of \in Session
    BY OneCall
  <1>3. /\ credited' \in [Session -> Nat] /\ \A s \in Session : credited'[s] >= credited[s]
        /\ credited'[c.of] > 0 /\ \A s \in Session : credited[s] > 0 => credited'[s] > 0
    BY <1>1, <1>2 DEF FortifyInv, FortifyTypeOK
  <1>4. /\ calls' \in SUBSET FortifyCall /\ \A d \in calls' : d.of <= session
        /\ \A s : UnderWay(s) => UnderWay(s)'
        /\ \A d \in calls' : d \in calls \/ d.of = c.of
    BY <1>1, CallBecomes DEF FortifyInv
  <1>5. \A d \in calls' : d.what = "post" /\ d.is = "ok" => credited'[d.of] > 0
    <2>1. \A d \in calls' : d.of \in Session
      BY <1>4 DEF FortifyCall
    <2>2. QED
      BY <1>3, <1>4, <2>1 DEF FortifyInv, ReportsOK
  <1>6. paid' \in SUBSET shown /\ checks' \in [Session -> Nat]
    BY <1>1 DEF FortifyInv, FortifyTypeOK
  <1>7. QED
    BY <1>1, <1>3, <1>4, <1>5, <1>6, FortifyAway

-------------------------------------------------------------------------------
(* What comes back to the button.                                          *)

LEMMA FortifyRequest ==
  ASSUME FortifyInv, UNCHANGED site, NEW c \in calls, RequestReturns(c)
  PROVE  FortifyInv'
  <1> DEFINE s == c.of
             w == Call(s, "wallet", 0)
  <1>1. /\ Resume(s) /\ UNCHANGED <<devMode, session, cycles, checks, paid, credited>>
        /\ shown' \in {shown, shown \cup {s}}
    BY DEF RequestReturns, site
  <1>2. \/ SignAndPost(s, 0, calls \ {c}) /\ UNCHANGED polls
        \/ /\ SetState("confirming", s) /\ calls' = (calls \ {c}) \cup {w}
           /\ UNCHANGED polls
        \/ ShowInvoice(s, calls \ {c})
    BY DEF RequestReturns
  <1>3. /\ step'.at \in {"confirming", "error", "paying"} /\ polls' \subseteq polls \cup {s}
        /\ calls' \in SUBSET FortifyCall
        /\ \A d \in calls' : d \in calls \/ (d.of = s /\ d.is = "sent")
        /\ Pursued(s)'
    <2>1. CASE SignAndPost(s, 0, calls \ {c}) /\ UNCHANGED polls
      BY <2>1, SignsOrFails
    <2>2. CASE ShowInvoice(s, calls \ {c})
      BY <2>2, ShowsAndPolls
    <2>3. CASE /\ SetState("confirming", s) /\ calls' = (calls \ {c}) \cup {w}
               /\ UNCHANGED polls
      <3>1. s \in Session /\ calls \ {c} \in SUBSET FortifyCall
        BY OneCall
      <3>2. w \in FortifyCall /\ w.of = s /\ w.is = "sent" /\ w.what = "wallet"
        BY <3>1 DEF Call, FortifyCall
      <3> HIDE DEF w
      <3>3. QED
        BY <2>3, <3>1, <3>2 DEF SetState, Pursued, UnderWay
    <2>4. QED
      BY <1>2, <2>1, <2>2, <2>3
  <1>4. /\ s \in Session /\ s <= session
        /\ \A p \in cycles' : /\ p \in [post : Session \X Nat, over : BOOLEAN]
                              /\ credited[p.post[1]] > 0
        /\ checks' \in [Session -> Nat]
    BY <1>1, OneCall DEF FortifyInv, FortifyTypeOK
  <1> HIDE DEF s
  <1>5. QED
    BY <1>1, <1>3, <1>4, FortifyResumes

LEMMA FortifyWallet ==
  ASSUME FortifyInv, UNCHANGED site, NEW c \in calls, WalletReturns(c)
  PROVE  FortifyInv'
  <1>1. /\ Resume(c.of)
        /\ UNCHANGED <<devMode, session, cycles, checks, shown, paid, credited>>
        /\ \/ SignAndPost(c.of, 0, calls \ {c}) /\ UNCHANGED polls
           \/ ShowInvoice(c.of, calls \ {c})
    BY DEF WalletReturns, site, coordinator
  <1>2. /\ step'.at \in {"confirming", "error", "paying"} /\ polls' \subseteq polls \cup {c.of}
        /\ calls' \in SUBSET FortifyCall
        /\ \A d \in calls' : d \in calls \/ (d.of = c.of /\ d.is = "sent")
        /\ Pursued(c.of)'
    BY <1>1, SignsOrFails, ShowsAndPolls
  <1>3. /\ c.of \in Session /\ c.of <= session
        /\ \A p \in cycles' : /\ p \in [post : Session \X Nat, over : BOOLEAN]
                              /\ credited[p.post[1]] > 0
        /\ checks' \in [Session -> Nat]
    BY <1>1, OneCall DEF FortifyInv, FortifyTypeOK
  <1>4. QED
    BY <1>1, <1>2, <1>3, FortifyResumes

LEMMA FortifySend ==
  ASSUME FortifyInv, UNCHANGED site, NEW s \in Session, SendCheck(s)
  PROVE  FortifyInv'
  <1> DEFINE d == Call(s, "check", checks'[s])
  <1>1. /\ s \in polls /\ checks' = [checks EXCEPT ![s] = @ + 1] /\ calls' = calls \cup {d}
        /\ UNCHANGED <<devMode, session, step, polls, cycles, closed, crossed, shown, paid,
                       credited>>
    BY DEF SendCheck, screen, coordinator, history, site
  <1>2. checks' \in [Session -> Nat] /\ checks'[s] \in Nat
    BY <1>1 DEF FortifyInv, FortifyTypeOK
  <1>3. d \in FortifyCall /\ d.of = s /\ d.is = "sent"
    BY <1>2 DEF Call, FortifyCall
  <1> HIDE DEF d
  <1>4. s <= session
    BY <1>1 DEF FortifyInv, FortifyTypeOK
  <1>5. /\ calls' \in SUBSET FortifyCall /\ \A e \in calls' : e.of <= session
        /\ \A e \in calls' : e.what = "post" /\ e.is = "ok" => credited'[e.of] > 0
    BY <1>1, <1>3, <1>4 DEF FortifyInv, FortifyTypeOK, ReportsOK
  <1>6. \A x : UnderWay(x) => UnderWay(x)'
    BY <1>1 DEF UnderWay
  <1>7. /\ paid' \in SUBSET shown /\ credited' \in [Session -> Nat]
        /\ \A x \in Session : credited'[x] >= credited[x]
    BY <1>1 DEF FortifyInv, FortifyTypeOK
  <1>8. QED
    BY <1>1, <1>2, <1>5, <1>6, <1>7, FortifyAway

\* A check that finds the payment stops a poll and posts; another changes nothing.
LEMMA FortifyCheck ==
  ASSUME FortifyInv, UNCHANGED site, NEW c \in calls, CheckReturns(c)
  PROVE  FortifyInv'
  <1>1. /\ c.what = "check"
        /\ UNCHANGED <<devMode, session, cycles, checks, shown, paid, credited>>
    BY DEF CheckReturns, site, coordinator
  <1>2. CASE c.is = "settled"
    <2>1. /\ Resume(c.of) /\ SignAndPost(c.of, c.n, calls \ {c})
          /\ polls' \subseteq polls \cup {c.of}
      BY <1>2 DEF CheckReturns
    <2>2. /\ c.of \in Session /\ c.of <= session /\ c.n \in Nat
          /\ \A p \in cycles' : /\ p \in [post : Session \X Nat, over : BOOLEAN]
                                /\ credited[p.post[1]] > 0
          /\ checks' \in [Session -> Nat]
      BY <1>1, OneCall DEF FortifyInv, FortifyTypeOK
    <2>3. /\ step'.at \in {"confirming", "error"}
          /\ calls' \in SUBSET FortifyCall
          /\ \A d \in calls' : d \in calls \/ (d.of = c.of /\ d.is = "sent")
          /\ Pursued(c.of)'
      BY <2>1, <2>2, SignsOrFails
    <2>4. QED
      BY <1>1, <2>1, <2>2, <2>3, FortifyResumes
  <1>3. CASE c.is # "settled"
    <2>1. /\ calls' = calls \ {c}
          /\ UNCHANGED <<devMode, session, step, polls, cycles, closed, crossed, checks, shown,
                         paid, credited>>
      BY <1>1, <1>3 DEF CheckReturns, Settles, history
    <2>2. \A s : UnderWay(s) => UnderWay(s)'
      BY <1>1, <2>1 DEF UnderWay
    <2>3. /\ calls' \in SUBSET FortifyCall /\ \A d \in calls' : d.of <= session
          /\ \A d \in calls' : d.what = "post" /\ d.is = "ok" => credited'[d.of] > 0
          /\ paid' \in SUBSET shown /\ checks' \in [Session -> Nat]
          /\ credited' \in [Session -> Nat] /\ \A s \in Session : credited'[s] >= credited[s]
      BY <2>1 DEF FortifyInv, FortifyTypeOK, ReportsOK
    <2>4. QED
      BY <2>1, <2>2, <2>3, FortifyAway
  <1>4. QED
    BY <1>2, <1>3

LEMMA FortifyPost ==
  ASSUME FortifyInv, UNCHANGED site, NEW c \in calls, PostReturns(c)
  PROVE  FortifyInv'
  <1>1. /\ c.what = "post" /\ Resume(c.of) /\ calls' = calls \ {c}
        /\ UNCHANGED <<devMode, session, polls, checks, shown, paid, credited>>
    BY DEF PostReturns, site, coordinator
  <1>2. /\ c.of \in Session /\ c.of <= session /\ c.n \in Nat
        /\ c.is = "ok" => credited[c.of] > 0
        /\ \A p \in cycles : /\ p \in [post : Session \X Nat, over : BOOLEAN]
                             /\ credited[p.post[1]] > 0
        /\ calls' \in SUBSET FortifyCall /\ checks' \in [Session -> Nat]
    BY <1>1, OneCall DEF FortifyInv, FortifyTypeOK
  <1>3. CASE c.is = "ok"
    <2> DEFINE p == [post |-> <<c.of, c.n>>, over |-> FALSE]
    <2>1. /\ step'.at = "cycling" /\ step'.of = c.of /\ cycles' = cycles \cup {p}
      BY <1>3 DEF PostReturns, StartCycle, SetState
    <2>2. p \in [post : Session \X Nat, over : BOOLEAN] /\ p.post[1] = c.of
      BY <1>2
    <2> HIDE DEF p
    <2>3. Pursued(c.of)'
      BY <1>1, <1>2, <1>3 DEF Pursued
    <2>4. QED
      BY <1>1, <1>2, <1>3, <2>1, <2>2, <2>3, FortifyResumes
  <1>4. CASE c.is # "ok"
    <2>1. step'.at = "error" /\ UNCHANGED cycles
      BY <1>4 DEF PostReturns, SetState
    <2>2. Pursued(c.of)'
      BY <2>1 DEF Pursued
    <2>3. QED
      BY <1>1, <1>2, <2>1, <2>2, FortifyResumes
  <1>5. QED
    BY <1>3, <1>4

LEMMA FortifyFails ==
  ASSUME FortifyInv, UNCHANGED site, NEW c \in calls, CallFails(c)
  PROVE  FortifyInv'
  <1>1. /\ Resume(c.of) /\ calls' = calls \ {c} /\ step'.at = "error"
        /\ UNCHANGED <<devMode, session, polls, cycles, checks, shown, paid, credited>>
    BY DEF CallFails, SetState, site, coordinator
  <1>2. /\ c.of \in Session /\ c.of <= session
        /\ \A p \in cycles' : /\ p \in [post : Session \X Nat, over : BOOLEAN]
                              /\ credited[p.post[1]] > 0
        /\ calls' \in SUBSET FortifyCall /\ checks' \in [Session -> Nat]
    BY <1>1, OneCall DEF FortifyInv, FortifyTypeOK
  <1>3. Pursued(c.of)'
    BY <1>1 DEF Pursued
  <1>4. QED
    BY <1>1, <1>2, <1>3, FortifyResumes

\* An animation runs for an event that was credited.
LEMMA FortifyCycle ==
  ASSUME FortifyInv, UNCHANGED site, NEW p \in cycles, CycleTicks(p) \/ CycleEnds(p)
  PROVE  FortifyInv'
  <1> DEFINE s == p.post[1]
  <1>1. /\ Resume(s) /\ step'.at \in {"idle", "cycling"} /\ step'.of = s
        /\ UNCHANGED <<devMode, session, polls, calls, checks, shown, paid, credited>>
    BY DEF CycleTicks, CycleEnds, SetState, site, coordinator
  <1>2. /\ p \in [post : Session \X Nat, over : BOOLEAN] /\ s \in Session /\ credited[s] > 0
        /\ \A q \in cycles : /\ q \in [post : Session \X Nat, over : BOOLEAN]
                             /\ credited[q.post[1]] > 0
        /\ calls' \in SUBSET FortifyCall /\ checks' \in [Session -> Nat]
    BY <1>1 DEF FortifyInv, FortifyTypeOK, ReportsOK
  <1> DEFINE over == [p EXCEPT !.over = TRUE]
  <1>3. over \in [post : Session \X Nat, over : BOOLEAN] /\ over.post = p.post
    BY <1>2
  <1>4. cycles' \subseteq cycles \cup {over}
    BY DEF CycleTicks, CycleEnds
  <1> HIDE DEF over
  <1>5. \A q \in cycles' : /\ q \in [post : Session \X Nat, over : BOOLEAN]
                           /\ credited[q.post[1]] > 0
    BY <1>2, <1>3, <1>4
  <1>6. Pursued(s)'
    BY <1>1, <1>2 DEF Pursued
  <1>7. QED
    BY <1>1, <1>2, <1>5, <1>6, FortifyResumes

LEMMA FortifyStart0 == FortifyInit => FortifyInv
  BY FortifyAssumption DEF FortifyInit, FortifyInv, FortifyTypeOK, ReportsOK, PursuitOK

LEMMA FortifyStep == FortifyInv /\ [FortifyNext]_fortifyVars => FortifyInv'
  <1> SUFFICES ASSUME FortifyInv, [FortifyNext]_fortifyVars
               PROVE  FortifyInv'
    OBVIOUS
  <1>1. CASE UNCHANGED fortifyVars
    BY <1>1 DEF fortifyVars, FortifyInv, FortifyTypeOK, ReportsOK, PursuitOK, Pursued, UnderWay
  <1>2. CASE FortifyNext
    BY <1>2, FortifyPick, FortifyReset, FortifyStart, FortifyCoordinator, FortifyCredit,
       FortifyRequest, FortifyWallet, FortifySend, FortifyCheck, FortifyPost, FortifyFails,
       FortifyCycle DEF FortifyNext
  <1>3. QED
    BY <1>1, <1>2

\* As long as the user closes no dialog and nothing comes back into a later one,
\* an invoice that was paid is credited, polled for or otherwise under way, or an
\* error is on the screen; and success is only shown for what was credited.
THEOREM PaymentsArePursued == FortifySpec => []PaidIsPursued
  <1>1. FortifyInv => PaidIsPursued
    <2> SUFFICES ASSUME FortifyInv
                 PROVE  PaidIsPursued
      OBVIOUS
    <2>1. ASSUME ~closed, ~crossed, NEW s \in paid
          PROVE  \/ credited[s] > 0 \/ s \in polls
                 \/ \E c \in calls : c.of = s
                 \/ step.at = "error"
      <3>1. s \in shown
        BY DEF FortifyInv, FortifyTypeOK
      <3>2. credited[s] > 0 \/ Pursued(s)
        BY <2>1, <3>1 DEF FortifyInv, PursuitOK
      <3>3. QED
        BY <3>2 DEF Pursued, UnderWay
    <2>2. QED
      BY <2>1 DEF PaidIsPursued, FortifyInv, ReportsOK
  <1>2. QED
    BY <1>1, FortifyStart0, FortifyStep, PTL DEF FortifySpec

===============================================================================
