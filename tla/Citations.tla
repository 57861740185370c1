------------------------------- MODULE Citations -------------------------------
(***************************************************************************)
(* What POST /event does with an event once it is admitted (server.ts,     *)
(* views/graph.ts, storeProtocolEvent of views/materializer.ts): append it *)
(* to the log, index it, store an edge for every citation in its body and  *)
(* refresh the edge counts, one query at a time, while other posts do the  *)
(* same; and GET /thread, which reads the index level by level meanwhile.  *)
(* The payment and the pool credit of a funded event come before all this  *)
(* and are in module PaymentIntents, a HOST registration in module Hosts.  *)
(* computeGraphImportance (graph.ts) has no caller.                        *)
(*                                                                         *)
(* An event is a number, its place in the order of timestamps.             *)
(***************************************************************************)
EXTENDS Integers, FiniteSets, Sequences

CONSTANTS
  Worker,      \* handlers of POST /event that may be under way at a time
  Event,
  Item,        \* what is referred to and is no event: CIDs, pool keys
  RefOf,       \* the field ref of an event: an item or an event
  Tokens,      \* the [ref:...] tokens in the body, in their order
  Items,       \* the items of the body, if it is a list
  Replies,     \* the events of kind POST
  Free,        \* the events with no sats
  Mined,       \* the events that carry a proof of work
  RequirePow,  \* config.requireEventPow
  ThreadDepth, \* maxDepth of getThread
  ThreadLimit, \* limit of getThread
  Old,         \* events without citations that are there at the start
  MaxPosts     \* bound on the events posted from then on

Ref == Item \cup Event

ASSUME CitationsAssumption ==
  /\ Event \subseteq Int
  /\ RefOf \in [Event -> Ref]
  /\ Tokens \in [Event -> Seq(Ref)]
  /\ Items \in [Event -> Seq(Ref)]
  /\ Replies \subseteq Event
  /\ Free \subseteq Event
  /\ Mined \subseteq Event
  /\ IsFiniteSet(Old)
  /\ \A e \in Old : e \in Event /\ Tokens[e] = <<>> /\ Items[e] = <<>>
  /\ RequirePow \in BOOLEAN
  /\ ThreadDepth \in Nat \ {0}
  /\ ThreadLimit \in Nat
  /\ MaxPosts \in Nat

\* The id of an event is a hash of what it holds, its ref too: no event leads back to itself.
ASSUME RefsLeadBack ==
  \E age \in [Event -> Event] :
    \A e \in Event : RefOf[e] \in Event => age[RefOf[e]] < age[e]

Post == 0..MaxPosts

VARIABLES
  log,       \* table Event: which post appended which event
  stored,    \* table ProtocolEvent
  edges,     \* table BodyEdge; a row also tells which post wrote it
  inbound,   \* inboundEdges of table GraphImportance
  outbound,  \* outboundEdges of table GraphImportance
  work,      \* where each handler of POST /event stands
  posts,     \* events posted so far
  raced,     \* history: two handlers overlapped or one failed
  thread     \* the GET /thread under way, or the last answer

eventVars == <<log, stored, edges, inbound, outbound, work, posts, raced>>
citationVars == <<eventVars, thread>>

Idle == [pc |-> "idle"]
Busy == {w \in Worker : work[w] # Idle}

Step(w, next) == work' = [work EXCEPT ![w] = next]
Goto(w, pc) == Step(w, [work[w] EXCEPT !.pc = pc])

(***************************************************************************)
(* What the body of an event mentions: the tokens, then the items.  A      *)
(* target is cited once, where it is mentioned first; a citation is the    *)
(* position of that.                                                       *)
(***************************************************************************)
Mentions(e) == Tokens[e] \o Items[e]

IsNew(e, i) == \A j \in 1..(i - 1) : Mentions(e)[j] # Mentions(e)[i]

BodyEdges(e) == {i \in DOMAIN Mentions(e) : IsNew(e, i)}

InRows(r) == {row \in edges : row.target = r}
OutRows(r) == {row \in edges : RefOf[row.event] = r}

(***************************************************************************)
(* POST /event.  The guards on version, kind, hex and signature stop what  *)
(* is no event; of what is left, one without sats may need a proof of work.*)
(* The id is computed from the event: a second post of it has the same.    *)
(***************************************************************************)
Admitted(e) == RequirePow /\ e \in Free => e \in Mined

\* Fault: the index comes first, and the log is forgotten.
IndexFirst == "index"
FirstWrite == "log"

PostEvent(w, e) ==
  /\ work[w] = Idle
  /\ posts < MaxPosts
  /\ Admitted(e)
  /\ posts' = posts + 1
  /\ Step(w, [pc |-> FirstWrite, event |-> e, post |-> posts'])
  /\ raced' = (raced \/ Busy # {})
  /\ UNCHANGED <<log, stored, edges, inbound, outbound, thread>>

AppendEvent(w) ==
  /\ work[w].pc = "log"
  /\ log' = log \cup {[event |-> work[w].event, post |-> work[w].post]}
  /\ Goto(w, "index")
  /\ UNCHANGED <<stored, edges, inbound, outbound, posts, raced, thread>>

\* storeProtocolEvent: the unique key stops a second row, and the error is dropped.
StoreEvent(w) ==
  /\ work[w].pc = "index"
  /\ stored' = stored \cup {work[w].event}
  /\ IF BodyEdges(work[w].event) = {} THEN Step(w, Idle) ELSE Goto(w, "edges")
  /\ UNCHANGED <<log, edges, inbound, outbound, posts, raced, thread>>

\* The rows that a post of e writes.
Rows(e, post) ==
  {[event |-> e, post |-> post, target |-> Mentions(e)[i]] : i \in BodyEdges(e)}

\* storeBodyEdges: no key of the table is unique, and every row is written.
StoreEdges(w) ==
  /\ work[w].pc = "edges"
  /\ edges' = edges \cup Rows(work[w].event, work[w].post)
  /\ Goto(w, "countOut")
  /\ UNCHANGED <<log, stored, inbound, outbound, posts, raced, thread>>

(***************************************************************************)
(* updateEdgeCounts: a count and an upsert for the ref of the event, then  *)
(* a count and an upsert for each target.                                  *)
(***************************************************************************)
CountOut(w) ==
  /\ work[w].pc = "countOut"
  /\ Step(w, [pc |-> "writeOut", event |-> work[w].event, post |-> work[w].post,
              count |-> Cardinality(OutRows(RefOf[work[w].event])),
              todo |-> BodyEdges(work[w].event)])
  /\ UNCHANGED <<log, stored, edges, inbound, outbound, posts, raced, thread>>

\* Fault: the count is added to the one that was there.
Added(old, count) == old + count
Written(old, count) == count

WriteOut(w) ==
  /\ work[w].pc = "writeOut"
  /\ outbound' = [outbound EXCEPT ![RefOf[work[w].event]] = Written(@, work[w].count)]
  /\ Step(w, [pc |-> "countIn", event |-> work[w].event, post |-> work[w].post,
              todo |-> work[w].todo])
  /\ UNCHANGED <<log, stored, edges, inbound, posts, raced, thread>>

CountIn(w) ==
  /\ work[w].pc = "countIn"
  /\ \E i \in work[w].todo :
       LET target == Mentions(work[w].event)[i]
       IN  /\ \A j \in work[w].todo : i <= j
           /\ Step(w, [pc |-> "writeIn", event |-> work[w].event, post |-> work[w].post,
                       count |-> Cardinality(InRows(target)), target |-> target,
                       todo |-> work[w].todo \ {i}])
  /\ UNCHANGED <<log, stored, edges, inbound, outbound, posts, raced, thread>>

\* Fault: only the first target is refreshed.
NoneLeft(w) == TRUE
LastTarget(w) == work[w].todo = {}

WriteIn(w) ==
  /\ work[w].pc = "writeIn"
  /\ inbound' = [inbound EXCEPT ![work[w].target] = Written(@, work[w].count)]
  /\ Step(w, IF LastTarget(w) THEN Idle
             ELSE [pc |-> "countIn", event |-> work[w].event, post |-> work[w].post,
                   todo |-> work[w].todo])
  /\ UNCHANGED <<log, stored, edges, outbound, posts, raced, thread>>

\* A query throws (two upserts may both try to create a row), or the process stops.
Fail(w) ==
  /\ work[w] # Idle
  /\ Step(w, Idle)
  /\ raced' = TRUE
  /\ UNCHANGED <<log, stored, edges, inbound, outbound, posts, thread>>

(***************************************************************************)
(* GET /thread/:event_id, getThread and collectReplies: one query for the  *)
(* root, then one for each level, oldest first, for as many replies as the *)
(* limit leaves.  A tree is the set of its replies: each has one parent.   *)
(***************************************************************************)
NoThread == [pc |-> "none"]

OpenThread(e) ==
  /\ e \in stored
  /\ thread' = [pc |-> "level", root |-> e, before |-> stored, parents |-> {e},
                depth |-> ThreadDepth, limit |-> ThreadLimit, replies |-> {}]
  /\ UNCHANGED eventVars

Oldest(S, n) == {e \in S : Cardinality({d \in S : d < e}) < n}

\* Fault: every level may be as large as the whole thread.
SameLimit(limit, found) == limit
RestOfLimit(limit, found) == limit - Cardinality(found)

CollectReplies ==
  /\ thread.pc = "level"
  /\ LET found == Oldest({e \in stored \cap Replies : RefOf[e] \in thread.parents},
                         thread.limit)
         rest == RestOfLimit(thread.limit, found)
     IN thread' = [thread EXCEPT
          !.pc = IF found = {} \/ thread.depth = 1 \/ rest <= 0 THEN "sent" ELSE "level",
          !.parents = found,
          !.depth = @ - 1,
          !.limit = rest,
          !.replies = @ \cup found]
  /\ UNCHANGED eventVars

-------------------------------------------------------------------------------
CitationsInit ==
  /\ log = [event : Old, post : {0}]
  /\ stored = Old
  /\ edges = {}
  /\ inbound = [r \in Ref |-> 0]
  /\ outbound = [r \in Ref |-> 0]
  /\ work = [w \in Worker |-> Idle]
  /\ posts = 0
  /\ raced = FALSE
  /\ thread = NoThread

CitationsNext ==
  \/ \E w \in Worker :
       \/ \E e \in Event : PostEvent(w, e)
       \/ AppendEvent(w)
       \/ StoreEvent(w)
       \/ StoreEdges(w)
       \/ CountOut(w)
       \/ WriteOut(w)
       \/ CountIn(w)
       \/ WriteIn(w)
       \/ Fail(w)
  \/ \E e \in Event : OpenThread(e)
  \/ CollectReplies

CitationsSpec == CitationsInit /\ [][CitationsNext]_citationVars

\* GET /content/:ref/signals: what it says of the citations and the discussion of a ref.
Signals(r) ==
  [inbound_edges |-> inbound[r],
   outbound_edges |-> outbound[r],
   discussion_depth |-> Cardinality({e \in stored \cap Replies : RefOf[e] = r})]

\* The events of which the log has an entry.
Logged == {e \in Event : \E entry \in log : entry.event = e}

(***************************************************************************)
(* What is shown of a ref never says more than there is: the counts are    *)
(* not above the rows of BodyEdge, nor the discussion above the replies in *)
(* the log, whatever handlers overlap or fail; a handler may put back an   *)
(* older count, so they may stay below.                                    *)
(***************************************************************************)
CountsNeverAbove ==
  \A r \in Ref :
    /\ Signals(r).inbound_edges <= Cardinality(InRows(r))
    /\ Signals(r).outbound_edges <= Cardinality(OutRows(r))
    /\ Signals(r).discussion_depth <= Cardinality({e \in Logged \cap Replies : RefOf[e] = r})

(***************************************************************************)
(* As long as handlers neither overlap nor fail, the counts are those of   *)
(* the rows whenever none is at work: every target of an event is counted. *)
(***************************************************************************)
CountsExactAlone ==
  ~raced /\ Busy = {} =>
    \A r \in Ref : /\ inbound[r] = Cardinality(InRows(r))
                   /\ outbound[r] = Cardinality(OutRows(r))

(***************************************************************************)
(* The log comes first: what a view shows, an event or an edge, is in the  *)
(* log, by the same post for an edge, so that a replay finds it; a failure *)
(* in between never leaves a view ahead of the log.                        *)
(***************************************************************************)
ViewsFollowLog ==
  /\ stored \subseteq Logged
  /\ \A row \in edges : /\ row.event \in stored
                        /\ [event |-> row.event, post |-> row.post] \in log

\* The events of a set that answer r, or answer one that does, down to a depth.
Below(S, r) ==
  LET level[n \in 0..ThreadDepth] ==
        IF n = 0 THEN {r}
        ELSE {r} \cup {e \in S \cap Replies : RefOf[e] \in level[n - 1]}
  IN level[ThreadDepth] \ {r}

(***************************************************************************)
(* A thread read level by level while events arrive is a tree: it stays    *)
(* within its limit, holds only replies that are below its root, and,      *)
(* unless the limit cut it, every reply that was there when it was opened. *)
(***************************************************************************)
ThreadIsTree ==
  thread.pc = "sent" =>
    /\ Cardinality(thread.replies) <= ThreadLimit
    /\ thread.replies \subseteq Below(stored, thread.root)
    /\ \/ Below(thread.before, thread.root) \subseteq thread.replies
       \/ Cardinality(thread.replies) = ThreadLimit

\* Where a handler of POST /event stands.
WorkState ==
  {Idle}
  \cup [pc : {"log", "index", "edges", "countOut"}, event : Event, post : Post]
  \cup [pc : {"writeOut"}, event : Event, post : Post, count : Nat, todo : SUBSET Nat]
  \cup [pc : {"countIn"}, event : Event, post : Post, todo : SUBSET Nat]
  \cup [pc : {"writeIn"}, event : Event, post : Post, count : Nat, target : Ref,
        todo : SUBSET Nat]

CitationsTypeOK ==
  /\ log \subseteq [event : Event, post : Post]
  /\ stored \subseteq Event
  /\ edges \subseteq [event : Event, target : Ref, post : Post]
  /\ inbound \in [Ref -> Nat]
  /\ outbound \in [Ref -> Nat]
  /\ work \in [Worker -> WorkState]
  /\ posts \in Post
  /\ raced \in BOOLEAN

================================================================================
