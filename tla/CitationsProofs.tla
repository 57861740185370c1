---------------------------- MODULE CitationsProofs ----------------------------
(***************************************************************************)
(* Proofs about the citations, for every number of handlers, every set of  *)
(* events and whatever their bodies mention: the counts shown of a ref are *)
(* never above what there is, and exact after a handler that met no other; *)
(* the views are never ahead of the log; and a thread read while replies   *)
(* arrive is a tree within its limit from which nothing is missing.        *)
(***************************************************************************)
EXTENDS Citations, TotalsProofs, FiniteSetTheorems, SequenceTheorems, TLAPS

Rowset == [event : Event, target : Ref, post : Post]

OutOf(E, r) == {row \in E : RefOf[row.event] = r}
InTo(E, r) == {row \in E : row.target = r}

\* What a handler in state x rests on, in a log L, an index S and edges E: its own post is
\* in the tables it has written, and a count it holds is not above the rows.
WorkOK(x, L, S, E) ==
  /\ x \in WorkState
  /\ x.pc \in {"writeOut", "countIn", "writeIn"} => x.todo \subseteq BodyEdges(x.event)
  /\ x.pc \in {"index", "edges", "countOut", "writeOut", "countIn", "writeIn"}
       => [event |-> x.event, post |-> x.post] \in L
  /\ x.pc \in {"edges", "countOut", "writeOut", "countIn", "writeIn"} => x.event \in S
  /\ x.pc = "writeOut" => x.count <= Cardinality(OutOf(E, RefOf[x.event]))
  /\ x.pc = "writeIn" => x.count <= Cardinality(InTo(E, x.target))

LogOK ==
  /\ log \subseteq [event : Event, post : Post]
  /\ IsFiniteSet(Logged)
  /\ stored \subseteq Logged

EdgesOK ==
  /\ edges \subseteq Rowset
  /\ IsFiniteSet(edges)
  /\ \A row \in edges : /\ row.event \in stored
                        /\ [event |-> row.event, post |-> row.post] \in log

CountsOK ==
  /\ inbound \in [Ref -> Nat]
  /\ outbound \in [Ref -> Nat]
  /\ \A r \in Ref : /\ inbound[r] <= Cardinality(InTo(edges, r))
                    /\ outbound[r] <= Cardinality(OutOf(edges, r))

WorkersOK ==
  /\ work \in [Worker -> WorkState]
  /\ \A w \in Worker : WorkOK(work[w], log, stored, edges)

IInv ==
  /\ LogOK
  /\ EdgesOK
  /\ CountsOK
  /\ WorkersOK
  /\ posts \in Post
  /\ raced \in BOOLEAN

-------------------------------------------------------------------------------
(* The rows of a post, and counts of rows.                                 *)

LEMMA MentionsAreRefs ==
  ASSUME NEW e \in Event
  PROVE  /\ BodyEdges(e) \subseteq Nat
         /\ IsFiniteSet(BodyEdges(e))
         /\ \A i \in BodyEdges(e) : Mentions(e)[i] \in Ref
  <1>1. Tokens[e] \in Seq(Ref) /\ Items[e] \in Seq(Ref)
    BY CitationsAssumption
  <1>2. Mentions(e) \in Seq(Ref)
    BY <1>1, ConcatProperties DEF Mentions
  <1>3. /\ DOMAIN Mentions(e) = 1..Len(Mentions(e)) /\ Len(Mentions(e)) \in Nat
        /\ \A i \in DOMAIN Mentions(e) : Mentions(e)[i] \in Ref
    BY <1>2, LenProperties, ElementOfSeq
  <1>4. IsFiniteSet(DOMAIN Mentions(e))
    BY <1>3, FS_Interval
  <1>5. BodyEdges(e) \in SUBSET DOMAIN Mentions(e)
    BY DEF BodyEdges
  <1>6. IsFiniteSet(BodyEdges(e))
    BY <1>4, <1>5, FS_Subset
  <1>7. QED
    BY <1>3, <1>5, <1>6

LEMMA RowsAreFinite ==
  ASSUME NEW e \in Event, NEW post \in Post
  PROVE  Rows(e, post) \subseteq Rowset /\ IsFiniteSet(Rows(e, post))
  <1> DEFINE row(i) == [event |-> e, post |-> post, target |-> Mentions(e)[i]]
             f == [i \in BodyEdges(e) |-> row(i)]
  <1>1. Rows(e, post) \subseteq Rowset
    BY MentionsAreRefs DEF Rows, Rowset
  <1>2. f \in Surjection(BodyEdges(e), Rows(e, post))
    BY DEF Surjection, Rows
  <1>3. QED
    BY <1>1, <1>2, MentionsAreRefs, FS_Surjection

LEMMA CountsAreNat ==
  ASSUME NEW E, IsFiniteSet(E), NEW r
  PROVE  Cardinality(InTo(E, r)) \in Nat /\ Cardinality(OutOf(E, r)) \in Nat
  <1>1. InTo(E, r) \in SUBSET E /\ OutOf(E, r) \in SUBSET E
    BY DEF InTo, OutOf
  <1>2. IsFiniteSet(InTo(E, r)) /\ IsFiniteSet(OutOf(E, r))
    BY <1>1, FS_Subset
  <1>3. QED
    BY <1>2, FS_CardinalityType

LEMMA CountsGrow ==
  ASSUME NEW E, NEW F, E \subseteq F, IsFiniteSet(F), NEW r
  PROVE  /\ Cardinality(InTo(E, r)) <= Cardinality(InTo(F, r))
         /\ Cardinality(OutOf(E, r)) <= Cardinality(OutOf(F, r))
         /\ Cardinality(InTo(E, r)) \in Nat /\ Cardinality(InTo(F, r)) \in Nat
         /\ Cardinality(OutOf(E, r)) \in Nat /\ Cardinality(OutOf(F, r)) \in Nat
  <1>1. /\ InTo(F, r) \in SUBSET F /\ OutOf(F, r) \in SUBSET F
        /\ InTo(E, r) \in SUBSET InTo(F, r) /\ OutOf(E, r) \in SUBSET OutOf(F, r)
    BY DEF InTo, OutOf
  <1>2. IsFiniteSet(InTo(F, r)) /\ IsFiniteSet(OutOf(F, r))
    BY <1>1, FS_Subset
  <1>3. /\ Cardinality(InTo(E, r)) <= Cardinality(InTo(F, r))
        /\ Cardinality(OutOf(E, r)) <= Cardinality(OutOf(F, r))
    BY <1>1, <1>2, FS_Subset
  <1>4. E \in SUBSET F
    OBVIOUS
  <1>5. IsFiniteSet(E)
    BY <1>4, FS_Subset
  <1>6. QED
    BY <1>3, <1>5, CountsAreNat

-------------------------------------------------------------------------------
(* The handlers.                                                           *)

LEMMA WorkCases ==
  ASSUME NEW x \in WorkState
  PROVE  /\ x.pc \in {"idle", "log", "index", "edges", "countOut", "writeOut", "countIn",
                      "writeIn"}
         /\ x.pc # "idle" => x.event \in Event /\ x.post \in Post
         /\ x.pc \in {"log", "index", "edges", "countOut"}
              => x = [pc |-> x.pc, event |-> x.event, post |-> x.post]
         /\ x.pc \in {"writeOut", "countIn", "writeIn"} => x.todo \in SUBSET Nat
         /\ x.pc \in {"writeOut", "writeIn"} => x.count \in Nat
         /\ x.pc = "writeIn" => x.target \in Ref
  BY DEF WorkState, Idle

LEMMA WorkGrows ==
  ASSUME NEW x, NEW L, NEW M, NEW S, NEW T, NEW E, NEW F,
         WorkOK(x, L, S, E), L \subseteq M, S \subseteq T, E \subseteq F, IsFiniteSet(F)
  PROVE  WorkOK(x, M, T, F)
  <1>1. x \in WorkState
    BY DEF WorkOK
  <1>2. ASSUME x.pc = "writeOut"
        PROVE  x.count <= Cardinality(OutOf(F, RefOf[x.event]))
    <2> DEFINE old == Cardinality(OutOf(E, RefOf[x.event]))
               new == Cardinality(OutOf(F, RefOf[x.event]))
    <2>1. old <= new /\ old \in Nat /\ new \in Nat
      BY CountsGrow
    <2>2. x.count <= old /\ x.count \in Nat
      BY <1>1, <1>2, WorkCases DEF WorkOK
    <2> HIDE DEF old, new
    <2>3. x.count <= new
      BY <2>1, <2>2
    <2>4. QED
      BY <2>3 DEF new
  <1>3. ASSUME x.pc = "writeIn"
        PROVE  x.count <= Cardinality(InTo(F, x.target))
    <2> DEFINE old == Cardinality(InTo(E, x.target))
               new == Cardinality(InTo(F, x.target))
    <2>1. old <= new /\ old \in Nat /\ new \in Nat
      BY CountsGrow
    <2>2. x.count <= old /\ x.count \in Nat
      BY <1>1, <1>3, WorkCases DEF WorkOK
    <2> HIDE DEF old, new
    <2>3. x.count <= new
      BY <2>1, <2>2
    <2>4. QED
      BY <2>3 DEF new
  <1>4. QED
    BY <1>2, <1>3 DEF WorkOK

\* Handler w goes on to x while the tables grow, or stay.
LEMMA WorkSteps ==
  ASSUME IInv, NEW w \in Worker, NEW x, Step(w, x),
         log \subseteq log', stored \subseteq stored', edges \subseteq edges',
         IsFiniteSet(edges'), WorkOK(x, log', stored', edges')
  PROVE  WorkersOK'
  <1>1. work' = [work EXCEPT ![w] = x] /\ work \in [Worker -> WorkState]
    BY DEF Step, IInv, WorkersOK
  <1>2. \A v \in Worker : work'[v] = IF v = w THEN x ELSE work[v]
    BY <1>1
  <1>3. x \in WorkState
    BY DEF WorkOK
  <1>4. work' \in [Worker -> WorkState]
    BY <1>1, <1>3
  <1>5. ASSUME NEW v \in Worker
        PROVE  WorkOK(work'[v], log', stored', edges')
    <2>1. CASE v = w
      BY <1>2, <2>1
    <2>2. CASE v # w
      <3>1. work'[v] = work[v]
        BY <1>2, <2>2
      <3>2. WorkOK(work[v], log, stored, edges)
        BY DEF IInv, WorkersOK
      <3>3. WorkOK(work[v], log', stored', edges')
        BY <3>2, WorkGrows
      <3>4. QED
        BY <3>1, <3>3
    <2>3. QED
      BY <2>1, <2>2
  <1>6. QED
    BY <1>4, <1>5 DEF WorkersOK

\* A step of handler w that leaves the tables alone.
LEMMA TablesStay ==
  ASSUME IInv, NEW w \in Worker, NEW x, Step(w, x), WorkOK(x, log, stored, edges),
         UNCHANGED <<log, stored, edges, inbound, outbound>>,
         posts' \in Post, raced' \in BOOLEAN
  PROVE  IInv'
  <1>1. LogOK' /\ EdgesOK' /\ CountsOK'
    BY DEF IInv, LogOK, Logged, EdgesOK, CountsOK
  <1>2. WorkOK(x, log', stored', edges') /\ IsFiniteSet(edges')
    BY DEF IInv, EdgesOK
  <1>3. WorkersOK'
    BY <1>2, WorkSteps
  <1>4. QED
    BY <1>1, <1>3 DEF IInv

LEMMA WorkOf ==
  ASSUME IInv, NEW w \in Worker
  PROVE  /\ work[w] \in WorkState
         /\ WorkOK(work[w], log, stored, edges)
  BY DEF IInv, WorkersOK

LEMMA DoPost ==
  ASSUME IInv, NEW w \in Worker, NEW e \in Event, PostEvent(w, e)
  PROVE  IInv'
  <1> DEFINE x == [pc |-> FirstWrite, event |-> e, post |-> posts']
  <1>1. posts' \in Post
    BY CitationsAssumption DEF PostEvent, IInv, Post
  <1>2. WorkOK(x, log, stored, edges)
    BY <1>1 DEF WorkOK, WorkState, FirstWrite
  <1>3. /\ Step(w, x) /\ raced' \in BOOLEAN
        /\ UNCHANGED <<log, stored, edges, inbound, outbound>>
    BY DEF PostEvent, IInv
  <1> HIDE DEF x
  <1>4. QED
    BY <1>1, <1>2, <1>3, TablesStay

LEMMA DoAppend ==
  ASSUME IInv, NEW w \in Worker, AppendEvent(w)
  PROVE  IInv'
  <1> DEFINE e == work[w].event
             entry == [event |-> e, post |-> work[w].post]
             x == [work[w] EXCEPT !.pc = "index"]
  <1>1. /\ work[w].pc = "log"
        /\ log' = log \cup {entry}
        /\ Step(w, x)
        /\ UNCHANGED <<stored, edges, inbound, outbound, posts, raced>>
    BY DEF AppendEvent, Goto
  <1>2. e \in Event /\ work[w].post \in Post
    BY <1>1, WorkOf, WorkCases
  <1>3. x = [pc |-> "index", event |-> e, post |-> work[w].post]
    BY <1>1, WorkOf, WorkCases
  <1>4. Logged' = Logged \cup {e}
    <2>1. entry \in log' /\ entry.event = e
      BY <1>1
    <2>2. ASSUME NEW d \in Event
          PROVE  (\E n \in log' : n.event = d) <=> (\E n \in log : n.event = d) \/ d = e
      <3> HIDE DEF entry
      <3>1. log' = log \cup {entry}
        BY <1>1
      <3>2. QED
        BY <2>1, <3>1
    <2>3. QED
      BY <1>2, <2>2 DEF Logged
  <1>5. LogOK'
    BY <1>1, <1>2, <1>4, FS_AddElement DEF IInv, LogOK
  <1>6. EdgesOK' /\ CountsOK'
    BY <1>1 DEF IInv, EdgesOK, CountsOK
  <1>7. WorkOK(x, log', stored', edges')
    BY <1>1, <1>2, <1>3 DEF WorkOK, WorkState
  <1>8. log \subseteq log' /\ IsFiniteSet(edges')
    BY <1>1, <1>6 DEF EdgesOK
  <1> HIDE DEF x
  <1>9. WorkersOK'
    BY <1>1, <1>7, <1>8, WorkSteps
  <1>10. QED
    BY <1>1, <1>5, <1>6, <1>9 DEF IInv

LEMMA DoStore ==
  ASSUME IInv, NEW w \in Worker, StoreEvent(w)
  PROVE  IInv'
  <1> DEFINE e == work[w].event
             y == [work[w] EXCEPT !.pc = "edges"]
  <1>1. /\ work[w].pc = "index"
        /\ stored' = stored \cup {e}
        /\ Step(w, Idle) \/ Step(w, y)
        /\ UNCHANGED <<log, edges, inbound, outbound, posts, raced>>
    BY DEF StoreEvent, Goto
  <1>2. /\ e \in Event /\ work[w].post \in Post
        /\ [event |-> e, post |-> work[w].post] \in log
    BY <1>1, WorkOf, WorkCases DEF WorkOK
  <1>3. y = [pc |-> "edges", event |-> e, post |-> work[w].post]
    BY <1>1, WorkOf, WorkCases
  <1>4. LogOK'
    BY <1>1, <1>2 DEF IInv, LogOK, Logged
  <1>5. EdgesOK' /\ CountsOK'
    BY <1>1 DEF IInv, EdgesOK, CountsOK
  <1>6. /\ WorkOK(Idle, log', stored', edges')
        /\ WorkOK(y, log', stored', edges')
    BY <1>1, <1>2, <1>3 DEF WorkOK, WorkState, Idle
  <1>7. stored \subseteq stored' /\ IsFiniteSet(edges')
    BY <1>1, <1>5 DEF EdgesOK
  <1> HIDE DEF y
  <1>8. WorkersOK'
    BY <1>1, <1>6, <1>7, WorkSteps
  <1>9. QED
    BY <1>1, <1>4, <1>5, <1>8 DEF IInv

LEMMA DoEdges ==
  ASSUME IInv, NEW w \in Worker, StoreEdges(w)
  PROVE  IInv'
  <1> DEFINE e == work[w].event
             new == Rows(e, work[w].post)
             x == [work[w] EXCEPT !.pc = "countOut"]
  <1>1. /\ work[w].pc = "edges"
        /\ edges' = edges \cup new
        /\ Step(w, x)
        /\ UNCHANGED <<log, stored, inbound, outbound, posts, raced>>
    BY DEF StoreEdges, Goto
  <1>2. /\ e \in Event /\ work[w].post \in Post /\ e \in stored
        /\ [event |-> e, post |-> work[w].post] \in log
    BY <1>1, WorkOf, WorkCases DEF WorkOK
  <1>3. x = [pc |-> "countOut", event |-> e, post |-> work[w].post]
    BY <1>1, WorkOf, WorkCases
  <1>4. LogOK'
    BY <1>1 DEF IInv, LogOK, Logged
  <1>5. new \subseteq Rowset /\ IsFiniteSet(new)
    BY <1>2, RowsAreFinite
  <1>6. \A row \in new : row.event = e /\ row.post = work[w].post
    BY DEF Rows
  <1> HIDE DEF new, x
  <1>7. edges' \subseteq Rowset /\ IsFiniteSet(edges')
    BY <1>1, <1>5, FS_Union DEF IInv, EdgesOK
  <1>8. EdgesOK'
    BY <1>1, <1>2, <1>6, <1>7 DEF IInv, EdgesOK
  <1>9. ASSUME NEW r \in Ref
        PROVE  /\ inbound[r] <= Cardinality(InTo(edges', r))
               /\ outbound[r] <= Cardinality(OutOf(edges', r))
    <2> DEFINE in == Cardinality(InTo(edges, r))
               out == Cardinality(OutOf(edges, r))
               inNew == Cardinality(InTo(edges', r))
               outNew == Cardinality(OutOf(edges', r))
    <2>1. /\ inbound[r] \in Nat /\ outbound[r] \in Nat
          /\ inbound[r] <= in /\ outbound[r] <= out
      BY DEF IInv, CountsOK
    <2>2. /\ in <= inNew /\ out <= outNew
          /\ in \in Nat /\ out \in Nat /\ inNew \in Nat /\ outNew \in Nat
      BY <1>1, <1>7, CountsGrow
    <2> HIDE DEF in, out, inNew, outNew
    <2>3. inbound[r] <= inNew /\ outbound[r] <= outNew
      BY <2>1, <2>2
    <2>4. QED
      BY <2>3 DEF inNew, outNew
  <1>10. CountsOK'
    BY <1>1, <1>9 DEF IInv, CountsOK
  <1>11. WorkOK(x, log', stored', edges')
    BY <1>1, <1>2, <1>3 DEF WorkOK, WorkState
  <1>12. edges \subseteq edges'
    BY <1>1
  <1>13. WorkersOK'
    BY <1>1, <1>7, <1>11, <1>12, WorkSteps
  <1>14. QED
    BY <1>1, <1>4, <1>8, <1>10, <1>13 DEF IInv

LEMMA DoCountOut ==
  ASSUME IInv, NEW w \in Worker, CountOut(w)
  PROVE  IInv'
  <1> DEFINE e == work[w].event
             rows == OutOf(edges, RefOf[e])
             x == [pc |-> "writeOut", event |-> e, post |-> work[w].post,
                   count |-> Cardinality(rows), todo |-> BodyEdges(e)]
  <1>1. /\ work[w].pc = "countOut"
        /\ Step(w, x)
        /\ UNCHANGED <<log, stored, edges, inbound, outbound, posts, raced>>
    BY DEF CountOut, OutRows, OutOf
  <1>2. /\ e \in Event /\ work[w].post \in Post /\ e \in stored
        /\ [event |-> e, post |-> work[w].post] \in log
    BY <1>1, WorkOf, WorkCases DEF WorkOK
  <1>3. Cardinality(rows) \in Nat /\ BodyEdges(e) \in SUBSET Nat
    BY <1>2, CountsAreNat, MentionsAreRefs DEF IInv, EdgesOK
  <1>4. Cardinality(rows) <= Cardinality(rows)
    BY <1>3
  <1>5. WorkOK(x, log, stored, edges)
    BY <1>2, <1>3, <1>4 DEF WorkOK, WorkState
  <1> HIDE DEF x
  <1>6. posts' \in Post /\ raced' \in BOOLEAN
    BY <1>1 DEF IInv
  <1>7. QED
    BY <1>1, <1>5, <1>6, TablesStay

LEMMA DoWriteOut ==
  ASSUME IInv, NEW w \in Worker, WriteOut(w)
  PROVE  IInv'
  <1> DEFINE e == work[w].event
             n == work[w].count
             x == [pc |-> "countIn", event |-> e, post |-> work[w].post,
                   todo |-> work[w].todo]
  <1>1. /\ work[w].pc = "writeOut"
        /\ outbound' = [outbound EXCEPT ![RefOf[e]] = n]
        /\ Step(w, x)
        /\ UNCHANGED <<log, stored, edges, inbound, posts, raced>>
    BY DEF WriteOut, Written
  <1>2. /\ e \in Event /\ work[w].post \in Post /\ e \in stored /\ n \in Nat
        /\ [event |-> e, post |-> work[w].post] \in log
        /\ work[w].todo \in SUBSET Nat /\ work[w].todo \subseteq BodyEdges(e)
        /\ n <= Cardinality(OutOf(edges, RefOf[e]))
    BY <1>1, WorkOf, WorkCases DEF WorkOK
  <1>3. LogOK' /\ EdgesOK'
    BY <1>1 DEF IInv, LogOK, Logged, EdgesOK
  <1>4. CountsOK'
    BY <1>1, <1>2 DEF IInv, CountsOK
  <1>5. WorkOK(x, log', stored', edges')
    BY <1>1, <1>2 DEF WorkOK, WorkState
  <1> HIDE DEF x
  <1>6. WorkersOK'
    BY <1>1, <1>3, <1>5, WorkSteps DEF EdgesOK
  <1>7. QED
    BY <1>1, <1>3, <1>4, <1>6 DEF IInv

LEMMA DoCountIn ==
  ASSUME IInv, NEW w \in Worker, CountIn(w)
  PROVE  IInv'
  <1> DEFINE e == work[w].event
  <1>1. /\ work[w].pc = "countIn"
        /\ UNCHANGED <<log, stored, edges, inbound, outbound, posts, raced>>
    BY DEF CountIn
  <1>2. PICK i \in work[w].todo :
          Step(w, [pc |-> "writeIn", event |-> e, post |-> work[w].post,
                   count |-> Cardinality(InTo(edges, Mentions(e)[i])),
                   target |-> Mentions(e)[i], todo |-> work[w].todo \ {i}])
    BY DEF CountIn, InRows, InTo
  <1> DEFINE rows == InTo(edges, Mentions(e)[i])
             x == [pc |-> "writeIn", event |-> e, post |-> work[w].post,
                   count |-> Cardinality(rows), target |-> Mentions(e)[i],
                   todo |-> work[w].todo \ {i}]
  <1>3. /\ e \in Event /\ work[w].post \in Post /\ e \in stored
        /\ [event |-> e, post |-> work[w].post] \in log
        /\ work[w].todo \in SUBSET Nat /\ work[w].todo \subseteq BodyEdges(e)
    BY <1>1, WorkOf, WorkCases DEF WorkOK
  <1>4. Cardinality(rows) \in Nat /\ Mentions(e)[i] \in Ref
    BY <1>3, CountsAreNat, MentionsAreRefs DEF IInv, EdgesOK
  <1>5. Cardinality(rows) <= Cardinality(rows)
    BY <1>4
  <1>6. WorkOK(x, log, stored, edges)
    BY <1>3, <1>4, <1>5 DEF WorkOK, WorkState
  <1>7. Step(w, x)
    BY <1>2
  <1> HIDE DEF x
  <1>8. posts' \in Post /\ raced' \in BOOLEAN
    BY <1>1 DEF IInv
  <1>9. QED
    BY <1>1, <1>6, <1>7, <1>8, TablesStay

LEMMA DoWriteIn ==
  ASSUME IInv, NEW w \in Worker, WriteIn(w)
  PROVE  IInv'
  <1> DEFINE e == work[w].event
             n == work[w].count
             y == [pc |-> "countIn", event |-> e, post |-> work[w].post,
                   todo |-> work[w].todo]
  <1>1. /\ work[w].pc = "writeIn"
        /\ inbound' = [inbound EXCEPT ![work[w].target] = n]
        /\ Step(w, Idle) \/ Step(w, y)
        /\ UNCHANGED <<log, stored, edges, outbound, posts, raced>>
    BY DEF WriteIn, Written
  <1>2. /\ e \in Event /\ work[w].post \in Post /\ e \in stored /\ n \in Nat
        /\ [event |-> e, post |-> work[w].post] \in log
        /\ work[w].todo \in SUBSET Nat /\ work[w].todo \subseteq BodyEdges(e)
        /\ n <= Cardinality(InTo(edges, work[w].target))
    BY <1>1, WorkOf, WorkCases DEF WorkOK
  <1>3. LogOK' /\ EdgesOK'
    BY <1>1 DEF IInv, LogOK, Logged, EdgesOK
  <1>4. CountsOK'
    BY <1>1, <1>2 DEF IInv, CountsOK
  <1>5. /\ WorkOK(Idle, log', stored', edges')
        /\ WorkOK(y, log', stored', edges')
    BY <1>1, <1>2 DEF WorkOK, WorkState, Idle
  <1> HIDE DEF y
  <1>6. WorkersOK'
    BY <1>1, <1>3, <1>5, WorkSteps DEF EdgesOK
  <1>7. QED
    BY <1>1, <1>3, <1>4, <1>6 DEF IInv

LEMMA DoFail ==
  ASSUME IInv, NEW w \in Worker, Fail(w)
  PROVE  IInv'
  <1>1. /\ Step(w, Idle)
        /\ UNCHANGED <<log, stored, edges, inbound, outbound, posts>>
        /\ posts' \in Post /\ raced' \in BOOLEAN
    BY DEF Fail, IInv
  <1>2. WorkOK(Idle, log, stored, edges)
    BY DEF WorkOK, WorkState, Idle
  <1>3. QED
    BY <1>1, <1>2, TablesStay

-------------------------------------------------------------------------------
(* The invariant, and what follows from it.                                *)

LEMMA TablesAtStart ==
  ASSUME CitationsInit
  PROVE  IInv
  <1>1. /\ log = [event : Old, post : {0}] /\ stored = Old /\ edges = {}
        /\ inbound = [r \in Ref |-> 0] /\ outbound = [r \in Ref |-> 0]
        /\ work = [w \in Worker |-> Idle] /\ posts = 0 /\ raced = FALSE
    BY DEF CitationsInit
  <1>2. Old \subseteq Event /\ IsFiniteSet(Old) /\ 0 \in Post
    BY CitationsAssumption DEF Post
  <1>3. Logged = Old
    <2>1. \A e \in Old : [event |-> e, post |-> 0] \in log
      BY <1>1
    <2>2. QED
      BY <1>1, <1>2, <2>1 DEF Logged
  <1>4. LogOK
    BY <1>1, <1>2, <1>3 DEF LogOK
  <1>5. EdgesOK
    BY <1>1, FS_EmptySet DEF EdgesOK
  <1>6. CountsOK
    <2>1. \A r \in Ref : InTo(edges, r) = {} /\ OutOf(edges, r) = {}
      BY <1>1 DEF InTo, OutOf
    <2>2. QED
      BY <1>1, <2>1, FS_EmptySet DEF CountsOK
  <1>7. WorkersOK
    BY <1>1 DEF WorkersOK, WorkOK, WorkState, Idle
  <1>8. QED
    BY <1>1, <1>2, <1>4, <1>5, <1>6, <1>7 DEF IInv

LEMMA StepsKeepInvariant ==
  ASSUME IInv, [CitationsNext]_citationVars
  PROVE  IInv'
  <1>1. ASSUME NEW w \in Worker,
               \/ \E e \in Event : PostEvent(w, e)
               \/ AppendEvent(w) \/ StoreEvent(w) \/ StoreEdges(w)
               \/ CountOut(w) \/ WriteOut(w) \/ CountIn(w) \/ WriteIn(w)
               \/ Fail(w)
        PROVE  IInv'
    BY <1>1, DoPost, DoAppend, DoStore, DoEdges, DoCountOut, DoWriteOut, DoCountIn,
       DoWriteIn, DoFail
  <1>2. ASSUME UNCHANGED eventVars
        PROVE  IInv'
    BY <1>2 DEF eventVars, IInv, LogOK, Logged, EdgesOK, CountsOK, WorkersOK
  <1>3. CASE \E e \in Event : OpenThread(e)
    BY <1>2, <1>3 DEF OpenThread
  <1>4. CASE CollectReplies
    BY <1>2, <1>4 DEF CollectReplies
  <1>5. CASE UNCHANGED citationVars
    BY <1>2, <1>5 DEF citationVars
  <1>6. QED
    BY <1>1, <1>3, <1>4, <1>5 DEF CitationsNext

\* The log, the index, the edges and the counts keep their types, and no count that
\* is shown or about to be written is above the rows it counts.
THEOREM CitationsInvariant == CitationsSpec => []IInv
  <1>1. CitationsInit => IInv
    BY TablesAtStart
  <1>2. IInv /\ [CitationsNext]_citationVars => IInv'
    BY StepsKeepInvariant
  <1>3. QED
    BY <1>1, <1>2, PTL DEF CitationsSpec

\* The tables and the handlers have their types: POST /event writes citations of refs only.
THEOREM CitationsTypes == CitationsSpec => []CitationsTypeOK
  <1>1. ASSUME IInv
        PROVE  CitationsTypeOK
    <2>1. log \subseteq [event : Event, post : Post] /\ stored \subseteq Event
      BY <1>1 DEF IInv, LogOK, Logged
    <2>2. edges \subseteq [event : Event, target : Ref, post : Post]
      BY <1>1 DEF IInv, EdgesOK, Rowset
    <2>3. QED
      BY <1>1, <2>1, <2>2 DEF IInv, CountsOK, WorkersOK, CitationsTypeOK
  <1>2. QED
    BY <1>1, CitationsInvariant, PTL

\* What updateEdgeCounts writes back, however late, is not above the rows: these only
\* become more; and every event of the index is in the log.
THEOREM ShownCountsNeverAbove == CitationsSpec => []CountsNeverAbove
  <1>1. ASSUME IInv
        PROVE  CountsNeverAbove
    <2>1. ASSUME NEW r \in Ref
          PROVE  Signals(r).discussion_depth
                   <= Cardinality({e \in Logged \cap Replies : RefOf[e] = r})
      <3> DEFINE S == {e \in stored \cap Replies : RefOf[e] = r}
                 T == {e \in Logged \cap Replies : RefOf[e] = r}
      <3>1. T \in SUBSET Logged /\ S \in SUBSET T
        BY <1>1 DEF IInv, LogOK
      <3>2. IsFiniteSet(T)
        BY <1>1, <3>1, FS_Subset DEF IInv, LogOK
      <3>3. Cardinality(S) <= Cardinality(T)
        BY <3>1, <3>2, FS_Subset
      <3>4. QED
        BY <3>3 DEF Signals
    <2>2. ASSUME NEW r \in Ref
          PROVE  /\ Signals(r).inbound_edges <= Cardinality(InRows(r))
                 /\ Signals(r).outbound_edges <= Cardinality(OutRows(r))
      BY <1>1 DEF IInv, CountsOK, Signals, InRows, OutRows, InTo, OutOf
    <2>3. QED
      BY <2>1, <2>2 DEF CountsNeverAbove
  <1>2. QED
    BY <1>1, CitationsInvariant, PTL

\* appendEvent comes before storeProtocolEvent, and this before storeBodyEdges.
THEOREM LogIsFirst == CitationsSpec => []ViewsFollowLog
  <1>1. IInv => ViewsFollowLog
    BY DEF IInv, LogOK, EdgesOK, ViewsFollowLog
  <1>2. QED
    BY <1>1, CitationsInvariant, PTL

-------------------------------------------------------------------------------
(* A handler alone.  Unless handlers overlapped or one failed, at most one *)
(* is at work, and the counts that are not those of the rows are the ones  *)
(* it has yet to write.                                                    *)

Targets(e, todo) == {Mentions(e)[i] : i \in todo}

\* The refs of which a handler in state x has still to write a count.
LateOut(x) == IF x.pc \in {"countOut", "writeOut"} THEN {RefOf[x.event]} ELSE {}

LateIn(x) ==
  IF x.pc \in {"countOut", "writeOut"} THEN Targets(x.event, BodyEdges(x.event))
  ELSE IF x.pc = "countIn" THEN Targets(x.event, x.todo)
  ELSE IF x.pc = "writeIn" THEN {x.target} \cup Targets(x.event, x.todo)
  ELSE {}

AloneOK(x, E, ins, outs) ==
  /\ \A r \in Ref \ LateOut(x) : outs[r] = Cardinality(OutOf(E, r))
  /\ \A r \in Ref \ LateIn(x) : ins[r] = Cardinality(InTo(E, r))
  /\ x.pc = "writeOut" => /\ x.todo = BodyEdges(x.event)
                          /\ x.count = Cardinality(OutOf(E, RefOf[x.event]))
  /\ x.pc = "writeIn" => x.count = Cardinality(InTo(E, x.target))

AloneInv ==
  ~raced =>
    \/ Busy = {} /\ AloneOK(Idle, edges, inbound, outbound)
    \/ \E w \in Worker : Busy = {w} /\ AloneOK(work[w], edges, inbound, outbound)

LEMMA OnlyOne ==
  ASSUME AloneInv, ~raced, NEW w \in Worker, work[w].pc # "idle"
  PROVE  Busy = {w} /\ AloneOK(work[w], edges, inbound, outbound)
  <1>1. w \in Busy
    BY DEF Busy, Idle
  <1>2. QED
    BY <1>1 DEF AloneInv

LEMMA AloneSteps ==
  ASSUME IInv, NEW w \in Worker, Busy \subseteq {w}, NEW x, x = Idle \/ x.pc # "idle",
         Step(w, x), AloneOK(x, edges', inbound', outbound')
  PROVE  AloneInv'
  <1>1. work' = [work EXCEPT ![w] = x] /\ work \in [Worker -> WorkState]
    BY DEF Step, IInv, WorkersOK
  <1>2. work'[w] = x /\ \A v \in Worker \ {w} : work'[v] = work[v] /\ work[v] = Idle
    BY <1>1 DEF Busy
  <1>3. CASE x = Idle
    <2>1. Busy' = {}
      BY <1>2, <1>3 DEF Busy
    <2>2. QED
      BY <1>3, <2>1 DEF AloneInv
  <1>4. CASE x.pc # "idle"
    <2>1. x # Idle
      BY <1>4 DEF Idle
    <2>2. Busy' = {w}
      BY <1>2, <2>1 DEF Busy
    <2>3. QED
      BY <1>2, <2>2 DEF AloneInv
  <1>5. QED
    BY <1>3, <1>4

LEMMA AlonePost ==
  ASSUME IInv, AloneInv, NEW w \in Worker, NEW e \in Event, PostEvent(w, e)
  PROVE  AloneInv'
  <1> DEFINE x == [pc |-> "log", event |-> e, post |-> posts']
  <1>1. /\ Step(w, x) /\ raced' = (raced \/ Busy # {})
        /\ UNCHANGED <<edges, inbound, outbound>>
    BY DEF PostEvent, FirstWrite
  <1>2. CASE raced'
    BY <1>2 DEF AloneInv
  <1>3. CASE ~raced'
    <2>1. Busy = {} /\ AloneOK(Idle, edges, inbound, outbound)
      BY <1>1, <1>3 DEF AloneInv
    <2>2. AloneOK(x, edges', inbound', outbound')
      BY <1>1, <2>1 DEF AloneOK, LateIn, LateOut, Idle
    <2>3. x.pc # "idle" /\ Busy \subseteq {w}
      BY <2>1
    <2> HIDE DEF x
    <2>4. QED
      BY <1>1, <2>2, <2>3, AloneSteps
  <1>4. QED
    BY <1>2, <1>3

LEMMA AloneAppend ==
  ASSUME IInv, AloneInv, ~raced, NEW w \in Worker, AppendEvent(w)
  PROVE  AloneInv'
  <1> DEFINE x == [work[w] EXCEPT !.pc = "index"]
  <1>1. /\ work[w].pc = "log" /\ Step(w, x)
        /\ UNCHANGED <<edges, inbound, outbound>>
    BY DEF AppendEvent, Goto
  <1>2. Busy = {w} /\ AloneOK(work[w], edges, inbound, outbound)
    BY <1>1, OnlyOne
  <1>3. x.pc = "index"
    BY <1>1, WorkOf, WorkCases
  <1> HIDE DEF x
  <1>4. AloneOK(x, edges', inbound', outbound')
    BY <1>1, <1>2, <1>3 DEF AloneOK, LateIn, LateOut
  <1>5. QED
    BY <1>1, <1>2, <1>3, <1>4, AloneSteps

LEMMA AloneStore ==
  ASSUME IInv, AloneInv, ~raced, NEW w \in Worker, StoreEvent(w)
  PROVE  AloneInv'
  <1> DEFINE y == [work[w] EXCEPT !.pc = "edges"]
  <1>1. /\ work[w].pc = "index"
        /\ Step(w, Idle) \/ Step(w, y)
        /\ UNCHANGED <<edges, inbound, outbound>>
    BY DEF StoreEvent, Goto
  <1>2. Busy = {w} /\ AloneOK(work[w], edges, inbound, outbound)
    BY <1>1, OnlyOne
  <1>3. y.pc = "edges"
    BY <1>1, WorkOf, WorkCases
  <1> HIDE DEF y
  <1>4. /\ AloneOK(y, edges', inbound', outbound')
        /\ AloneOK(Idle, edges', inbound', outbound')
    BY <1>1, <1>2, <1>3 DEF AloneOK, LateIn, LateOut, Idle
  <1>5. QED
    BY <1>1, <1>2, <1>3, <1>4, AloneSteps

\* The new rows count for the ref of the event and for its targets only.
LEMMA AloneEdges ==
  ASSUME IInv, AloneInv, ~raced, NEW w \in Worker, StoreEdges(w)
  PROVE  AloneInv'
  <1> DEFINE e == work[w].event
             new == Rows(e, work[w].post)
             x == [work[w] EXCEPT !.pc = "countOut"]
  <1>1. /\ work[w].pc = "edges" /\ Step(w, x)
        /\ edges' = edges \cup new
        /\ UNCHANGED <<inbound, outbound>>
    BY DEF StoreEdges, Goto
  <1>2. Busy = {w} /\ AloneOK(work[w], edges, inbound, outbound)
    BY <1>1, OnlyOne
  <1>3. x = [pc |-> "countOut", event |-> e, post |-> work[w].post]
    BY <1>1, WorkOf, WorkCases
  <1>4. x.pc = "countOut" /\ x.event = e
    BY <1>3
  <1>5. \A row \in new : row.event = e /\ row.target \in Targets(e, BodyEdges(e))
    BY DEF Rows, Targets
  <1> HIDE DEF x, new
  <1>6. /\ \A r \in Ref \ {RefOf[e]} : OutOf(edges', r) = OutOf(edges, r)
        /\ \A r \in Ref \ Targets(e, BodyEdges(e)) : InTo(edges', r) = InTo(edges, r)
    BY <1>1, <1>5 DEF OutOf, InTo
  <1>7. /\ LateOut(x) = {RefOf[e]} /\ LateIn(x) = Targets(e, BodyEdges(e))
        /\ LateOut(work[w]) = {} /\ LateIn(work[w]) = {}
    BY <1>1, <1>4 DEF LateOut, LateIn
  <1>8. AloneOK(x, edges', inbound', outbound')
    BY <1>1, <1>2, <1>4, <1>6, <1>7 DEF AloneOK
  <1>9. QED
    BY <1>1, <1>2, <1>4, <1>8, AloneSteps

LEMMA AloneCountOut ==
  ASSUME IInv, AloneInv, ~raced, NEW w \in Worker, CountOut(w)
  PROVE  AloneInv'
  <1> DEFINE e == work[w].event
             n == Cardinality(OutOf(edges, RefOf[e]))
             x == [pc |-> "writeOut", event |-> e, post |-> work[w].post, count |-> n,
                   todo |-> BodyEdges(e)]
  <1>1. /\ work[w].pc = "countOut" /\ Step(w, x)
        /\ UNCHANGED <<edges, inbound, outbound>>
    BY DEF CountOut, OutRows, OutOf
  <1>2. Busy = {w} /\ AloneOK(work[w], edges, inbound, outbound)
    BY <1>1, OnlyOne
  <1>3. x.pc = "writeOut" /\ x.event = e /\ x.count = n /\ x.todo = BodyEdges(e)
    OBVIOUS
  <1> HIDE DEF x
  <1>4. LateOut(x) = LateOut(work[w]) /\ LateIn(x) = LateIn(work[w])
    BY <1>1, <1>3 DEF LateOut, LateIn
  <1>5. AloneOK(x, edges', inbound', outbound')
    BY <1>1, <1>2, <1>3, <1>4 DEF AloneOK
  <1>6. QED
    BY <1>1, <1>2, <1>3, <1>5, AloneSteps

LEMMA AloneWriteOut ==
  ASSUME IInv, AloneInv, ~raced, NEW w \in Worker, WriteOut(w)
  PROVE  AloneInv'
  <1> DEFINE e == work[w].event
             x == [pc |-> "countIn", event |-> e, post |-> work[w].post,
                   todo |-> work[w].todo]
  <1>1. /\ work[w].pc = "writeOut" /\ Step(w, x)
        /\ outbound' = [outbound EXCEPT ![RefOf[e]] = work[w].count]
        /\ UNCHANGED <<edges, inbound>>
    BY DEF WriteOut, Written
  <1>2. Busy = {w} /\ AloneOK(work[w], edges, inbound, outbound)
    BY <1>1, OnlyOne
  <1>3. /\ x.pc = "countIn" /\ x.event = e /\ x.todo = work[w].todo
        /\ work[w].todo = BodyEdges(e)
        /\ work[w].count = Cardinality(OutOf(edges, RefOf[e]))
    BY <1>1, <1>2 DEF AloneOK
  <1>4. outbound \in [Ref -> Nat]
    BY DEF IInv, CountsOK
  <1> HIDE DEF x
  <1>5. /\ LateOut(x) = {} /\ LateOut(work[w]) = {RefOf[e]}
        /\ LateIn(x) = LateIn(work[w])
    BY <1>1, <1>3 DEF LateOut, LateIn
  <1>6. AloneOK(x, edges', inbound', outbound')
    BY <1>1, <1>2, <1>3, <1>4, <1>5 DEF AloneOK
  <1>7. QED
    BY <1>1, <1>2, <1>3, <1>6, AloneSteps

LEMMA AloneCountIn ==
  ASSUME IInv, AloneInv, ~raced, NEW w \in Worker, CountIn(w)
  PROVE  AloneInv'
  <1> DEFINE e == work[w].event
  <1>1. /\ work[w].pc = "countIn"
        /\ UNCHANGED <<edges, inbound, outbound>>
    BY DEF CountIn
  <1>2. PICK i \in work[w].todo :
          Step(w, [pc |-> "writeIn", event |-> e, post |-> work[w].post,
                   count |-> Cardinality(InTo(edges, Mentions(e)[i])),
                   target |-> Mentions(e)[i], todo |-> work[w].todo \ {i}])
    BY DEF CountIn, InRows, InTo
  <1> DEFINE t == Mentions(e)[i]
             x == [pc |-> "writeIn", event |-> e, post |-> work[w].post,
                   count |-> Cardinality(InTo(edges, t)), target |-> t,
                   todo |-> work[w].todo \ {i}]
  <1>3. Busy = {w} /\ AloneOK(work[w], edges, inbound, outbound)
    BY <1>1, OnlyOne
  <1>4. /\ x.pc = "writeIn" /\ x.event = e /\ x.todo = work[w].todo \ {i}
        /\ x.target = t /\ x.count = Cardinality(InTo(edges, t)) /\ Step(w, x)
    BY <1>2
  <1>5. Targets(e, work[w].todo) = {t} \cup Targets(e, work[w].todo \ {i})
    BY <1>2 DEF Targets
  <1> HIDE DEF x, t
  <1>6. LateOut(x) = LateOut(work[w]) /\ LateIn(x) = LateIn(work[w])
    BY <1>1, <1>4, <1>5 DEF LateOut, LateIn
  <1>7. AloneOK(x, edges', inbound', outbound')
    BY <1>1, <1>3, <1>4, <1>6 DEF AloneOK
  <1>8. QED
    BY <1>3, <1>4, <1>7, AloneSteps

LEMMA AloneWriteIn ==
  ASSUME IInv, AloneInv, ~raced, NEW w \in Worker, WriteIn(w)
  PROVE  AloneInv'
  <1> DEFINE e == work[w].event
             t == work[w].target
             y == [pc |-> "countIn", event |-> e, post |-> work[w].post,
                   todo |-> work[w].todo]
  <1>1. /\ work[w].pc = "writeIn"
        /\ Step(w, IF work[w].todo = {} THEN Idle ELSE y)
        /\ inbound' = [inbound EXCEPT ![t] = work[w].count]
        /\ UNCHANGED <<edges, outbound>>
    BY DEF WriteIn, Written, LastTarget
  <1>2. Busy = {w} /\ AloneOK(work[w], edges, inbound, outbound)
    BY <1>1, OnlyOne
  <1>3. /\ y.pc = "countIn" /\ y.event = e /\ y.todo = work[w].todo
        /\ work[w].count = Cardinality(InTo(edges, t))
        /\ inbound \in [Ref -> Nat]
    BY <1>1, <1>2 DEF AloneOK, IInv, CountsOK
  <1> HIDE DEF y
  <1>4. /\ LateOut(y) = LateOut(work[w]) /\ LateOut(Idle) = LateOut(work[w])
        /\ LateIn(work[w]) = {t} \cup Targets(e, work[w].todo)
        /\ LateIn(y) = Targets(e, work[w].todo)
        /\ LateIn(Idle) = {}
    BY <1>1, <1>3 DEF LateOut, LateIn, Idle
  <1>5. ASSUME NEW r \in Ref \ Targets(e, work[w].todo)
        PROVE  inbound'[r] = Cardinality(InTo(edges, r))
    <2>1. CASE r = t
      BY <1>1, <1>3, <2>1
    <2>2. CASE r # t
      <3>1. r \in Ref \ LateIn(work[w])
        BY <1>4, <2>2
      <3>2. inbound[r] = Cardinality(InTo(edges, r))
        BY <1>2, <3>1 DEF AloneOK
      <3>3. QED
        BY <1>1, <1>3, <2>2, <3>2
    <2>3. QED
      BY <2>1, <2>2
  <1>6. AloneOK(y, edges', inbound', outbound')
    BY <1>1, <1>2, <1>3, <1>4, <1>5 DEF AloneOK
  <1>7. CASE work[w].todo = {}
    <2>1. Targets(e, work[w].todo) = {}
      BY <1>7 DEF Targets
    <2>2. AloneOK(Idle, edges', inbound', outbound')
      BY <1>1, <1>2, <1>4, <1>5, <2>1 DEF AloneOK, Idle
    <2>3. QED
      BY <1>1, <1>2, <1>7, <2>2, AloneSteps
  <1>8. CASE work[w].todo # {}
    BY <1>1, <1>2, <1>3, <1>6, <1>8, AloneSteps
  <1>9. QED
    BY <1>7, <1>8

LEMMA StepsKeepAlone ==
  ASSUME IInv, AloneInv, [CitationsNext]_citationVars
  PROVE  AloneInv'
  <1>1. CASE \E w \in Worker, e \in Event : PostEvent(w, e)
    BY <1>1, AlonePost
  <1>2. CASE \E w \in Worker : Fail(w)
    BY <1>2 DEF Fail, AloneInv
  <1>3. ASSUME NEW w \in Worker,
               \/ AppendEvent(w) \/ StoreEvent(w) \/ StoreEdges(w)
               \/ CountOut(w) \/ WriteOut(w) \/ CountIn(w) \/ WriteIn(w)
        PROVE  AloneInv'
    <2>1. CASE raced
      <3>1. raced' = raced
        BY <1>3 DEF AppendEvent, StoreEvent, StoreEdges, CountOut, WriteOut, CountIn,
                    WriteIn
      <3>2. QED
        BY <2>1, <3>1 DEF AloneInv
    <2>2. CASE ~raced
      BY <1>3, <2>2, AloneAppend, AloneStore, AloneEdges, AloneCountOut, AloneWriteOut,
         AloneCountIn, AloneWriteIn
    <2>3. QED
      BY <2>1, <2>2
  <1>4. ASSUME UNCHANGED eventVars
        PROVE  AloneInv'
    BY <1>4 DEF eventVars, AloneInv, Busy
  <1>5. CASE \E e \in Event : OpenThread(e)
    BY <1>4, <1>5 DEF OpenThread
  <1>6. CASE CollectReplies
    BY <1>4, <1>6 DEF CollectReplies
  <1>7. CASE UNCHANGED citationVars
    BY <1>4, <1>7 DEF citationVars
  <1>8. QED
    BY <1>1, <1>2, <1>3, <1>5, <1>6, <1>7 DEF CitationsNext

LEMMA AloneAtStart ==
  ASSUME CitationsInit
  PROVE  AloneInv
  <1>1. /\ edges = {} /\ inbound = [r \in Ref |-> 0] /\ outbound = [r \in Ref |-> 0]
        /\ work = [w \in Worker |-> Idle]
    BY DEF CitationsInit
  <1>2. \A r \in Ref : InTo(edges, r) = {} /\ OutOf(edges, r) = {}
    BY <1>1 DEF InTo, OutOf
  <1>3. Cardinality({}) = 0
    BY FS_EmptySet
  <1>4. AloneOK(Idle, edges, inbound, outbound)
    BY <1>1, <1>2, <1>3 DEF AloneOK, LateIn, LateOut, Idle
  <1>5. Busy = {}
    BY <1>1 DEF Busy
  <1>6. QED
    BY <1>4, <1>5 DEF AloneInv

\* updateEdgeCounts visits the ref of the event and every target of its body: a handler
\* that met no other and did not fail leaves every count equal to that of the rows.
THEOREM AloneCountsAreExact == CitationsSpec => []CountsExactAlone
  <1>1. CitationsInit => AloneInv
    BY AloneAtStart
  <1>2. IInv /\ AloneInv /\ [CitationsNext]_citationVars => AloneInv'
    BY StepsKeepAlone
  <1>3. AloneInv => CountsExactAlone
    <2>1. SUFFICES ASSUME AloneInv, ~raced, Busy = {}, NEW r \in Ref
                   PROVE  /\ inbound[r] = Cardinality(InTo(edges, r))
                          /\ outbound[r] = Cardinality(OutOf(edges, r))
      BY DEF CountsExactAlone, InRows, OutRows, InTo, OutOf
    <2>2. AloneOK(Idle, edges, inbound, outbound)
      BY <2>1 DEF AloneInv
    <2>3. QED
      BY <2>2 DEF AloneOK, LateIn, LateOut, Idle
  <1>4. QED
    BY <1>1, <1>2, <1>3, CitationsInvariant, PTL DEF CitationsSpec

-------------------------------------------------------------------------------
(* The levels of a thread.                                                 *)

\* What Below(S, r) is taken from: level n has what is at most n replies below r.
Levels(S, r) ==
  LET level[n \in 0..ThreadDepth] ==
        IF n = 0 THEN {r}
        ELSE {r} \cup {e \in S \cap Replies : RefOf[e] \in level[n - 1]}
  IN level

Answers(S, L) == {e \in S \cap Replies : RefOf[e] \in L}

LEMMA LevelsAre ==
  ASSUME NEW S, NEW r
  PROVE  \A n \in 0..ThreadDepth :
           Levels(S, r)[n] = IF n = 0 THEN {r} ELSE {r} \cup Answers(S, Levels(S, r)[n - 1])
  <1> DEFINE next(g, k) == IF k = 0 THEN {r}
                           ELSE {r} \cup Answers(S, g[k - 1])
             upto(g, m) == g = [k \in 0..m |-> next(g, k)]
             N == {m \in Nat : \E g : upto(g, m)}
  <1>1. 0 \in N
    <2> DEFINE g == [k \in 0..0 |-> {r}]
    <2>1. \A k \in 0..0 : next(g, k) = {r}
      OBVIOUS
    <2>2. upto(g, 0)
      BY <2>1
    <2>3. QED
      BY <2>2
  <1>2. ASSUME NEW m \in Nat, m \in N
        PROVE  m + 1 \in N
    <2>1. PICK g : upto(g, m)
      BY <1>2
    <2> DEFINE h == [k \in 0..(m + 1) |-> next(g, k)]
    <2>2. ASSUME NEW k \in 0..(m + 1)
          PROVE  next(h, k) = next(g, k)
      <3>1. CASE k = 0
        BY <3>1
      <3>2. CASE k # 0
        <4>1. k - 1 \in 0..m /\ k - 1 \in 0..(m + 1)
          BY <3>2
        <4>2. g[k - 1] = next(g, k - 1)
          <5> HIDE DEF next
          <5>1. QED
            BY <2>1, <4>1
        <4>3. h[k - 1] = next(g, k - 1)
          <5> HIDE DEF next
          <5>1. QED
            BY <4>1
        <4>4. h[k - 1] = g[k - 1]
          BY <4>2, <4>3
        <4> HIDE DEF h
        <4>5. QED
          BY <3>2, <4>4
      <3>3. QED
        BY <3>1, <3>2
    <2>3. h = [k \in 0..(m + 1) |-> next(h, k)]
      <3> HIDE DEF next
      <3>1. QED
        BY <2>2
    <2> HIDE DEF h
    <2>4. QED
      BY <2>3
  <1>3. ThreadDepth \in N
    <2> HIDE DEF N
    <2>1. Nat \subseteq N
      BY <1>1, <1>2, NatInduct
    <2>2. QED
      BY <2>1, CitationsAssumption
  <1>4. PICK g : upto(g, ThreadDepth)
    BY <1>3
  <1>5. Levels(S, r) = CHOOSE level : upto(level, ThreadDepth)
    BY Zenon DEF Levels, Answers
  <1>6. upto(Levels(S, r), ThreadDepth)
    <2> HIDE DEF upto
    <2>1. QED
      BY <1>4, <1>5
  <1>7. ASSUME NEW n \in 0..ThreadDepth
        PROVE  Levels(S, r)[n] = next(Levels(S, r), n)
    <2> HIDE DEF next
    <2>1. QED
      BY <1>6
  <1>8. QED
    BY <1>7

LEMMA LevelZero ==
  ASSUME NEW S, NEW r
  PROVE  Levels(S, r)[0] = {r}
  <1>1. 0 \in 0..ThreadDepth
    BY CitationsAssumption
  <1>2. QED
    BY <1>1, LevelsAre

LEMMA LevelNext ==
  ASSUME NEW S, NEW r, NEW n \in Nat, n + 1 <= ThreadDepth
  PROVE  Levels(S, r)[n + 1] = {r} \cup Answers(S, Levels(S, r)[n])
  <1>1. n + 1 \in 0..ThreadDepth /\ n + 1 # 0 /\ (n + 1) - 1 = n
    BY CitationsAssumption
  <1> DEFINE L == Levels(S, r)
             m == n + 1
  <1>2. \A k \in 0..ThreadDepth : L[k] = IF k = 0 THEN {r} ELSE {r} \cup Answers(S, L[k - 1])
    BY LevelsAre
  <1>3. m \in 0..ThreadDepth /\ m # 0 /\ m - 1 = n
    BY <1>1
  <1> HIDE DEF L, m
  <1>4. L[m] = {r} \cup Answers(S, L[n])
    BY <1>2, <1>3
  <1>5. QED
    BY <1>4 DEF L, m

\* Whatever holds r and the replies to what it holds, holds the levels.
LEMMA LevelsInside ==
  ASSUME NEW S, NEW r, NEW C, r \in C,
         \A e \in S \cap Replies : RefOf[e] \in C => e \in C
  PROVE  \A n \in 0..ThreadDepth : Levels(S, r)[n] \subseteq C
  <1> DEFINE N == {n \in Nat : n <= ThreadDepth => Levels(S, r)[n] \subseteq C}
  <1>1. 0 \in N
    BY LevelZero
  <1>2. ASSUME NEW n \in Nat, n \in N
        PROVE  n + 1 \in N
    <2>1. SUFFICES ASSUME n + 1 <= ThreadDepth
                   PROVE  Levels(S, r)[n + 1] \subseteq C
      OBVIOUS
    <2>2. n <= ThreadDepth
      BY <2>1, CitationsAssumption
    <2>3. Levels(S, r)[n] \subseteq C
      BY <1>2, <2>2
    <2>4. Levels(S, r)[n + 1] = {r} \cup Answers(S, Levels(S, r)[n])
      BY <2>1, LevelNext
    <2>5. QED
      BY <2>3, <2>4 DEF Answers
  <1> HIDE DEF N
  <1>3. Nat \subseteq N
    BY <1>1, <1>2, NatInduct
  <1>4. QED
    BY <1>3, CitationsAssumption DEF N

\* More replies make larger levels, and a level has what the one before has.
LEMMA LevelsGrow ==
  ASSUME NEW S, NEW T, S \subseteq T, NEW r
  PROVE  /\ \A n \in 0..ThreadDepth : Levels(S, r)[n] \subseteq Levels(T, r)[n]
         /\ \A n \in 0..ThreadDepth :
              n + 1 \in 0..ThreadDepth => Levels(T, r)[n] \subseteq Levels(T, r)[n + 1]
  <1> DEFINE N == {n \in Nat : n <= ThreadDepth => Levels(S, r)[n] \subseteq Levels(T, r)[n]}
             M == {n \in Nat : n + 1 <= ThreadDepth
                                 => Levels(T, r)[n] \subseteq Levels(T, r)[n + 1]}
  <1>1. \A n \in Nat : \A Q : n + 1 <= ThreadDepth =>
          Levels(Q, r)[n + 1] = {r} \cup Answers(Q, Levels(Q, r)[n])
    BY LevelNext
  <1>2. 0 \in N
    BY LevelZero
  <1>3. ASSUME NEW n \in Nat, n \in N
        PROVE  n + 1 \in N
    <2>1. SUFFICES ASSUME n + 1 <= ThreadDepth
                   PROVE  Levels(S, r)[n + 1] \subseteq Levels(T, r)[n + 1]
      OBVIOUS
    <2>2. Levels(S, r)[n] \subseteq Levels(T, r)[n]
      BY <1>3, <2>1, CitationsAssumption
    <2>3. /\ Levels(S, r)[n + 1] = {r} \cup Answers(S, Levels(S, r)[n])
          /\ Levels(T, r)[n + 1] = {r} \cup Answers(T, Levels(T, r)[n])
      BY <1>1, <2>1
    <2>4. QED
      BY <2>2, <2>3 DEF Answers
  <1>4. 0 \in M
    <2>1. SUFFICES ASSUME 0 + 1 <= ThreadDepth
                   PROVE  Levels(T, r)[0] \subseteq Levels(T, r)[0 + 1]
      OBVIOUS
    <2>2. Levels(T, r)[0] = {r}
      BY LevelZero
    <2>3. Levels(T, r)[0 + 1] = {r} \cup Answers(T, Levels(T, r)[0])
      BY <1>1, <2>1
    <2>4. QED
      BY <2>2, <2>3
  <1>5. ASSUME NEW n \in Nat, n \in M
        PROVE  n + 1 \in M
    <2>1. SUFFICES ASSUME n + 1 + 1 <= ThreadDepth
                   PROVE  Levels(T, r)[n + 1] \subseteq Levels(T, r)[n + 1 + 1]
      OBVIOUS
    <2>2. n + 1 <= ThreadDepth /\ n + 1 \in Nat
      BY <2>1, CitationsAssumption
    <2>3. Levels(T, r)[n] \subseteq Levels(T, r)[n + 1]
      BY <1>5, <2>2
    <2>4. Levels(T, r)[n + 1] = {r} \cup Answers(T, Levels(T, r)[n])
      BY <1>1, <2>2
    <2>5. Levels(T, r)[n + 1 + 1]
            = {r} \cup Answers(T, Levels(T, r)[n + 1])
      BY <1>1, <2>1, <2>2
    <2>6. QED
      BY <2>3, <2>4, <2>5 DEF Answers
  <1> HIDE DEF N, M
  <1>6. Nat \subseteq N /\ Nat \subseteq M
    BY <1>2, <1>3, <1>4, <1>5, NatInduct
  <1>7. QED
    BY <1>6, CitationsAssumption DEF N, M

LEMMA LevelsEnd ==
  ASSUME NEW S, NEW r, NEW n \in 0..ThreadDepth
  PROVE  Levels(S, r)[n] \subseteq Levels(S, r)[ThreadDepth]
  <1> DEFINE K == {k \in Nat : n + k <= ThreadDepth
                                 => Levels(S, r)[n] \subseteq Levels(S, r)[n + k]}
  <1>1. 0 \in K
    <2>1. n + 0 = n
      OBVIOUS
    <2>2. QED
      BY <2>1
  <1>2. ASSUME NEW k \in Nat, k \in K
        PROVE  k + 1 \in K
    <2>1. SUFFICES ASSUME n + (k + 1) <= ThreadDepth
                   PROVE  Levels(S, r)[n] \subseteq Levels(S, r)[n + (k + 1)]
      OBVIOUS
    <2>2. /\ n + k <= ThreadDepth /\ n + k \in 0..ThreadDepth
          /\ (n + k) + 1 = n + (k + 1) /\ (n + k) + 1 \in 0..ThreadDepth
      BY <2>1, CitationsAssumption
    <2>3. Levels(S, r)[n] \subseteq Levels(S, r)[n + k]
      BY <1>2, <2>2
    <2>4. Levels(S, r)[n + k] \subseteq Levels(S, r)[(n + k) + 1]
      BY <2>2, LevelsGrow
    <2>5. QED
      BY <2>2, <2>3, <2>4
  <1> HIDE DEF K
  <1>3. Nat \subseteq K
    BY <1>1, <1>2, NatInduct
  <1>4. ThreadDepth - n \in K /\ n + (ThreadDepth - n) = ThreadDepth
    BY <1>3, CitationsAssumption
  <1>5. QED
    BY <1>4, CitationsAssumption DEF K

LEMMA BelowIs ==
  ASSUME NEW S, NEW r
  PROVE  Below(S, r) = Levels(S, r)[ThreadDepth] \ {r}
  BY Zenon DEF Below, Levels

-------------------------------------------------------------------------------
(* The oldest of a set: as many as the limit allows, or all.               *)

\* The members of S that come before e.
Before(S, e) == {d \in S : d < e}

LEMMA BeforeIsFinite ==
  ASSUME NEW S, IsFiniteSet(S), NEW e
  PROVE  /\ IsFiniteSet(Before(S, e)) /\ Cardinality(Before(S, e)) \in Nat
         /\ Before(S, e) \in SUBSET S
  <1>1. Before(S, e) \in SUBSET S
    BY DEF Before
  <1>2. QED
    BY <1>1, FS_Subset, FS_CardinalityType

LEMMA BeforeGrows ==
  ASSUME NEW S, IsFiniteSet(S), S \subseteq Int, NEW d \in S, NEW e \in S, d < e
  PROVE  Cardinality(Before(S, d)) < Cardinality(Before(S, e))
  <1> DEFINE D == Before(S, d)
             E == Before(S, e)
  <1>1. D \subseteq E /\ d \in E /\ d \notin D
    <2>1. d \in Int /\ e \in Int /\ \A c \in S : c \in Int
      OBVIOUS
    <2>2. ~(d < d) /\ \A c \in S : c < d => c < e
      BY <2>1
    <2>3. QED
      BY <2>2 DEF Before
  <1>2. IsFiniteSet(D) /\ IsFiniteSet(E) /\ Cardinality(D) \in Nat /\ Cardinality(E) \in Nat
    BY BeforeIsFinite
  <1> HIDE DEF D, E
  <1>3. D \cup {d} \in SUBSET E
    BY <1>1
  <1>4. Cardinality(D \cup {d}) = Cardinality(D) + 1
    BY <1>1, <1>2, FS_AddElement
  <1>5. Cardinality(D \cup {d}) <= Cardinality(E)
    BY <1>2, <1>3, FS_Subset
  <1>6. Cardinality(D) < Cardinality(E)
    BY <1>2, <1>4, <1>5
  <1>7. QED
    BY <1>6 DEF D, E

\* A set of integers that is finite and not empty has a first member.
LEMMA FirstExists ==
  ASSUME NEW S, IsFiniteSet(S), S \subseteq Int, S # {}
  PROVE  \E e \in S : \A d \in S : e <= d
  <1>1. SUFFICES ASSUME \A e \in S : \E d \in S : d < e
                 PROVE  FALSE
    OBVIOUS
  <1> DEFINE Low(n) == \A d \in S : Cardinality(Before(S, d)) > n
             M == {n \in Nat : Low(n)}
  <1>2. \A d \in S : Cardinality(Before(S, d)) \in Nat
    BY BeforeIsFinite
  <1>3. 0 \in M
    <2>1. ASSUME NEW d \in S
          PROVE  Cardinality(Before(S, d)) > 0
      <3>1. PICK c \in S : c < d
        BY <1>1
      <3>2. Cardinality(Before(S, c)) < Cardinality(Before(S, d))
        BY <3>1, BeforeGrows
      <3>3. QED
        BY <1>2, <3>2
    <2>2. QED
      BY <2>1
  <1>4. ASSUME NEW n \in Nat, n \in M
        PROVE  n + 1 \in M
    <2>1. ASSUME NEW d \in S
          PROVE  Cardinality(Before(S, d)) > n + 1
      <3>1. PICK c \in S : c < d
        BY <1>1
      <3>2. Cardinality(Before(S, c)) < Cardinality(Before(S, d))
        BY <3>1, BeforeGrows
      <3>3. Cardinality(Before(S, c)) > n
        BY <1>4
      <3>4. QED
        BY <1>2, <3>2, <3>3
    <2>2. QED
      BY <2>1
  <1>5. Nat \subseteq M
    <2> HIDE DEF M
    <2>1. QED
      BY <1>3, <1>4, NatInduct
  <1>6. PICK d \in S : TRUE
    OBVIOUS
  <1>7. Cardinality(Before(S, d)) \in M
    BY <1>2, <1>5
  <1>8. Cardinality(Before(S, d)) > Cardinality(Before(S, d))
    BY <1>7
  <1>9. QED
    BY <1>2, <1>8

LEMMA OldestAre ==
  ASSUME NEW S, NEW n
  PROVE  /\ Oldest(S, n) = {e \in S : Cardinality(Before(S, e)) < n}
         /\ Oldest(S, n) \in SUBSET S
  BY DEF Oldest, Before

LEMMA OldestCount ==
  ASSUME NEW S, IsFiniteSet(S), S \subseteq Int, NEW n \in Nat
  PROVE  /\ IsFiniteSet(Oldest(S, n))
         /\ Cardinality(Oldest(S, n)) \in Nat
         /\ Cardinality(Oldest(S, n)) <= n
         /\ Oldest(S, n) = S \/ Cardinality(Oldest(S, n)) = n
  <1> DEFINE O(k) == Oldest(S, k)
             N == {k \in Nat : /\ Cardinality(O(k)) <= k
                               /\ O(k) = S \/ Cardinality(O(k)) = k}
             rank == [e \in S |-> Cardinality(Before(S, e))]
  <1>0. \A k \in Nat : O(k) = {e \in S : rank[e] < k}
    BY OldestAre
  <1>1. \A k : IsFiniteSet(O(k)) /\ Cardinality(O(k)) \in Nat
    BY OldestAre, FS_Subset, FS_CardinalityType
  <1>2. \A e \in S : rank[e] \in Nat /\ rank[e] = Cardinality(Before(S, e))
    BY BeforeIsFinite
  <1>3. 0 \in N
    <2>1. O(0) = {}
      <3>1. O(0) = {e \in S : rank[e] < 0}
        BY <1>0
      <3> HIDE DEF O, rank
      <3>2. \A e \in S : ~(rank[e] < 0)
        BY <1>2
      <3>3. QED
        BY <3>1, <3>2
    <2> HIDE DEF O
    <2>2. QED
      BY <2>1, FS_EmptySet
  <1>4. ASSUME NEW k \in Nat, k \in N
        PROVE  k + 1 \in N
    <2> DEFINE New == {e \in S : rank[e] = k}
    <2>1. O(k + 1) = O(k) \cup New /\ New \cap O(k) = {}
      <3>1. /\ O(k + 1) = {e \in S : rank[e] < k + 1}
            /\ O(k) = {e \in S : rank[e] < k}
        BY <1>0
      <3> HIDE DEF O, rank
      <3>2. \A e \in S : rank[e] < k + 1 <=> rank[e] < k \/ rank[e] = k
        BY <1>2
      <3>3. \A e \in S : ~(rank[e] < k /\ rank[e] = k)
        BY <1>2
      <3>4. QED
        BY <3>1, <3>2, <3>3
    <2>2. ASSUME NEW d \in New, NEW e \in New
          PROVE  d = e
      <3>1. ~(d < e) /\ ~(e < d)
        <4>1. d \in S /\ e \in S /\ rank[d] = k /\ rank[e] = k
          OBVIOUS
        <4>2. \A a, b \in S : a < b => rank[a] < rank[b]
          BY BeforeGrows
        <4> HIDE DEF rank
        <4>3. QED
          BY <4>1, <4>2
      <3>2. d \in Int /\ e \in Int
        OBVIOUS
      <3>3. QED
        BY <3>1, <3>2
    <2>3. CASE O(k) = S
      <3>1. O(k + 1) = S
        <4>1. New \subseteq S
          OBVIOUS
        <4> HIDE DEF O, New
        <4>2. QED
          BY <2>1, <2>3, <4>1
      <3>2. Cardinality(O(k)) <= k
        BY <1>4
      <3>3. Cardinality(O(k + 1)) <= k + 1
        <4>1. O(k + 1) = O(k)
          BY <2>3, <3>1
        <4> HIDE DEF O
        <4>2. QED
          BY <1>1, <3>2, <4>1
      <3> HIDE DEF O
      <3>4. QED
        BY <3>1, <3>3
    <2>4. CASE O(k) # S
      <3> DEFINE T == S \ O(k)
      <3>1. O(k) \in SUBSET S /\ Cardinality(O(k)) = k
        BY <1>4, <2>4, OldestAre
      <3>2. T \in SUBSET S /\ T # {}
        BY <2>4, <3>1
      <3>3. PICK e \in T : \A d \in T : e <= d
        <4>1. IsFiniteSet(T) /\ T \subseteq Int
          BY <3>2, FS_Subset
        <4> HIDE DEF T
        <4>2. QED
          BY <3>2, <4>1, FirstExists
      <3>4. Before(S, e) \in SUBSET O(k)
        <4>1. e \in S /\ e \in Int
          BY <3>2
        <4>2. \A d \in T : ~(d < e)
          BY <3>2, <3>3, <4>1
        <4>3. QED
          BY <4>2 DEF Before
      <3>5. Cardinality(Before(S, e)) <= k
        <4> HIDE DEF O
        <4>1. Cardinality(Before(S, e)) <= Cardinality(O(k))
          BY <1>1, <3>4, FS_Subset
        <4>2. QED
          BY <3>1, <4>1
      <3>6. ~(Cardinality(Before(S, e)) < k) /\ e \in S
        BY <3>3, OldestAre
      <3>7. e \in New
        <4>1. rank[e] <= k /\ ~(rank[e] < k) /\ rank[e] \in Nat
          BY <1>2, <3>5, <3>6
        <4> HIDE DEF rank
        <4>2. QED
          BY <3>6, <4>1
      <3>8. O(k + 1) = O(k) \cup {e} /\ e \notin O(k)
        <4> HIDE DEF O, New
        <4>1. QED
          BY <2>1, <2>2, <3>7
      <3> HIDE DEF O
      <3>9. Cardinality(O(k + 1)) = k + 1
        <4>1. Cardinality(O(k) \cup {e}) = Cardinality(O(k)) + 1
          BY <1>1, <3>8, FS_AddElement
        <4>2. QED
          BY <3>1, <3>8, <4>1
      <3>10. QED
        BY <3>9
    <2>5. QED
      BY <2>3, <2>4
  <1>5. Nat \subseteq N
    <2> HIDE DEF N
    <2>1. QED
      BY <1>3, <1>4, NatInduct
  <1>6. n \in N
    BY <1>5
  <1>7. QED
    BY <1>1, <1>6

-------------------------------------------------------------------------------
(* A thread on its way.  The replies found so far are below the root and   *)
(* within the levels read; each but the last level is settled: whoever     *)
(* answers it and was there at the start has been found.                   *)

Age ==
  CHOOSE age \in [Event -> Event] :
    \A e \in Event : RefOf[e] \in Event => age[RefOf[e]] < age[e]

LEMMA Older ==
  /\ \A e \in Event : Age[e] \in Int
  /\ \A e \in Event : RefOf[e] \in Event => Age[RefOf[e]] < Age[e]
  <1>1. /\ Age \in [Event -> Event]
        /\ \A e \in Event : RefOf[e] \in Event => Age[RefOf[e]] < Age[e]
    BY RefsLeadBack DEF Age
  <1>2. QED
    BY <1>1, CitationsAssumption

ThreadTypes(t, S) ==
  /\ t \in [pc : {"level", "sent"}, root : Event, before : SUBSET Event,
            parents : SUBSET Event, depth : Nat, limit : Nat, replies : SUBSET Event]
  /\ t.before \subseteq S
  /\ t.depth <= ThreadDepth
  /\ t.replies \subseteq S
  /\ IsFiniteSet(t.replies)

ThreadSound(t, S) ==
  /\ Cardinality(t.replies) + t.limit = ThreadLimit
  /\ \A e \in t.replies : Age[t.root] < Age[e]
  /\ {t.root} \cup t.replies \subseteq Levels(S, t.root)[ThreadDepth - t.depth]

ThreadWhole(t) ==
  LET settled == ({t.root} \cup t.replies) \ t.parents
  IN  /\ t.depth # 0
      /\ t.parents \subseteq {t.root} \cup t.replies
      /\ \A e \in t.replies : RefOf[e] \in settled
      /\ \A e \in t.before \cap Replies : RefOf[e] \in settled => e \in t.replies
      /\ Levels(t.before, t.root)[ThreadDepth - t.depth] \subseteq {t.root} \cup t.replies

ThreadOK(t, S) ==
  /\ t.pc \in {"none", "level", "sent"}
  /\ t.pc # "none" => ThreadTypes(t, S) /\ ThreadSound(t, S)
  /\ t.pc = "level" => ThreadWhole(t)
  /\ t.pc = "sent" => \/ Below(t.before, t.root) \subseteq t.replies
                      \/ t.limit = 0

LEMMA ThreadGrows ==
  ASSUME NEW t, NEW S, NEW T, S \subseteq T, ThreadOK(t, S)
  PROVE  ThreadOK(t, T)
  <1>1. CASE t.pc = "none"
    BY <1>1 DEF ThreadOK
  <1>2. CASE t.pc # "none"
    <2>1. ThreadTypes(t, S) /\ ThreadSound(t, S)
      BY <1>2 DEF ThreadOK
    <2>2. ThreadDepth - t.depth \in 0..ThreadDepth
      BY <2>1, CitationsAssumption DEF ThreadTypes
    <2>3. Levels(S, t.root)[ThreadDepth - t.depth] \subseteq Levels(T, t.root)[ThreadDepth - t.depth]
      BY <2>2, LevelsGrow
    <2>4. ThreadTypes(t, T)
      BY <2>1 DEF ThreadTypes
    <2>5. ThreadSound(t, T)
      BY <2>1, <2>3 DEF ThreadSound
    <2>6. QED
      BY <2>4, <2>5 DEF ThreadOK
  <1>3. QED
    BY <1>1, <1>2

LEMMA ThreadOpens ==
  ASSUME NEW S, S \subseteq Event, NEW e \in S
  PROVE  ThreadOK([pc |-> "level", root |-> e, before |-> S, parents |-> {e},
                   depth |-> ThreadDepth, limit |-> ThreadLimit, replies |-> {}], S)
  <1> DEFINE t == [pc |-> "level", root |-> e, before |-> S, parents |-> {e},
                   depth |-> ThreadDepth, limit |-> ThreadLimit, replies |-> {}]
  <1>1. /\ t \in [pc : {"level", "sent"}, root : Event, before : SUBSET Event,
                  parents : SUBSET Event, depth : Nat, limit : Nat, replies : SUBSET Event]
        /\ t.pc = "level" /\ t.root = e /\ t.before = S /\ t.parents = {e}
        /\ t.depth = ThreadDepth /\ t.limit = ThreadLimit /\ t.replies = {}
    BY CitationsAssumption
  <1> HIDE DEF t
  <1>2. ThreadTypes(t, S)
    BY <1>1, FS_EmptySet, CitationsAssumption DEF ThreadTypes
  <1>3. ThreadDepth - t.depth = 0
    BY <1>1, CitationsAssumption
  <1>4. Levels(S, e)[ThreadDepth - t.depth] = {e}
    BY <1>3, LevelZero
  <1>5. Cardinality(t.replies) + t.limit = ThreadLimit
    BY <1>1, FS_EmptySet, CitationsAssumption
  <1>6. ThreadSound(t, S)
    BY <1>1, <1>4, <1>5 DEF ThreadSound
  <1>7. ThreadWhole(t)
    BY <1>1, <1>4, CitationsAssumption DEF ThreadWhole
  <1>8. ThreadOK(t, S)
    BY <1>1, <1>2, <1>6, <1>7 DEF ThreadOK
  <1>9. QED
    BY <1>8 DEF t

LEMMA ThreadReads ==
  ASSUME NEW S, S \subseteq Event, IsFiniteSet(S), NEW t, t.pc = "level", ThreadOK(t, S),
         NEW found, found = Oldest({e \in S \cap Replies : RefOf[e] \in t.parents}, t.limit),
         NEW rest, rest = t.limit - Cardinality(found),
         NEW u, u = [t EXCEPT !.pc = IF found = {} \/ t.depth = 1 \/ rest <= 0
                                     THEN "sent" ELSE "level",
                              !.parents = found,
                              !.depth = t.depth - 1,
                              !.limit = rest,
                              !.replies = t.replies \cup found]
  PROVE  ThreadOK(u, S)
  <1> DEFINE all == {e \in S \cap Replies : RefOf[e] \in t.parents}
             here == {t.root} \cup t.replies
             n == ThreadDepth - t.depth
  <1>1. ThreadTypes(t, S) /\ ThreadSound(t, S) /\ ThreadWhole(t)
    BY DEF ThreadOK
  <1>2. /\ t \in [pc : {"level", "sent"}, root : Event, before : SUBSET Event,
                  parents : SUBSET Event, depth : Nat, limit : Nat, replies : SUBSET Event]
        /\ t.depth # 0 /\ t.depth <= ThreadDepth /\ IsFiniteSet(t.replies)
        /\ t.before \subseteq S /\ t.replies \subseteq S
        /\ t.parents \subseteq here
    BY <1>1 DEF ThreadTypes, ThreadWhole
  <1>3. /\ u.pc = (IF found = {} \/ t.depth = 1 \/ rest <= 0 THEN "sent" ELSE "level")
        /\ u.root = t.root /\ u.before = t.before /\ u.parents = found
        /\ u.depth = t.depth - 1 /\ u.limit = rest /\ u.replies = t.replies \cup found
    BY <1>2
  <1>4. all \in SUBSET S /\ IsFiniteSet(all) /\ all \subseteq Int
    BY FS_Subset, CitationsAssumption
  <1>5. /\ found \in SUBSET all /\ IsFiniteSet(found) /\ Cardinality(found) \in Nat
        /\ Cardinality(found) <= t.limit /\ rest \in Nat
        /\ found = all \/ rest = 0
    <2>1. t.limit \in Nat
      BY <1>2
    <2>2. found \in SUBSET all
      BY OldestAre
    <2>3. /\ IsFiniteSet(found) /\ Cardinality(found) \in Nat
          /\ Cardinality(found) <= t.limit
          /\ found = all \/ Cardinality(found) = t.limit
      <3> HIDE DEF all
      <3>1. found = Oldest(all, t.limit)
        BY DEF all
      <3>2. QED
        BY <1>4, <2>1, <3>1, OldestCount
    <2>4. QED
      BY <2>1, <2>2, <2>3
  \* What is found is younger than the root, and was not found before.
  <1>6. ASSUME NEW e \in found
        PROVE  /\ e \in S /\ e \in Event /\ e \in Replies /\ RefOf[e] \in t.parents
               /\ Age[t.root] < Age[e] /\ e # t.root /\ e \notin t.replies
    <2>1. e \in S /\ e \in Event /\ e \in Replies /\ RefOf[e] \in t.parents
      BY <1>5
    <2>2. RefOf[e] \in Event /\ RefOf[e] \in here
      BY <1>2, <2>1
    <2>3. Age[RefOf[e]] < Age[e]
      BY <2>1, <2>2, Older
    <2>4. RefOf[e] = t.root \/ Age[t.root] < Age[RefOf[e]]
      BY <1>1, <2>2 DEF ThreadSound
    <2>5. Age[t.root] \in Int /\ Age[e] \in Int /\ Age[RefOf[e]] \in Int
      BY <1>2, <2>1, <2>2, Older
    <2>6. Age[t.root] < Age[e]
      BY <2>3, <2>4, <2>5
    <2>7. e # t.root
      BY <2>5, <2>6
    <2>8. e \notin t.replies
      BY <1>1, <2>1 DEF ThreadWhole
    <2>9. QED
      BY <2>1, <2>6, <2>7, <2>8
  <1>7. IsFiniteSet(u.replies) /\ Cardinality(u.replies) = Cardinality(t.replies) + Cardinality(found)
    <2>1. t.replies \cap found = {}
      BY <1>6
    <2>2. /\ IsFiniteSet(t.replies \cup found)
          /\ Cardinality(t.replies \cup found)
               = Cardinality(t.replies) + Cardinality(found) - Cardinality(t.replies \cap found)
      BY <1>2, <1>5, FS_Union
    <2>3. Cardinality(t.replies) \in Nat /\ Cardinality({}) = 0
      BY <1>2, FS_CardinalityType, FS_EmptySet
    <2>4. Cardinality(t.replies \cup found) = Cardinality(t.replies) + Cardinality(found)
      <3>1. Cardinality(t.replies \cap found) = 0
        BY <2>1, <2>3
      <3>2. QED
        BY <1>5, <2>2, <2>3, <3>1
    <2>5. u.replies = t.replies \cup found
      BY <1>3
    <2>6. QED
      BY <2>2, <2>4, <2>5
  <1>8. ThreadTypes(u, S)
    <2>1. u \in [pc : {"level", "sent"}, root : Event, before : SUBSET Event,
                 parents : SUBSET Event, depth : Nat, limit : Nat, replies : SUBSET Event]
      <3>1. t.depth - 1 \in Nat
        BY <1>2
      <3>2. found \in SUBSET Event /\ t.replies \cup found \in SUBSET Event
        BY <1>2, <1>6
      <3>3. QED
        BY <1>2, <1>5, <3>1, <3>2
    <2>2. u.depth <= ThreadDepth
      BY <1>2, <1>3, CitationsAssumption
    <2>3. u.before \subseteq S /\ u.replies \subseteq S
      BY <1>2, <1>3, <1>6
    <2>4. QED
      BY <1>7, <2>1, <2>2, <2>3 DEF ThreadTypes
  <1>9. n \in Nat /\ n + 1 <= ThreadDepth /\ ThreadDepth - u.depth = n + 1
        /\ n \in 0..ThreadDepth /\ n + 1 \in 0..ThreadDepth
    BY <1>2, <1>3, CitationsAssumption
  <1>10. here \subseteq Levels(S, t.root)[n]
    BY <1>1 DEF ThreadSound
  <1>11. Levels(t.before, t.root)[n] \subseteq here
    BY <1>1 DEF ThreadWhole
  <1>12. ThreadSound(u, S)
    <2>1. Cardinality(u.replies) + u.limit = ThreadLimit
      <3>1. Cardinality(t.replies) + t.limit = ThreadLimit
        BY <1>1 DEF ThreadSound
      <3>2. Cardinality(t.replies) \in Nat /\ t.limit \in Nat
        BY <1>2, FS_CardinalityType
      <3>3. QED
        BY <1>3, <1>5, <1>7, <3>1, <3>2
    <2>2. \A e \in u.replies : Age[u.root] < Age[e]
      BY <1>1, <1>3, <1>6 DEF ThreadSound
    <2>3. Levels(S, t.root)[n] \subseteq Levels(S, t.root)[n + 1]
      BY <1>9, LevelsGrow
    <2>4. Levels(S, t.root)[n + 1] = {t.root} \cup Answers(S, Levels(S, t.root)[n])
      BY <1>9, LevelNext
    <2>5. found \subseteq Levels(S, t.root)[n + 1]
      <3> HIDE DEF here
      <3>1. \A e \in found : e \in Answers(S, Levels(S, t.root)[n])
        BY <1>2, <1>6, <1>10 DEF Answers
      <3>2. QED
        BY <2>4, <3>1
    <2>6. {u.root} \cup u.replies \subseteq Levels(S, t.root)[n + 1]
      BY <1>3, <1>10, <2>3, <2>5
    <2>7. Levels(S, u.root)[ThreadDepth - u.depth] = Levels(S, t.root)[n + 1]
      BY <1>3, <1>9
    <2>8. QED
      BY <2>1, <2>2, <2>6, <2>7 DEF ThreadSound
  \* Unless the limit cut it, the level is settled and the next one read.
  <1>13. ASSUME found = all
         PROVE  /\ \A e \in t.before \cap Replies :
                     RefOf[e] \in here => e \in u.replies
                /\ Levels(t.before, t.root)[n + 1] \subseteq {t.root} \cup u.replies
    <2>1. ASSUME NEW e \in t.before \cap Replies, RefOf[e] \in here
          PROVE  e \in u.replies
      <3>1. CASE RefOf[e] \in t.parents
        BY <1>2, <1>3, <1>13, <3>1
      <3>2. CASE RefOf[e] \notin t.parents
        <4>1. e \in t.replies
          BY <1>1, <2>1, <3>2 DEF ThreadWhole
        <4>2. QED
          BY <1>3, <4>1
      <3>3. QED
        BY <3>1, <3>2
    <2>2. Levels(t.before, t.root)[n + 1] = {t.root} \cup Answers(t.before, Levels(t.before, t.root)[n])
      BY <1>9, LevelNext
    <2>3. Answers(t.before, Levels(t.before, t.root)[n]) \subseteq u.replies
      <3> HIDE DEF here
      <3>1. QED
        BY <1>11, <2>1 DEF Answers
    <2>4. QED
      BY <2>1, <2>2, <2>3
  <1>14. ASSUME u.pc = "level"
         PROVE  ThreadWhole(u)
    <2>1. rest > 0 /\ t.depth # 1
      BY <1>3, <1>5, <1>14
    <2>2. found = all /\ u.depth # 0
      BY <1>2, <1>3, <1>5, <2>1
    <2>3. u.parents \subseteq {u.root} \cup u.replies
      BY <1>3
    <2>4. ({u.root} \cup u.replies) \ u.parents = here
      BY <1>3, <1>6
    <2>5. \A e \in u.replies : RefOf[e] \in here
      BY <1>1, <1>2, <1>3, <1>6 DEF ThreadWhole
    <2>6. \A e \in u.before \cap Replies : RefOf[e] \in here => e \in u.replies
      BY <1>3, <1>13, <2>2
    <2>7. Levels(u.before, u.root)[ThreadDepth - u.depth] \subseteq {u.root} \cup u.replies
      BY <1>3, <1>9, <1>13, <2>2
    <2> HIDE DEF here
    <2>8. QED
      BY <2>2, <2>3, <2>4, <2>5, <2>6, <2>7 DEF ThreadWhole
  <1>15. ASSUME u.pc = "sent"
         PROVE  Below(u.before, u.root) \subseteq u.replies \/ u.limit = 0
    <2>1. CASE rest = 0
      BY <1>3, <2>1
    <2>2. CASE found = all /\ t.depth = 1
      <3>1. n + 1 = ThreadDepth
        BY <1>2, <2>2, CitationsAssumption
      <3>2. Levels(t.before, t.root)[ThreadDepth] \subseteq {t.root} \cup u.replies
        BY <1>13, <2>2, <3>1
      <3>3. QED
        BY <1>3, <3>2, BelowIs
    <2>3. CASE found = all /\ found = {}
      <3>1. u.replies = t.replies
        BY <1>3, <2>3
      <3>2. \A e \in t.before \cap Replies : RefOf[e] \in here => e \in here
        BY <1>13, <2>3, <3>1
      <3>3. t.root \in here
        OBVIOUS
      <3> HIDE DEF here
      <3>4. Levels(t.before, t.root)[ThreadDepth] \subseteq here
        <4>1. ThreadDepth \in 0..ThreadDepth
          BY CitationsAssumption
        <4>2. QED
          BY <3>2, <3>3, <4>1, LevelsInside
      <3>5. QED
        BY <1>3, <3>1, <3>4, BelowIs DEF here
    <2>4. QED
      BY <1>3, <1>5, <1>15, <2>1, <2>2, <2>3
  <1>16. u.pc \in {"level", "sent"}
    BY <1>3
  <1>17. QED
    BY <1>8, <1>12, <1>14, <1>15, <1>16 DEF ThreadOK

ThreadInv == ThreadOK(thread, stored)

LEMMA StepsKeepThread ==
  ASSUME IInv, ThreadInv, [CitationsNext]_citationVars
  PROVE  ThreadInv'
  <1>1. stored \subseteq Event /\ IsFiniteSet(stored)
    <2>1. stored \in SUBSET Logged
      BY DEF IInv, LogOK
    <2>2. QED
      BY <2>1, FS_Subset DEF IInv, LogOK, Logged
  <1>2. ASSUME UNCHANGED thread, stored \subseteq stored'
        PROVE  ThreadInv'
    BY <1>2, ThreadGrows DEF ThreadInv
  <1>3. CASE \E e \in Event : OpenThread(e)
    <2>1. PICK e \in Event : OpenThread(e)
      BY <1>3
    <2>2. /\ e \in stored /\ stored' = stored
          /\ thread' = [pc |-> "level", root |-> e, before |-> stored, parents |-> {e},
                        depth |-> ThreadDepth, limit |-> ThreadLimit, replies |-> {}]
      BY <2>1 DEF OpenThread, eventVars
    <2>3. QED
      BY <1>1, <2>2, ThreadOpens DEF ThreadInv
  <1>4. CASE CollectReplies
    <2> DEFINE found == Oldest({e \in stored \cap Replies : RefOf[e] \in thread.parents},
                               thread.limit)
               rest == thread.limit - Cardinality(found)
    <2>1. /\ thread.pc = "level" /\ stored' = stored
          /\ thread' = [thread EXCEPT !.pc = IF found = {} \/ thread.depth = 1 \/ rest <= 0
                                             THEN "sent" ELSE "level",
                                      !.parents = found,
                                      !.depth = thread.depth - 1,
                                      !.limit = rest,
                                      !.replies = thread.replies \cup found]
      BY <1>4 DEF CollectReplies, RestOfLimit, eventVars
    <2>2. ThreadOK(thread', stored)
      BY <1>1, <2>1, ThreadReads DEF ThreadInv
    <2>3. QED
      BY <2>1, <2>2 DEF ThreadInv
  <1>5. CASE UNCHANGED citationVars
    BY <1>2, <1>5 DEF citationVars, eventVars
  <1>6. ASSUME NEW w \in Worker,
               \/ \E e \in Event : PostEvent(w, e)
               \/ AppendEvent(w) \/ StoreEvent(w) \/ StoreEdges(w)
               \/ CountOut(w) \/ WriteOut(w) \/ CountIn(w) \/ WriteIn(w)
               \/ Fail(w)
        PROVE  ThreadInv'
    <2>1. UNCHANGED thread /\ stored \subseteq stored'
      BY <1>6 DEF PostEvent, AppendEvent, StoreEvent, StoreEdges, CountOut, WriteOut,
                  CountIn, WriteIn, Fail
    <2>2. QED
      BY <1>2, <2>1
  <1>7. QED
    BY <1>3, <1>4, <1>5, <1>6 DEF CitationsNext

\* GET /thread reads a level at a time, with what the limit leaves, while replies
\* arrive: nobody is found twice, and no level is skipped.
THEOREM ThreadsAreTrees == CitationsSpec => []ThreadIsTree
  <1>1. CitationsInit => ThreadInv
    BY DEF CitationsInit, ThreadInv, ThreadOK, NoThread
  <1>2. IInv /\ ThreadInv /\ [CitationsNext]_citationVars => ThreadInv'
    BY StepsKeepThread
  <1>3. ThreadInv => ThreadIsTree
    <2>1. SUFFICES ASSUME ThreadInv, thread.pc = "sent"
                   PROVE  /\ Cardinality(thread.replies) <= ThreadLimit
                          /\ thread.replies \subseteq Below(stored, thread.root)
                          /\ \/ Below(thread.before, thread.root) \subseteq thread.replies
                             \/ Cardinality(thread.replies) = ThreadLimit
      BY DEF ThreadIsTree
    <2> DEFINE t == thread
    <2>2. /\ ThreadTypes(t, stored) /\ ThreadSound(t, stored)
          /\ Below(t.before, t.root) \subseteq t.replies \/ t.limit = 0
      BY <2>1 DEF ThreadInv, ThreadOK
    <2>3. /\ t.limit \in Nat /\ Cardinality(t.replies) \in Nat
          /\ Cardinality(t.replies) + t.limit = ThreadLimit
      BY <2>2, FS_CardinalityType DEF ThreadTypes, ThreadSound
    <2>4. t.replies \subseteq Levels(stored, t.root)[ThreadDepth]
      <3>1. ThreadDepth - t.depth \in 0..ThreadDepth
        BY <2>2, CitationsAssumption DEF ThreadTypes
      <3>2. Levels(stored, t.root)[ThreadDepth - t.depth] \subseteq Levels(stored, t.root)[ThreadDepth]
        BY <3>1, LevelsEnd
      <3>3. QED
        BY <2>2, <3>2 DEF ThreadSound
    <2>5. t.root \notin t.replies
      <3>1. Age[t.root] \in Int
        BY <2>2, Older DEF ThreadTypes
      <3>2. QED
        BY <2>2, <3>1 DEF ThreadSound
    <2>6. t.replies \subseteq Below(stored, t.root)
      BY <2>4, <2>5, BelowIs
    <2>7. QED
      BY <2>2, <2>3, <2>6, CitationsAssumption
  <1>4. QED
    BY <1>1, <1>2, <1>3, CitationsInvariant, PTL DEF CitationsSpec

================================================================================
