--------------------------------- MODULE Hosts ---------------------------------
(***************************************************************************)
(* The host registry and the spot-checks of the coordinator                *)
(* (views/host-registry.ts, views/availability.ts, physics/availability.ts)*)
(* A runner is one execution of runAllChecks: it lists the hosts, probes   *)
(* each at a CID the host says it serves, and then rescores all hosts, one *)
(* query at a time; registrations, announcements, the clock and the other  *)
(* runner go on in between.  No code sets a host UNBONDING or SLASHED, so  *)
(* the guards against these two are always passed.                         *)
(*                                                                         *)
(* The coordinator never sees the bytes of a block.  It asks the endpoint  *)
(* the host has named, and believes the answer.  A gateway of this         *)
(* repository answers for the blocks it holds, and for no asset, as GET    *)
(* /spot-check looks in the block store only; what any other endpoint      *)
(* answers for is its owner's choice, up to every CID there is.            *)
(*                                                                         *)
(* A score is a share of passed checks, and all that is ever asked of it   *)
(* is whether it is 0, below 0.6 or at least 0.6.                          *)
(***************************************************************************)
EXTENDS Integers, FiniteSets

CONSTANTS
  Runner,      \* executions of runAllChecks that may be under way at a time
  Host,
  Cid,
  Vouched,     \* external: the CIDs the endpoint of each host may answer for
  Window,      \* AVAILABILITY_WINDOW_EPOCHS
  LastEpoch,   \* bound on the clock
  MaxRuns,     \* bound on executions of runAllChecks
  NoHost

ASSUME HostsAssumption ==
  /\ Vouched \in [Host -> SUBSET Cid]
  /\ Window \in Nat
  /\ LastEpoch \in Nat
  /\ MaxRuns \in Nat

Epoch == 0..LastEpoch
Score == {"zero", "low", "good"}
Status == {"PENDING", "TRUSTED", "DEGRADED", "INACTIVE"}
HostRow == [status : Status, score : Score, endpoint : BOOLEAN]

ASSUME NoHostAssumption == NoHost \notin HostRow

VARIABLES
  epoch,     \* currentEpoch()
  hosts,     \* table Host: NoHost, or the row of a registered host
  serves,    \* table HostServe
  checks,    \* table SpotCheck: passed and failed checks by host and epoch
  run,       \* where each runner stands
  runs,      \* executions of runAllChecks so far
  raced,     \* history: runs overlapped, one failed, or the clock moved in one
  scoredAt   \* history: the epoch the last finished run scored for

hostVars == <<epoch, hosts, serves, checks, run, runs, raced, scoredAt>>

Idle == [pc |-> "idle"]
Registered == {h \in Host : hosts[h] # NoHost}
Trusted == {h \in Registered : hosts[h].status = "TRUSTED"}

(***************************************************************************)
(* POST /host/register, and POST /event for an event of kind HOST: one     *)
(* upsert, with an endpoint or without.  A host that registers again keeps *)
(* its status and its score, but not its endpoint if it gives none now.    *)
(***************************************************************************)
NewHost(endpoint) == [status |-> "PENDING", score |-> "zero", endpoint |-> endpoint]

\* Fault: a host that registers again starts over.
PendingAgain(h, endpoint) == [hosts[h] EXCEPT !.status = "PENDING", !.endpoint = endpoint]
Updated(h, endpoint) == [hosts[h] EXCEPT !.endpoint = endpoint]

RegisterHost(h, endpoint) ==
  /\ hosts' = [hosts EXCEPT ![h] = IF @ = NoHost THEN NewHost(endpoint)
                                   ELSE Updated(h, endpoint)]
  /\ UNCHANGED <<epoch, serves, checks, run, runs, raced, scoredAt>>

\* Fault: anyone may announce.
Anyone(h) == TRUE
Known(h) == hosts[h] # NoHost

\* POST /host/serve, for any CID.  Hosts are never deleted, so the two queries
\* are one step.
AddServedCid(h, c) ==
  /\ Known(h)
  /\ serves' = serves \cup {<<h, c>>}
  /\ UNCHANGED <<epoch, hosts, checks, run, runs, raced, scoredAt>>

(***************************************************************************)
(* computeAvailabilityScore over the checks getHostChecks fetched: passed  *)
(* checks over all checks, in the epochs [first, last].                    *)
(***************************************************************************)
\* The number of checks of one outcome in the epochs 0..last.
CountTo(outcome) ==
  LET n[e \in -1..LastEpoch] == IF e < 0 THEN 0 ELSE outcome[e] + n[e - 1] IN n

Count(outcome, first, last) ==
  IF first > last THEN 0 ELSE CountTo(outcome)[last] - CountTo(outcome)[first - 1]

\* Both functions start the window at epoch - Window, inclusive.
WindowStart(e) == IF e < Window THEN 0 ELSE e - Window

ComputeScore(h, first, last) ==
  LET passed == Count([e \in Epoch |-> checks[h][e].passed], first, last)
      total == passed + Count([e \in Epoch |-> checks[h][e].failed], first, last)
  IN  CASE passed = 0 -> "zero"
        [] passed # 0 /\ 10 * passed < 6 * total -> "low"
        [] OTHER -> "good"

\* The status updateAvailability writes beside a score.
NewStatus(score, status) ==
  CASE score = "good" -> "TRUSTED"
    [] score = "low" -> IF status = "TRUSTED" THEN "DEGRADED" ELSE status
    [] score = "zero" -> "INACTIVE"

(***************************************************************************)
(* runAllChecks.  The epoch of its checks is taken at its start, that of   *)
(* its scores when the last host has been checked.                         *)
(***************************************************************************)
Step(r, t) == run' = [run EXCEPT ![r] = t]

AllIdleBut(r) == \A s \in Runner \ {r} : run[s].pc \in {"idle", "settle"}

Checking == [pc |-> "list", epoch |-> epoch]

\* A run begins, alone or not.
CountRun(r) ==
  /\ runs < MaxRuns
  /\ runs' = runs + 1
  /\ raced' = (raced \/ ~AllIdleBut(r))

\* What comes after the hosts in left have still to be checked.
NextCheck(left, e) ==
  IF left = {} THEN [pc |-> "listScored", epoch |-> epoch]
  ELSE [pc |-> "check", left |-> left, epoch |-> e]

ListHosts(r) ==
  /\ run[r].pc = "list"
  /\ Step(r, NextCheck({h \in Registered : hosts[h].endpoint}, run[r].epoch))
  /\ UNCHANGED <<epoch, hosts, serves, checks, runs, raced, scoredAt>>

\* spotCheckHost: the endpoint is read again, and may be gone by now.
ReadEndpoint(r, h) ==
  LET left == run[r].left \ {h}
  IN  /\ run[r].pc = "check"
      /\ h \in run[r].left
      /\ Step(r, IF hosts[h].endpoint
                   THEN [pc |-> "pick", host |-> h, left |-> left, epoch |-> run[r].epoch]
                   ELSE NextCheck(left, run[r].epoch))
      /\ UNCHANGED <<epoch, hosts, serves, checks, runs, raced, scoredAt>>

\* One of the CIDs the host serves is picked at random.
PickCid(r) ==
  LET served == {c \in Cid : <<run[r].host, c>> \in serves}
  IN  /\ run[r].pc = "pick"
      /\ IF served # {}
           THEN \E c \in served :
                  Step(r, [pc |-> "probe", host |-> run[r].host, cid |-> c,
                           left |-> run[r].left, epoch |-> run[r].epoch])
           ELSE Step(r, NextCheck(run[r].left, run[r].epoch))
      /\ UNCHANGED <<epoch, hosts, serves, checks, runs, raced, scoredAt>>

\* Fault: any answer passes, also { verified: false }.
AnyAnswer(h, c) == TRUE
\* { verified: true }, in the words of the endpoint itself.
Verified(h, c) == c \in Vouched[h]

\* The answer, or a timeout or an error, is recorded.
RecordCheck(r, passed) ==
  LET h == run[r].host
      e == run[r].epoch
  IN  /\ run[r].pc = "probe"
      /\ passed => Verified(h, run[r].cid)
      /\ checks' = IF passed THEN [checks EXCEPT ![h][e].passed = @ + 1]
                   ELSE [checks EXCEPT ![h][e].failed = @ + 1]
      /\ Step(r, NextCheck(run[r].left, e))
      /\ UNCHANGED <<epoch, hosts, serves, runs, raced, scoredAt>>

(***************************************************************************)
(* updateAllScores.                                                        *)
(***************************************************************************)
NextScore(left, e) ==
  IF left = {} THEN Idle ELSE [pc |-> "score", left |-> left, epoch |-> e]

\* Fault: hosts that are down are not rescored.
ScoredActive == {h \in Registered : hosts[h].status # "INACTIVE"}
Scored == Registered

Finished(t, e) == scoredAt' = IF t = Idle /\ ~raced THEN e ELSE scoredAt

ListScored(r) ==
  LET t == NextScore(Scored, run[r].epoch)
  IN  /\ run[r].pc = "listScored"
      /\ Step(r, t)
      /\ Finished(t, run[r].epoch)
      /\ UNCHANGED <<epoch, hosts, serves, checks, runs, raced>>

\* getHostChecks goes by the clock, computeAvailabilityScore by the run's epoch.
ReadChecks(r, h) ==
  /\ run[r].pc = "score"
  /\ h \in run[r].left
  /\ Step(r, [pc |-> "status", host |-> h, left |-> run[r].left \ {h},
              epoch |-> run[r].epoch,
              score |-> ComputeScore(h, WindowStart(epoch), run[r].epoch)])
  /\ UNCHANGED <<epoch, hosts, serves, checks, runs, raced, scoredAt>>

\* updateAvailability: read the status, then write status and score.
ReadStatus(r) ==
  /\ run[r].pc = "status"
  /\ Step(r, [pc |-> "write", host |-> run[r].host, left |-> run[r].left,
              epoch |-> run[r].epoch, score |-> run[r].score,
              status |-> hosts[run[r].host].status])
  /\ UNCHANGED <<epoch, hosts, serves, checks, runs, raced, scoredAt>>

WriteScore(r) ==
  LET t == NextScore(run[r].left, run[r].epoch)
  IN  /\ run[r].pc = "write"
      /\ hosts' = [hosts EXCEPT
                     ![run[r].host].score = run[r].score,
                     ![run[r].host].status = NewStatus(run[r].score, run[r].status)]
      /\ Step(r, t)
      /\ Finished(t, run[r].epoch)
      /\ UNCHANGED <<epoch, serves, checks, runs, raced>>

\* A query fails, or the process stops: the run ends where it stands.
RunFails(r) ==
  /\ run[r].pc \notin {"idle", "settle"}
  /\ Step(r, Idle)
  /\ raced' = TRUE
  /\ UNCHANGED <<epoch, hosts, serves, checks, runs, scoredAt>>

HostsInit ==
  /\ epoch = 0
  /\ hosts = [h \in Host |-> NoHost]
  /\ serves = {}
  /\ checks = [h \in Host |-> [e \in Epoch |-> [passed |-> 0, failed |-> 0]]]
  /\ run = [r \in Runner |-> Idle]
  /\ runs = 0
  /\ raced = FALSE
  /\ scoredAt = 0

HostsNext ==
  \/ \E h \in Host :
       \/ \E endpoint \in BOOLEAN : RegisterHost(h, endpoint)
       \/ \E c \in Cid : AddServedCid(h, c)
  \/ \E r \in Runner :
       \/ ListHosts(r)
       \/ \E h \in Host : ReadEndpoint(r, h) \/ ReadChecks(r, h)
       \/ PickCid(r)
       \/ \E passed \in BOOLEAN : RecordCheck(r, passed)
       \/ ListScored(r)
       \/ ReadStatus(r)
       \/ WriteScore(r)
       \/ RunFails(r)

-------------------------------------------------------------------------------
\* Where a runner stands between two queries.
RunState ==
  {Idle} \cup [pc : {"list", "listScored", "settle"}, epoch : Epoch]
         \cup [pc : {"check", "score"}, left : SUBSET Host, epoch : Epoch]
         \cup [pc : {"pick"}, host : Host, left : SUBSET Host, epoch : Epoch]
         \cup [pc : {"probe"}, host : Host, cid : Cid, left : SUBSET Host, epoch : Epoch]
         \cup [pc : {"status"}, host : Host, left : SUBSET Host, epoch : Epoch,
               score : Score]
         \cup [pc : {"write"}, host : Host, left : SUBSET Host, epoch : Epoch,
               score : Score, status : Status]

(***************************************************************************)
(* The types of the tables, and: what a runner holds of a host, or an      *)
(* announcement, is of a host that registered.                             *)
(***************************************************************************)
HostsTypeOK ==
  /\ epoch \in Epoch
  /\ hosts \in [Host -> {NoHost} \cup HostRow]
  /\ serves \subseteq Registered \X Cid
  /\ checks \in [Host -> [Epoch -> [passed : Nat, failed : Nat]]]
  /\ run \in [Runner -> RunState]
  /\ runs \in 0..MaxRuns
  /\ raced \in BOOLEAN
  /\ scoredAt \in Epoch
  /\ \A r \in Runner :
       /\ run[r].pc \in {"pick", "probe", "status", "write"} => run[r].host \in Registered
       /\ run[r].pc \in {"check", "score", "pick", "probe", "status", "write"} =>
            run[r].left \subseteq Registered

(***************************************************************************)
(* updateAvailability and registerHost: the status a host is listed with   *)
(* is the one its score earned, although the status is read a query before *)
(* it is written, by several runs at once and between registrations: a     *)
(* host is TRUSTED exactly with a good score, and a host without a passed  *)
(* check in the window is not listed as DEGRADED.                          *)
(***************************************************************************)
StatusFitsScore ==
  \A h \in Registered :
    /\ hosts[h].status = "TRUSTED" <=> hosts[h].score = "good"
    /\ hosts[h].score = "zero" => hosts[h].status \in {"PENDING", "INACTIVE"}

(***************************************************************************)
(* updateAllScores: when no run is under way, the scores are those of the  *)
(* checks recorded so far; they may be stale only after runs overlapped,   *)
(* failed or saw the epoch change.                                         *)
(***************************************************************************)
ScoresFollowChecks ==
  (\A r \in Runner : run[r].pc \in {"idle", "settle"}) /\ ~raced =>
    \A h \in Registered :
      hosts[h].score = ComputeScore(h, WindowStart(scoredAt), scoredAt)

(***************************************************************************)
(* spotCheckHost and updateAvailability: trust takes a probe that passed.  *)
(* A TRUSTED host has a passed check on record, and its own endpoint       *)
(* answers for a CID the host has announced, however runs, registrations   *)
(* without an endpoint and restarts fall together.  If the endpoint is a   *)
(* gateway of this repository the host thus holds and serves a block, and  *)
(* one that serves assets only is never TRUSTED; of any other endpoint     *)
(* this says nothing about what the host holds.                            *)
(***************************************************************************)
TrustTakesProbe ==
  \A h \in Trusted :
    /\ \E e \in Epoch : checks[h][e].passed > 0
    /\ \E c \in Vouched[h] : <<h, c>> \in serves

===============================================================================
