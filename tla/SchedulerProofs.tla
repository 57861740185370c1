---------------------------- MODULE SchedulerProofs ----------------------------
(***************************************************************************)
(* Proofs about the host registry and the scheduler, for every number of   *)
(* runners, hosts and epochs and every window: a host is listed as its     *)
(* score deserves, the score is that of its checks after a run that met no *)
(* other, trust takes a probe, and only closed epochs are settled.         *)
(***************************************************************************)
EXTENDS Scheduler, TotalsProofs, TLAPS

\* What a runner in state x rests on, in epoch e with the hosts of R registered.
RunOK(x, R, e) ==
  /\ x \in RunState
  /\ x.pc \in {"pick", "probe", "status", "write"} => x.host \in R
  /\ x.pc \in {"check", "score", "pick", "probe", "status", "write"} => x.left \subseteq R
  /\ x.pc = "settle" => x.epoch < e

TablesOK ==
  /\ epoch \in Epoch
  /\ hosts \in [Host -> {NoHost} \cup HostRow]
  /\ serves \subseteq Registered \X Cid
  /\ checks \in [Host -> [Epoch -> [passed : Nat, failed : Nat]]]
  /\ runs \in 0..MaxRuns
  /\ raced \in BOOLEAN
  /\ scoredAt \in Epoch
  /\ \A e \in settled : e \in Epoch /\ e < epoch

RunnersOK ==
  /\ run \in [Runner -> RunState]
  /\ \A r \in Runner : RunOK(run[r], Registered, epoch)

IInv == TablesOK /\ StatusFitsScore /\ RunnersOK

-------------------------------------------------------------------------------
(* Runners.                                                                *)

LEMMA RunCases ==
  ASSUME NEW x \in RunState
  PROVE  /\ x.pc \in {"idle", "list", "listScored", "settle", "check", "score", "pick",
                      "probe", "status", "write"}
         /\ x.pc # "idle" => x.epoch \in Epoch
         /\ x.pc \in {"pick", "probe", "status", "write"} => x.host \in Host
         /\ x.pc \in {"check", "score", "pick", "probe", "status", "write"} => x.left \in SUBSET Host
         /\ x.pc = "probe" => x.cid \in Cid
         /\ x.pc \in {"status", "write"} => x.score \in Score
         /\ x.pc = "write" => x.status \in Status
  BY DEF RunState, Idle

LEMMA RunOf ==
  ASSUME IInv, NEW r \in Runner
  PROVE  run[r] \in RunState /\ RunOK(run[r], Registered, epoch)
  BY DEF IInv, RunnersOK

LEMMA RunGrows ==
  ASSUME NEW x, NEW R, NEW S, NEW e \in Epoch, NEW f \in Epoch,
         RunOK(x, R, e), R \subseteq S, e <= f
  PROVE  RunOK(x, S, f)
  <1>1. ASSUME x.pc = "settle"
        PROVE  x.epoch < f
    <2>1. x.epoch \in Epoch /\ x.epoch < e
      BY <1>1, RunCases DEF RunOK
    <2>2. QED
      BY <2>1 DEF Epoch
  <1>2. QED
    BY <1>1 DEF RunOK

\* Runner r goes on to x.
LEMMA RunSteps ==
  ASSUME IInv, TablesOK', NEW r \in Runner, NEW x, Step(r, x),
         Registered \subseteq Registered', epoch <= epoch',
         RunOK(x, Registered', epoch')
  PROVE  RunnersOK'
  <1>1. run' = [run EXCEPT ![r] = x] /\ run \in [Runner -> RunState]
    BY DEF Step, IInv, RunnersOK
  <1>2. \A q \in Runner : run'[q] = IF q = r THEN x ELSE run[q]
    BY <1>1
  <1>3. x \in RunState
    BY DEF RunOK
  <1>4. run' \in [Runner -> RunState]
    BY <1>1, <1>3
  <1>5. ASSUME NEW q \in Runner
        PROVE  RunOK(run'[q], Registered', epoch')
    <2>1. CASE q = r
      BY <1>2, <2>1
    <2>2. CASE q # r
      <3>1. run'[q] = run[q] /\ RunOK(run[q], Registered, epoch)
        BY <1>2, <2>2, RunOf
      <3>2. epoch \in Epoch /\ epoch' \in Epoch
        BY DEF IInv, TablesOK
      <3>3. RunOK(run[q], Registered', epoch')
        BY <3>1, <3>2, RunGrows
      <3>4. QED
        BY <3>1, <3>3
    <2>3. QED
      BY <2>1, <2>2
  <1>6. QED
    BY <1>4, <1>5 DEF RunnersOK

\* Runner r goes on to x, and the tables stay.
LEMMA TablesStay ==
  ASSUME IInv, NEW r \in Runner, NEW x, Step(r, x), RunOK(x, Registered, epoch),
         UNCHANGED <<epoch, hosts, serves, checks, settled>>,
         runs' \in 0..MaxRuns, raced' \in BOOLEAN, scoredAt' \in Epoch
  PROVE  IInv'
  <1>1. Registered' = Registered
    BY DEF Registered
  <1>2. TablesOK'
    BY <1>1 DEF IInv, TablesOK
  <1>3. StatusFitsScore'
    BY <1>1 DEF IInv, StatusFitsScore
  <1>4. epoch <= epoch'
    BY DEF IInv, TablesOK, Epoch
  <1>5. RunOK(x, Registered', epoch') /\ Registered \subseteq Registered'
    BY <1>1
  <1>6. RunnersOK'
    BY <1>2, <1>4, <1>5, RunSteps
  <1>7. QED
    BY <1>2, <1>3, <1>6 DEF IInv

\* The tables change, and no runner goes on.
LEMMA RunnersStay ==
  ASSUME IInv, TablesOK', UNCHANGED run, Registered \subseteq Registered', epoch <= epoch'
  PROVE  RunnersOK'
  <1>1. ASSUME NEW q \in Runner
        PROVE  RunOK(run[q], Registered', epoch')
    <2>1. RunOK(run[q], Registered, epoch) /\ epoch \in Epoch /\ epoch' \in Epoch
      BY RunOf DEF IInv, TablesOK
    <2>2. QED
      BY <2>1, RunGrows
  <1>2. QED
    BY <1>1 DEF IInv, RunnersOK

LEMMA CheckIsOK ==
  ASSUME IInv, NEW left \in SUBSET Registered, NEW e \in Epoch
  PROVE  RunOK(NextCheck(left, e), Registered, epoch)
  BY DEF IInv, TablesOK, NextCheck, RunOK, RunState, Registered

LEMMA ScoreIsOK ==
  ASSUME IInv, NEW left \in SUBSET Registered, NEW e \in Epoch, NEW R, NEW f,
         Registered \subseteq R
  PROVE  RunOK(NextScore(left, e), R, f)
  BY DEF NextScore, RunOK, RunState, Registered, Idle

-------------------------------------------------------------------------------
(* The host registry.                                                      *)

LEMMA InitOK == ASSUME SchedulerInit PROVE IInv
  <1>1. 0 \in Epoch /\ 0 \in 0..MaxRuns
    BY HostsAssumption DEF Epoch
  <1>2. Registered = {}
    BY DEF Registered, SchedulerInit, HostsInit
  <1>3. checks \in [Host -> [Epoch -> [passed : Nat, failed : Nat]]]
    BY DEF SchedulerInit, HostsInit
  <1>4. TablesOK
    BY <1>1, <1>2, <1>3 DEF TablesOK, SchedulerInit, HostsInit
  <1>5. StatusFitsScore
    BY <1>2 DEF StatusFitsScore
  <1>6. RunnersOK
    BY DEF RunnersOK, RunOK, RunState, Idle, SchedulerInit, HostsInit
  <1>7. QED
    BY <1>4, <1>5, <1>6 DEF IInv

\* A row of the table Host is rewritten.
LEMMA RowWritten ==
  ASSUME IInv, NEW h \in Host, NEW row \in HostRow,
         hosts' = [hosts EXCEPT ![h] = row],
         row.status = "TRUSTED" <=> row.score = "good",
         row.score = "zero" => row.status \in {"PENDING", "INACTIVE"}
  PROVE  /\ hosts' \in [Host -> {NoHost} \cup HostRow]
         /\ Registered' = Registered \cup {h}
         /\ StatusFitsScore'
  <1>1. hosts \in [Host -> {NoHost} \cup HostRow]
    BY DEF IInv, TablesOK
  <1>2. \A g \in Host : hosts'[g] = IF g = h THEN row ELSE hosts[g]
    BY <1>1
  <1>3. row # NoHost
    BY NoHostAssumption
  <1>4. Registered' = Registered \cup {h}
    BY <1>2, <1>3 DEF Registered
  <1>5. ASSUME NEW g \in Registered'
        PROVE  /\ hosts'[g].status = "TRUSTED" <=> hosts'[g].score = "good"
               /\ hosts'[g].score = "zero" => hosts'[g].status \in {"PENDING", "INACTIVE"}
    <2>1. g \in Host
      BY DEF Registered
    <2>2. CASE g = h
      BY <1>2, <2>1, <2>2
    <2>3. CASE g # h
      <3>1. g \in Registered /\ hosts'[g] = hosts[g]
        BY <1>2, <1>4, <2>1, <2>3
      <3>2. QED
        BY <3>1 DEF IInv, StatusFitsScore
    <2>4. QED
      BY <2>2, <2>3
  <1>6. StatusFitsScore'
    BY <1>5 DEF StatusFitsScore
  <1>7. QED
    BY <1>1, <1>4, <1>6

LEMMA RegisterHostOK ==
  ASSUME IInv, NEW h \in Host, NEW endpoint \in BOOLEAN, RegisterHost(h, endpoint),
         UNCHANGED settled
  PROVE  IInv'
  <1> DEFINE row == IF hosts[h] = NoHost THEN NewHost(endpoint) ELSE Updated(h, endpoint)
  <1>1. hosts' = [hosts EXCEPT ![h] = row] /\ hosts \in [Host -> {NoHost} \cup HostRow]
    BY DEF RegisterHost, IInv, TablesOK
  <1>2. /\ row \in HostRow
        /\ row.status = "TRUSTED" <=> row.score = "good"
        /\ row.score = "zero" => row.status \in {"PENDING", "INACTIVE"}
    <2>1. CASE hosts[h] = NoHost
      BY <2>1 DEF NewHost, HostRow, Status, Score
    <2>2. CASE hosts[h] # NoHost
      <3>1. hosts[h] \in HostRow /\ h \in Registered
        BY <1>1, <2>2 DEF Registered
      <3>2. row = [hosts[h] EXCEPT !.endpoint = endpoint]
        BY <2>2 DEF Updated
      <3>3. row \in HostRow /\ row.status = hosts[h].status /\ row.score = hosts[h].score
        BY <3>1, <3>2 DEF HostRow
      <3>4. QED
        BY <3>1, <3>3 DEF IInv, StatusFitsScore
    <2>3. QED
      BY <2>1, <2>2
  <1> HIDE DEF row
  <1>3. /\ hosts' \in [Host -> {NoHost} \cup HostRow]
        /\ Registered' = Registered \cup {h}
        /\ StatusFitsScore'
    BY <1>1, <1>2, RowWritten
  <1>4. TablesOK'
    BY <1>3 DEF RegisterHost, IInv, TablesOK
  <1>5. UNCHANGED run /\ epoch <= epoch' /\ Registered \subseteq Registered'
    BY <1>3 DEF RegisterHost, IInv, TablesOK, Epoch
  <1>6. RunnersOK'
    BY <1>4, <1>5, RunnersStay
  <1>7. QED
    BY <1>3, <1>4, <1>6 DEF IInv

LEMMA AddServedCidOK ==
  ASSUME IInv, NEW h \in Host, NEW c \in Cid, AddServedCid(h, c), UNCHANGED settled
  PROVE  IInv'
  <1>1. UNCHANGED <<epoch, hosts, checks, run, runs, raced, scoredAt>>
    BY DEF AddServedCid
  <1>2. Registered' = Registered /\ h \in Registered
    BY <1>1 DEF Registered, AddServedCid, Known
  <1>3. serves' \subseteq Registered' \X Cid
    BY <1>2 DEF AddServedCid, IInv, TablesOK
  <1>4. TablesOK'
    BY <1>1, <1>3 DEF IInv, TablesOK
  <1>5. StatusFitsScore'
    BY <1>1, <1>2 DEF IInv, StatusFitsScore
  <1>6. epoch <= epoch'
    BY <1>1 DEF IInv, TablesOK, Epoch
  <1>7. RunnersOK'
    BY <1>1, <1>2, <1>4, <1>6, RunnersStay
  <1>8. QED
    BY <1>4, <1>5, <1>7 DEF IInv
-------------------------------------------------------------------------------
(* A run of the spot-checks.                                               *)

LEMMA ListHostsOK ==
  ASSUME IInv, NEW r \in Runner, ListHosts(r), UNCHANGED settled
  PROVE  IInv'
  <1> DEFINE left == {h \in Registered : hosts[h].endpoint}
  <1>1. run[r].epoch \in Epoch
    BY RunOf, RunCases DEF ListHosts
  <1>2. RunOK(NextCheck(left, run[r].epoch), Registered, epoch)
    BY <1>1, CheckIsOK
  <1>3. Step(r, NextCheck(left, run[r].epoch))
    BY DEF ListHosts
  <1>4. QED
    BY <1>2, <1>3, TablesStay DEF ListHosts, IInv, TablesOK

LEMMA ReadEndpointOK ==
  ASSUME IInv, NEW r \in Runner, NEW h \in Host, ReadEndpoint(r, h), UNCHANGED settled
  PROVE  IInv'
  <1> DEFINE left == run[r].left \ {h}
             x == [pc |-> "pick", host |-> h, left |-> left, epoch |-> run[r].epoch]
             y == NextCheck(left, run[r].epoch)
  <1>1. /\ run[r].epoch \in Epoch
        /\ run[r].left \subseteq Registered
        /\ h \in run[r].left
    BY RunOf, RunCases DEF ReadEndpoint, RunOK
  <1>2. left \in SUBSET Registered /\ left \in SUBSET Host /\ h \in Registered
    BY <1>1 DEF Registered
  <1>3. x \in RunState
    BY <1>1, <1>2 DEF RunState
  <1>4. RunOK(x, Registered, epoch)
    BY <1>2, <1>3 DEF RunOK
  <1>5. RunOK(y, Registered, epoch)
    BY <1>1, <1>2, CheckIsOK
  <1>6. Step(r, IF hosts[h].endpoint THEN x ELSE y)
    BY DEF ReadEndpoint
  <1> HIDE DEF x, y
  <1>7. RunOK(IF hosts[h].endpoint THEN x ELSE y, Registered, epoch)
    BY <1>4, <1>5
  <1>8. QED
    BY <1>6, <1>7, TablesStay DEF ReadEndpoint, IInv, TablesOK

LEMMA PickCidOK ==
  ASSUME IInv, NEW r \in Runner, PickCid(r), UNCHANGED settled
  PROVE  IInv'
  <1> DEFINE h == run[r].host
             left == run[r].left
             served == {c \in Cid : <<h, c>> \in serves}
             Probe(c) == [pc |-> "probe", host |-> h, cid |-> c, left |-> left,
                          epoch |-> run[r].epoch]
  <1>1. /\ run[r].epoch \in Epoch
        /\ left \in SUBSET Registered
        /\ h \in Registered
    BY RunOf, RunCases DEF PickCid, RunOK
  <1>2. left \in SUBSET Host /\ h \in Host
    BY <1>1 DEF Registered
  <1>3. PICK x : Step(r, x) /\ RunOK(x, Registered, epoch)
    <2>1. CASE served # {}
      <3>1. PICK c \in served : Step(r, Probe(c))
        BY <2>1 DEF PickCid
      <3>2. Probe(c) \in RunState
        BY <1>1, <1>2 DEF RunState
      <3>3. RunOK(Probe(c), Registered, epoch)
        BY <1>1, <3>2 DEF RunOK
      <3>4. QED
        BY <3>1, <3>3
    <2>2. CASE served = {}
      <3>1. RunOK(NextCheck(left, run[r].epoch), Registered, epoch)
        BY <1>1, CheckIsOK
      <3>2. QED
        BY <2>2, <3>1 DEF PickCid
    <2>3. QED
      BY <2>1, <2>2
  <1>4. QED
    BY <1>3, TablesStay DEF PickCid, IInv, TablesOK

LEMMA RecordCheckOK ==
  ASSUME IInv, NEW r \in Runner, NEW passed \in BOOLEAN, RecordCheck(r, passed),
         UNCHANGED settled
  PROVE  IInv'
  <1> DEFINE h == run[r].host
             e == run[r].epoch
  <1>1. h \in Host /\ e \in Epoch /\ run[r].left \in SUBSET Registered
    BY RunOf, RunCases DEF RecordCheck, RunOK
  <1>2. UNCHANGED <<epoch, hosts, serves, runs, raced, scoredAt>>
    BY DEF RecordCheck
  <1>3. Registered' = Registered
    BY <1>2 DEF Registered
  <1>4. checks' \in [Host -> [Epoch -> [passed : Nat, failed : Nat]]]
    <2>1. checks \in [Host -> [Epoch -> [passed : Nat, failed : Nat]]]
      BY DEF IInv, TablesOK
    <2>2. checks[h][e] \in [passed : Nat, failed : Nat]
      BY <1>1, <2>1
    <2>3. PICK row \in [passed : Nat, failed : Nat] :
            checks' = [checks EXCEPT ![h] = [@ EXCEPT ![e] = row]]
      <3>1. CASE passed
        <4>1. checks' = [checks EXCEPT ![h][e].passed = @ + 1]
          BY <3>1 DEF RecordCheck
        <4>2. [checks[h][e] EXCEPT !.passed = @ + 1] \in [passed : Nat, failed : Nat]
          BY <2>2
        <4>3. QED
          BY <4>1, <4>2
      <3>2. CASE ~passed
        <4>1. checks' = [checks EXCEPT ![h][e].failed = @ + 1]
          BY <3>2 DEF RecordCheck
        <4>2. [checks[h][e] EXCEPT !.failed = @ + 1] \in [passed : Nat, failed : Nat]
          BY <2>2
        <4>3. QED
          BY <4>1, <4>2
      <3>3. QED
        BY <3>1, <3>2
    <2>4. [checks[h] EXCEPT ![e] = row] \in [Epoch -> [passed : Nat, failed : Nat]]
      BY <1>1, <2>1, <2>3
    <2>5. QED
      BY <1>1, <2>1, <2>3, <2>4
  <1>5. TablesOK'
    BY <1>2, <1>3, <1>4 DEF IInv, TablesOK
  <1>6. StatusFitsScore'
    BY <1>2, <1>3 DEF IInv, StatusFitsScore
  <1>7. Step(r, NextCheck(run[r].left, e)) /\ RunOK(NextCheck(run[r].left, e), Registered, epoch)
    BY <1>1, CheckIsOK DEF RecordCheck
  <1>8. epoch <= epoch' /\ Registered \subseteq Registered'
    BY <1>2, <1>3 DEF IInv, TablesOK, Epoch
  <1>9. RunOK(NextCheck(run[r].left, e), Registered', epoch')
    BY <1>2, <1>3, <1>7
  <1>10. RunnersOK'
    BY <1>5, <1>7, <1>8, <1>9, RunSteps
  <1>11. QED
    BY <1>5, <1>6, <1>10 DEF IInv

LEMMA ListScoredOK ==
  ASSUME IInv, NEW r \in Runner, ListScored(r), UNCHANGED settled
  PROVE  IInv'
  <1> DEFINE e == run[r].epoch
  <1>1. e \in Epoch
    BY RunOf, RunCases DEF ListScored
  <1>2. RunOK(NextScore(Registered, e), Registered, epoch)
    BY <1>1, ScoreIsOK
  <1>3. Step(r, NextScore(Registered, e)) /\ scoredAt' \in Epoch
    BY <1>1 DEF ListScored, Scored, Finished, IInv, TablesOK
  <1>4. QED
    BY <1>2, <1>3, TablesStay DEF ListScored, IInv, TablesOK

LEMMA ScoreType ==
  ASSUME NEW h, NEW first, NEW last
  PROVE  ComputeScore(h, first, last) \in Score
  BY DEF ComputeScore, Score

LEMMA ReadChecksOK ==
  ASSUME IInv, NEW r \in Runner, NEW h \in Host, ReadChecks(r, h), UNCHANGED settled
  PROVE  IInv'
  <1> DEFINE x == [pc |-> "status", host |-> h, left |-> run[r].left \ {h},
                   epoch |-> run[r].epoch,
                   score |-> ComputeScore(h, WindowStart(epoch), run[r].epoch)]
  <1>1. /\ run[r].epoch \in Epoch
        /\ run[r].left \subseteq Registered
        /\ h \in run[r].left
    BY RunOf, RunCases DEF ReadChecks, RunOK
  <1>2. run[r].left \ {h} \in SUBSET Host /\ h \in Registered
    BY <1>1 DEF Registered
  <1>3. x \in RunState
    BY <1>1, <1>2, ScoreType DEF RunState
  <1>4. RunOK(x, Registered, epoch)
    BY <1>1, <1>2, <1>3 DEF RunOK
  <1>5. Step(r, x)
    BY DEF ReadChecks
  <1>6. QED
    BY <1>4, <1>5, TablesStay DEF ReadChecks, IInv, TablesOK

LEMMA ReadStatusOK ==
  ASSUME IInv, NEW r \in Runner, ReadStatus(r), UNCHANGED settled
  PROVE  IInv'
  <1> DEFINE x == [pc |-> "write", host |-> run[r].host, left |-> run[r].left,
                   epoch |-> run[r].epoch, score |-> run[r].score,
                   status |-> hosts[run[r].host].status]
  <1>1. /\ run[r].epoch \in Epoch
        /\ run[r].host \in Host
        /\ run[r].host \in Registered
        /\ run[r].left \subseteq Registered
        /\ run[r].left \in SUBSET Host
        /\ run[r].score \in Score
    BY RunOf, RunCases DEF ReadStatus, RunOK
  <1>2. hosts[run[r].host] \in HostRow
    BY <1>1 DEF IInv, TablesOK, Registered
  <1>3. x \in RunState
    BY <1>1, <1>2 DEF RunState, HostRow
  <1>4. RunOK(x, Registered, epoch)
    BY <1>1, <1>3 DEF RunOK
  <1>5. Step(r, x)
    BY DEF ReadStatus
  <1>6. QED
    BY <1>4, <1>5, TablesStay DEF ReadStatus, IInv, TablesOK

\* Whatever the status was when it was read, the new one fits the score.
LEMMA NewStatusFits ==
  ASSUME NEW score \in Score, NEW status \in Status
  PROVE  /\ NewStatus(score, status) \in Status
         /\ NewStatus(score, status) = "TRUSTED" <=> score = "good"
         /\ score = "zero" => NewStatus(score, status) \in {"PENDING", "INACTIVE"}
  <1>1. CASE score = "good"
    BY <1>1 DEF NewStatus, Status
  <1>2. CASE score = "low"
    BY <1>2 DEF NewStatus, Status
  <1>3. CASE score = "zero"
    BY <1>3 DEF NewStatus, Status
  <1>4. QED
    BY <1>1, <1>2, <1>3 DEF Score

LEMMA WriteScoreOK ==
  ASSUME IInv, NEW r \in Runner, WriteScore(r), UNCHANGED settled
  PROVE  IInv'
  <1> DEFINE h == run[r].host
             s == run[r].score
             st == NewStatus(s, run[r].status)
             row == [hosts[h] EXCEPT !.score = s, !.status = st]
             t == NextScore(run[r].left, run[r].epoch)
  <1>1. /\ run[r].epoch \in Epoch
        /\ h \in Host
        /\ h \in Registered
        /\ run[r].left \in SUBSET Registered
        /\ s \in Score
        /\ run[r].status \in Status
    BY RunOf, RunCases DEF WriteScore, RunOK
  <1>2. hosts[h] \in HostRow
    BY <1>1 DEF IInv, TablesOK, Registered
  <1>3. /\ st \in Status
        /\ st = "TRUSTED" <=> s = "good"
        /\ s = "zero" => st \in {"PENDING", "INACTIVE"}
    BY <1>1, NewStatusFits
  <1>4. hosts' = [hosts EXCEPT ![h] = row]
    BY DEF WriteScore
  <1>5. row \in HostRow /\ row.status = st /\ row.score = s
    <2> HIDE DEF st, s
    <2>1. QED
      BY <1>1, <1>2, <1>3 DEF HostRow
  <1>6. Step(r, t) /\ scoredAt' \in Epoch /\ UNCHANGED <<epoch, serves, checks, runs, raced>>
    BY <1>1 DEF WriteScore, Finished, IInv, TablesOK
  <1> HIDE DEF row, st, s, h, t
  <1>7. /\ hosts' \in [Host -> {NoHost} \cup HostRow]
        /\ Registered' = Registered \cup {h}
        /\ StatusFitsScore'
    BY <1>1, <1>3, <1>4, <1>5, RowWritten
  <1>8. Registered' = Registered
    BY <1>1, <1>7
  <1>9. TablesOK'
    BY <1>6, <1>7, <1>8 DEF IInv, TablesOK
  <1>10. RunOK(t, Registered', epoch')
    BY <1>1, <1>8, ScoreIsOK DEF t
  <1>11. epoch <= epoch' /\ Registered \subseteq Registered'
    BY <1>6, <1>8 DEF IInv, TablesOK, Epoch
  <1>12. RunnersOK'
    BY <1>6, <1>9, <1>10, <1>11, RunSteps
  <1>13. QED
    BY <1>7, <1>9, <1>12 DEF IInv

LEMMA IdleIsOK == RunOK(Idle, Registered, epoch)
  BY DEF RunOK, RunState, Idle

LEMMA RunFailsOK ==
  ASSUME IInv, NEW r \in Runner, RunFails(r), UNCHANGED settled
  PROVE  IInv'
  BY IdleIsOK, TablesStay DEF RunFails, IInv, TablesOK
-------------------------------------------------------------------------------
(* The scheduler.                                                          *)

LEMMA TickOK ==
  ASSUME IInv, NEW r \in Runner, Tick(r)
  PROVE  IInv'
  <1> DEFINE x == [pc |-> "settle", epoch |-> EpochToSettle]
  <1>1. EpochToSettle \in Epoch /\ EpochToSettle < epoch
    BY HostsAssumption DEF Tick, EpochToSettle, IInv, TablesOK, Epoch
  <1>2. RunOK(x, Registered, epoch)
    BY <1>1 DEF RunOK, RunState
  <1>3. Step(r, x)
    BY DEF Tick
  <1>4. QED
    BY <1>2, <1>3, TablesStay DEF Tick, schedVars, IInv, TablesOK

LEMMA CheckingIsOK ==
  ASSUME IInv
  PROVE  RunOK(Checking, Registered, epoch)
  BY DEF Checking, RunOK, RunState, IInv, TablesOK

LEMMA CountRunOK ==
  ASSUME IInv, NEW r \in Runner, CountRun(r)
  PROVE  runs' \in 0..MaxRuns /\ raced' \in BOOLEAN
  <1>1. runs' \in 0..MaxRuns
    BY HostsAssumption DEF CountRun, IInv, TablesOK
  <1>2. raced' \in BOOLEAN
    BY DEF CountRun, IInv, TablesOK
  <1>3. QED
    BY <1>1, <1>2

LEMMA SettleOK ==
  ASSUME IInv, NEW r \in Runner, Settle(r)
  PROVE  IInv'
  <1>1. run[r].epoch \in Epoch /\ run[r].epoch < epoch
    BY RunOf, RunCases DEF Settle, RunOK
  <1>2. UNCHANGED <<epoch, hosts, serves, checks, scoredAt>>
    BY DEF Settle
  <1>3. runs' \in 0..MaxRuns /\ raced' \in BOOLEAN
    BY CountRunOK DEF Settle, IInv, TablesOK
  <1>4. PICK x : Step(r, x) /\ RunOK(x, Registered, epoch)
    BY CheckingIsOK, IdleIsOK DEF Settle
  <1>5. Registered' = Registered
    BY <1>2 DEF Registered
  <1>6. \A e \in settled' : e \in Epoch' /\ e < epoch'
    BY <1>1, <1>2 DEF Settle, IInv, TablesOK, Epoch
  <1>7. TablesOK'
    BY <1>2, <1>3, <1>5, <1>6 DEF IInv, TablesOK
  <1>8. StatusFitsScore'
    BY <1>2, <1>5 DEF IInv, StatusFitsScore
  <1>9. epoch <= epoch' /\ RunOK(x, Registered', epoch') /\ Registered \subseteq Registered'
    BY <1>2, <1>4, <1>5 DEF IInv, TablesOK, Epoch
  <1>10. RunnersOK'
    BY <1>4, <1>7, <1>9, RunSteps
  <1>11. QED
    BY <1>7, <1>8, <1>10 DEF IInv

LEMMA SettleFailsOK ==
  ASSUME IInv, NEW r \in Runner, SettleFails(r)
  PROVE  IInv'
  BY IdleIsOK, TablesStay DEF SettleFails, schedVars, IInv, TablesOK

LEMMA CheckHostsOK ==
  ASSUME IInv, NEW r \in Runner, CheckHosts(r)
  PROVE  IInv'
  <1>1. runs' \in 0..MaxRuns /\ raced' \in BOOLEAN
    BY CountRunOK DEF CheckHosts
  <1>2. QED
    BY <1>1, CheckingIsOK, TablesStay DEF CheckHosts, schedVars, IInv, TablesOK

\* The tables of the registry stay, and every runner that goes on becomes idle.
LEMMA RegistryStays ==
  ASSUME IInv, UNCHANGED <<hosts, serves, checks, runs, scoredAt, settled>>,
         epoch' \in Epoch, epoch <= epoch', raced' \in BOOLEAN,
         UNCHANGED run \/ run' = [r \in Runner |-> Idle]
  PROVE  IInv'
  <1>1. Registered' = Registered
    BY DEF Registered
  <1>2. \A e \in settled : e \in Epoch /\ e < epoch'
    BY DEF IInv, TablesOK, Epoch
  <1>3. TablesOK'
    BY <1>1, <1>2 DEF IInv, TablesOK
  <1>4. StatusFitsScore'
    BY <1>1 DEF IInv, StatusFitsScore
  <1>5. RunnersOK'
    <2>1. CASE UNCHANGED run
      BY <1>1, <1>3, <2>1, RunnersStay
    <2>2. CASE run' = [r \in Runner |-> Idle]
      BY <2>2 DEF RunnersOK, RunOK, RunState, Idle
    <2>3. QED
      BY <2>1, <2>2
  <1>6. QED
    BY <1>3, <1>4, <1>5 DEF IInv

LEMMA StartOK == ASSUME IInv, Start PROVE IInv'
  <1>1. epoch' \in Epoch /\ epoch <= epoch' /\ raced' \in BOOLEAN
    BY DEF Start, hostVars, IInv, TablesOK, Epoch
  <1>2. QED
    BY <1>1, RegistryStays DEF Start, hostVars

LEMMA NextEpochOK == ASSUME IInv, NextEpoch PROVE IInv'
  <1>1. epoch' \in Epoch /\ epoch <= epoch'
    BY HostsAssumption DEF NextEpoch, IInv, TablesOK, Epoch
  <1>2. raced' \in BOOLEAN
    BY DEF NextEpoch, IInv, TablesOK
  <1>3. QED
    BY <1>1, <1>2, RegistryStays DEF NextEpoch, schedVars

LEMMA RestartOK == ASSUME IInv, Restart PROVE IInv'
  <1>1. epoch' \in Epoch /\ epoch <= epoch'
    BY DEF Restart, IInv, TablesOK, Epoch
  <1>2. raced' \in BOOLEAN
    BY DEF Restart, IInv, TablesOK
  <1>3. QED
    BY <1>1, <1>2, RegistryStays DEF Restart

LEMMA StutterOK == ASSUME IInv, UNCHANGED vars PROVE IInv'
  <1>1. epoch' \in Epoch /\ epoch <= epoch' /\ raced' \in BOOLEAN
    BY DEF vars, hostVars, IInv, TablesOK, Epoch
  <1>2. QED
    BY <1>1, RegistryStays DEF vars, hostVars, schedVars
-------------------------------------------------------------------------------

LEMMA HostsStep ==
  ASSUME IInv, HostsNext, UNCHANGED schedVars
  PROVE  IInv'
  <1>1. UNCHANGED settled
    BY DEF schedVars
  <1>2. ASSUME NEW h \in Host, NEW endpoint \in BOOLEAN, RegisterHost(h, endpoint)
        PROVE  IInv'
    BY <1>1, <1>2, RegisterHostOK
  <1>3. ASSUME NEW h \in Host, NEW c \in Cid, AddServedCid(h, c)
        PROVE  IInv'
    BY <1>1, <1>3, AddServedCidOK
  <1>4. ASSUME NEW r \in Runner, NEW h \in Host, ReadEndpoint(r, h) \/ ReadChecks(r, h)
        PROVE  IInv'
    BY <1>1, <1>4, ReadEndpointOK, ReadChecksOK
  <1>5. ASSUME NEW r \in Runner, NEW passed \in BOOLEAN, RecordCheck(r, passed)
        PROVE  IInv'
    BY <1>1, <1>5, RecordCheckOK
  <1>6. ASSUME NEW r \in Runner,
               ListHosts(r) \/ PickCid(r) \/ ListScored(r) \/ ReadStatus(r)
               \/ WriteScore(r) \/ RunFails(r)
        PROVE  IInv'
    BY <1>1, <1>6, ListHostsOK, PickCidOK, ListScoredOK, ReadStatusOK, WriteScoreOK,
       RunFailsOK
  <1>7. QED
    BY <1>2, <1>3, <1>4, <1>5, <1>6 DEF HostsNext

LEMMA NextOK ==
  ASSUME IInv, [SchedulerNext]_vars
  PROVE  IInv'
  <1>1. ASSUME NEW r \in Runner, Tick(r) \/ Settle(r) \/ SettleFails(r) \/ CheckHosts(r)
        PROVE  IInv'
    BY <1>1, TickOK, SettleOK, SettleFailsOK, CheckHostsOK
  <1>2. QED
    BY <1>1, HostsStep, StartOK, NextEpochOK, RestartOK, StutterOK DEF SchedulerNext

(***************************************************************************)
(* The inductive invariant: beside the properties below it says that what  *)
(* a runner holds of a host is of a host that registered, so that writing  *)
(* the score adds no row.                                                  *)
(***************************************************************************)
THEOREM SchedulerInvariant == Spec => []IInv
  BY InitOK, NextOK, PTL DEF Spec

(***************************************************************************)
(* Type correctness of the host registry, and: what a runner holds of a    *)
(* host, and every announcement, is of a host that registered              *)
(* (views/host-registry.ts, views/availability.ts).                        *)
(***************************************************************************)
THEOREM HostsTypes == Spec => []HostsTypeOK
  <1>1. ASSUME IInv PROVE HostsTypeOK
    BY <1>1 DEF IInv, TablesOK, RunnersOK, RunOK, HostsTypeOK
  <1>2. QED
    BY <1>1, SchedulerInvariant, PTL

(***************************************************************************)
(* updateAvailability: a host is listed as its score deserves, for any     *)
(* number of runs that overlap, and whatever they read in between.         *)
(***************************************************************************)
THEOREM StatusAlwaysFits == Spec => []StatusFitsScore
  <1>1. ASSUME IInv PROVE StatusFitsScore
    BY <1>1 DEF IInv
  <1>2. QED
    BY <1>1, SchedulerInvariant, PTL

(***************************************************************************)
(* tick: no epoch that is still open is settled, for any number of ticks   *)
(* that overlap, with failures, restarts and a clock that goes on.         *)
(***************************************************************************)
THEOREM OpenNeverSettled == Spec => []OnlyClosedSettled
  <1>1. ASSUME IInv PROVE OnlyClosedSettled
    BY <1>1 DEF IInv, TablesOK, RunnersOK, RunOK, OnlyClosedSettled
  <1>2. QED
    BY <1>1, SchedulerInvariant, PTL

-------------------------------------------------------------------------------
(* The score of the checks of a host.                                      *)

LEMMA CountToIs ==
  ASSUME NEW outcome
  PROVE  \A e \in -1..LastEpoch :
           CountTo(outcome)[e] = IF e < 0 THEN 0 ELSE outcome[e] + CountTo(outcome)[e - 1]
  <1> DEFINE next(g, e) == IF e < 0 THEN 0 ELSE outcome[e] + g[e - 1]
             upto(g, m) == g = [e \in -1..m |-> next(g, e)]
             N == {m \in Nat : \E g : upto(g, m - 1)}
  <1>1. 0 \in N
    <2> DEFINE g == [e \in -1..-1 |-> 0]
    <2>1. \A e \in -1..-1 : next(g, e) = 0
      OBVIOUS
    <2>2. upto(g, -1)
      BY <2>1
    <2>3. 0 - 1 = -1
      OBVIOUS
    <2> HIDE DEF upto, g
    <2>4. QED
      BY <2>2, <2>3
  <1>2. ASSUME NEW m \in Nat, m \in N
        PROVE  m + 1 \in N
    <2>1. PICK g : upto(g, m - 1)
      BY <1>2
    <2> DEFINE h == [e \in -1..m |-> next(g, e)]
    <2>2. ASSUME NEW e \in -1..m
          PROVE  next(h, e) = next(g, e)
      <3>1. CASE e < 0
        BY <3>1
      <3>2. CASE ~(e < 0)
        <4>1. e - 1 \in -1..(m - 1) /\ e - 1 \in -1..m
          BY <3>2
        <4>2. g[e - 1] = next(g, e - 1)
          <5> HIDE DEF next
          <5>1. QED
            BY <2>1, <4>1
        <4>3. h[e - 1] = next(g, e - 1)
          <5> HIDE DEF next
          <5>1. QED
            BY <4>1
        <4>4. h[e - 1] = g[e - 1]
          BY <4>2, <4>3
        <4> HIDE DEF h
        <4>5. QED
          BY <3>2, <4>4
      <3>3. QED
        BY <3>1, <3>2
    <2>3. h = [e \in -1..m |-> next(h, e)]
      <3> HIDE DEF next
      <3>1. QED
        BY <2>2
    <2>4. (m + 1) - 1 = m
      OBVIOUS
    <2> HIDE DEF h
    <2>5. upto(h, (m + 1) - 1)
      BY <2>3, <2>4
    <2> HIDE DEF upto
    <2>6. QED
      BY <2>5
  <1>3. LastEpoch + 1 \in N
    <2> HIDE DEF N
    <2>1. Nat \subseteq N
      BY <1>1, <1>2, NatInduct
    <2>2. QED
      BY <2>1, HostsAssumption
  <1>4. PICK g : upto(g, LastEpoch)
    <2>1. (LastEpoch + 1) - 1 = LastEpoch
      BY HostsAssumption
    <2> HIDE DEF upto
    <2>2. QED
      BY <1>3, <2>1
  <1>5. CountTo(outcome) = CHOOSE n : upto(n, LastEpoch)
    BY Zenon DEF CountTo
  <1>6. upto(CountTo(outcome), LastEpoch)
    <2> HIDE DEF upto
    <2>1. QED
      BY <1>4, <1>5
  <1>7. ASSUME NEW e \in -1..LastEpoch
        PROVE  CountTo(outcome)[e] = next(CountTo(outcome), e)
    <2> HIDE DEF next
    <2>1. QED
      BY <1>6
  <1>8. QED
    BY <1>7

LEMMA NothingCounted ==
  ASSUME NEW outcome, \A e \in Epoch : outcome[e] = 0, NEW first \in Epoch, NEW last \in Epoch
  PROVE  Count(outcome, first, last) = 0
  <1> DEFINE n == CountTo(outcome)
             N == {m \in Nat : m - 1 <= LastEpoch => n[m - 1] = 0}
  <1>1. \A e \in -1..LastEpoch : n[e] = IF e < 0 THEN 0 ELSE outcome[e] + n[e - 1]
    BY CountToIs
  <1> HIDE DEF n
  <1>2. 0 \in N
    <2>1. n[-1] = 0
      BY <1>1, HostsAssumption
    <2>2. 0 - 1 = -1
      OBVIOUS
    <2>3. QED
      BY <2>1, <2>2
  <1>3. ASSUME NEW m \in Nat, m \in N
        PROVE  m + 1 \in N
    <2>1. SUFFICES ASSUME m <= LastEpoch
                   PROVE  n[m] = 0
      OBVIOUS
    <2>2. n[m - 1] = 0
      BY <1>3, <2>1, HostsAssumption
    <2>3. m \in Epoch /\ m \in -1..LastEpoch /\ ~(m < 0)
      BY <2>1, HostsAssumption DEF Epoch
    <2>4. n[m] = outcome[m] + n[m - 1]
      BY <1>1, <2>3
    <2>5. QED
      BY <2>2, <2>3, <2>4
  <1>4. Nat \subseteq N
    <2> HIDE DEF N
    <2>1. QED
      BY <1>2, <1>3, NatInduct
  <1>5. first \in Nat /\ last + 1 \in Nat /\ (last + 1) - 1 = last
        /\ first - 1 <= LastEpoch /\ last <= LastEpoch
    BY HostsAssumption DEF Epoch
  <1>6. n[first - 1] = 0 /\ n[last] = 0
    BY <1>4, <1>5
  <1>7. Count(outcome, first, last) = IF first > last THEN 0 ELSE n[last] - n[first - 1]
    BY DEF Count, n
  <1>8. QED
    BY <1>6, <1>7

\* ComputeScore(h, first, last) for the checks c of h.
ScoreOf(c, first, last) ==
  LET passed == Count([e \in Epoch |-> c[e].passed], first, last)
      total == passed + Count([e \in Epoch |-> c[e].failed], first, last)
  IN  CASE passed = 0 -> "zero"
        [] passed # 0 /\ 10 * passed < 6 * total -> "low"
        [] OTHER -> "good"

LEMMA ScoreIs ==
  ASSUME NEW h, NEW first, NEW last
  PROVE  ComputeScore(h, first, last) = ScoreOf(checks[h], first, last)
  BY DEF ComputeScore, ScoreOf

LEMMA WindowIsEpoch ==
  ASSUME NEW e \in Epoch
  PROVE  WindowStart(e) \in Epoch
  BY HostsAssumption DEF WindowStart, Epoch

NeverPassed(c) == \A e \in Epoch : c[e].passed = 0

\* A score takes a check that passed.
LEMMA ScoreTakesPass ==
  ASSUME NEW c, NeverPassed(c), NEW first \in Epoch, NEW last \in Epoch
  PROVE  ScoreOf(c, first, last) = "zero"
  <1> DEFINE outcome == [e \in Epoch |-> c[e].passed]
  <1>1. \A e \in Epoch : outcome[e] = 0
    BY DEF NeverPassed
  <1> HIDE DEF outcome
  <1>2. Count(outcome, first, last) = 0
    BY <1>1, NothingCounted
  <1>3. QED
    BY <1>2 DEF ScoreOf, outcome

-------------------------------------------------------------------------------
(* Trust takes a probe: a check passes only of a CID that the host has     *)
(* announced and its endpoint answers for, checks and announcements are    *)
(* never taken back, and a score other than zero takes a passed check.     *)

Backed(h, S) == \E c \in Vouched[h] : <<h, c>> \in S

BackedRun(x, S, C) ==
  /\ x.pc = "probe" => <<x.host, x.cid>> \in S
  /\ x.pc \in {"status", "write"} => x.score = "zero" \/ ~NeverPassed(C[x.host])

TrustInv ==
  /\ \A h \in Host : NeverPassed(checks[h]) \/ Backed(h, serves)
  /\ \A h \in Registered : hosts[h].score = "zero" \/ ~NeverPassed(checks[h])
  /\ \A r \in Runner : BackedRun(run[r], serves, checks)

LEMMA ServesGrow ==
  ASSUME TrustInv, UNCHANGED <<hosts, checks, run>>, serves \subseteq serves'
  PROVE  TrustInv'
  BY DEF TrustInv, Backed, BackedRun, Registered

LEMMA TrustSteps ==
  ASSUME IInv, TrustInv, UNCHANGED <<hosts, serves, checks>>, NEW r \in Runner, NEW x,
         Step(r, x), BackedRun(x, serves, checks)
  PROVE  TrustInv'
  <1>1. \A q \in Runner : run'[q] = IF q = r THEN x ELSE run[q]
    BY DEF Step, IInv, RunnersOK
  <1>2. \A q \in Runner : BackedRun(run'[q], serves', checks')
    BY <1>1 DEF TrustInv
  <1>3. QED
    BY <1>2 DEF TrustInv, Registered

\* A state of a runner that holds neither a CID to probe nor a score.
LEMMA EmptyHanded ==
  ASSUME NEW h, NEW left, NEW e, NEW S, NEW C
  PROVE  /\ BackedRun(NextCheck(left, e), S, C)
         /\ BackedRun(NextScore(left, e), S, C)
         /\ BackedRun(Checking, S, C)
         /\ BackedRun(Idle, S, C)
         /\ BackedRun([pc |-> "pick", host |-> h, left |-> left, epoch |-> e], S, C)
         /\ BackedRun([pc |-> "settle", epoch |-> e], S, C)
  BY DEF BackedRun, NextCheck, NextScore, Checking, Idle

LEMMA TrustRegister ==
  ASSUME IInv, TrustInv, NEW h \in Host, NEW endpoint \in BOOLEAN, RegisterHost(h, endpoint)
  PROVE  TrustInv'
  <1> DEFINE row == IF hosts[h] = NoHost THEN NewHost(endpoint) ELSE Updated(h, endpoint)
  <1>1. /\ hosts' = [hosts EXCEPT ![h] = row] /\ UNCHANGED <<serves, checks, run>>
        /\ hosts \in [Host -> {NoHost} \cup HostRow]
    BY DEF RegisterHost, IInv, TablesOK
  <1>2. row.score = "zero" \/ (hosts[h] # NoHost /\ row.score = hosts[h].score)
    <2>1. CASE hosts[h] = NoHost
      BY <2>1 DEF NewHost
    <2>2. CASE hosts[h] # NoHost
      <3>1. hosts[h] \in HostRow
        BY <1>1, <2>2
      <3>2. QED
        BY <2>2, <3>1 DEF Updated, HostRow
    <2>3. QED
      BY <2>1, <2>2
  <1> HIDE DEF row
  <1>3. \A g \in Host : hosts'[g] = IF g = h THEN row ELSE hosts[g]
    BY <1>1
  <1>4. ASSUME NEW g \in Registered'
        PROVE  hosts'[g].score = "zero" \/ ~NeverPassed(checks'[g])
    <2>1. g \in Host /\ hosts'[g] # NoHost
      BY DEF Registered
    <2>2. CASE g = h
      BY <1>1, <1>2, <1>3, <2>1, <2>2 DEF TrustInv, Registered
    <2>3. CASE g # h
      BY <1>1, <1>3, <2>1, <2>3 DEF TrustInv, Registered
    <2>4. QED
      BY <2>2, <2>3
  <1>5. QED
    BY <1>1, <1>4 DEF TrustInv

LEMMA TrustReadEndpoint ==
  ASSUME IInv, TrustInv, NEW r \in Runner, NEW h \in Host, ReadEndpoint(r, h)
  PROVE  TrustInv'
  <1>1. PICK x : Step(r, x) /\ BackedRun(x, serves, checks)
    BY EmptyHanded DEF ReadEndpoint
  <1>2. QED
    BY <1>1, TrustSteps DEF ReadEndpoint

LEMMA TrustPickCid ==
  ASSUME IInv, TrustInv, NEW r \in Runner, PickCid(r)
  PROVE  TrustInv'
  <1> DEFINE h == run[r].host
             left == run[r].left
             served == {c \in Cid : <<h, c>> \in serves}
             Probe(c) == [pc |-> "probe", host |-> h, cid |-> c, left |-> left,
                          epoch |-> run[r].epoch]
  <1>1. PICK x : Step(r, x) /\ BackedRun(x, serves, checks)
    <2>1. CASE served # {}
      <3>1. PICK c \in served : Step(r, Probe(c))
        BY <2>1 DEF PickCid
      <3>2. BackedRun(Probe(c), serves, checks)
        BY DEF BackedRun
      <3>3. QED
        BY <3>1, <3>2
    <2>2. CASE served = {}
      BY <2>2, EmptyHanded DEF PickCid
    <2>3. QED
      BY <2>1, <2>2
  <1>2. QED
    BY <1>1, TrustSteps DEF PickCid

\* What a check changes: the counts of one host and epoch, which grow.
LEMMA ChecksOf ==
  ASSUME IInv, NEW r \in Runner, NEW passed \in BOOLEAN, RecordCheck(r, passed)
  PROVE  /\ run[r].host \in Registered /\ run[r].host \in Host
         /\ \A g \in Host \ {run[r].host} : checks'[g] = checks[g]
         /\ ~passed /\ NeverPassed(checks[run[r].host]) => NeverPassed(checks'[run[r].host])
         /\ ~NeverPassed(checks[run[r].host]) => ~NeverPassed(checks'[run[r].host])
  <1> DEFINE h == run[r].host
             e == run[r].epoch
  <1>1. h \in Host /\ h \in Registered /\ e \in Epoch
    BY RunOf, RunCases DEF RecordCheck, RunOK
  <1>2. checks \in [Host -> [Epoch -> [passed : Nat, failed : Nat]]]
    BY DEF IInv, TablesOK
  <1>3. checks[h][e] \in [passed : Nat, failed : Nat] /\ checks[h] \in [Epoch -> [passed : Nat, failed : Nat]]
    BY <1>1, <1>2
  <1>4. PICK row : /\ checks' = [checks EXCEPT ![h] = [@ EXCEPT ![e] = row]]
                   /\ ~passed => row.passed = checks[h][e].passed
                   /\ checks[h][e].passed # 0 => row.passed # 0
    <2>1. CASE passed
      <3>1. checks' = [checks EXCEPT ![h][e].passed = @ + 1]
        BY <2>1 DEF RecordCheck
      <3>2. [checks[h][e] EXCEPT !.passed = @ + 1].passed # 0
        BY <1>3
      <3>3. QED
        BY <2>1, <3>1, <3>2
    <2>2. CASE ~passed
      <3>1. checks' = [checks EXCEPT ![h][e].failed = @ + 1]
        BY <2>2 DEF RecordCheck
      <3>2. [checks[h][e] EXCEPT !.failed = @ + 1].passed = checks[h][e].passed
        BY <1>3
      <3>3. QED
        BY <3>1, <3>2
    <2>3. QED
      BY <2>1, <2>2
  <1>5. \A g \in Host \ {h} : checks'[g] = checks[g]
    BY <1>2, <1>4
  <1>6. ASSUME ~passed, NeverPassed(checks[h])
        PROVE  NeverPassed(checks'[h])
    <2>1. checks'[h] = [checks[h] EXCEPT ![e] = row]
      BY <1>1, <1>2, <1>4
    <2>2. row.passed = 0
      BY <1>1, <1>4, <1>6 DEF NeverPassed
    <2>3. \A k \in Epoch : checks'[h][k] = IF k = e THEN row ELSE checks[h][k]
      BY <1>3, <2>1
    <2>4. QED
      BY <1>6, <2>2, <2>3 DEF NeverPassed
  <1>7. ASSUME ~NeverPassed(checks[h])
        PROVE  ~NeverPassed(checks'[h])
    <2>1. PICK k \in Epoch : checks[h][k].passed # 0
      BY <1>7 DEF NeverPassed
    <2>2. checks'[h] = [checks[h] EXCEPT ![e] = row]
      BY <1>1, <1>2, <1>4
    <2>3. checks'[h][k] = IF k = e THEN row ELSE checks[h][k]
      BY <1>3, <2>2
    <2>4. checks'[h][k].passed # 0
      BY <1>4, <2>1, <2>3
    <2>5. QED
      BY <2>4 DEF NeverPassed
  <1>8. QED
    BY <1>1, <1>5, <1>6, <1>7

LEMMA TrustRecord ==
  ASSUME IInv, TrustInv, NEW r \in Runner, NEW passed \in BOOLEAN, RecordCheck(r, passed)
  PROVE  TrustInv'
  <1> DEFINE h == run[r].host
             c == run[r].cid
             x == NextCheck(run[r].left, run[r].epoch)
  <1>1. /\ run[r].pc = "probe" /\ (passed => c \in Vouched[h]) /\ Step(r, x)
        /\ UNCHANGED <<hosts, serves>>
    BY DEF RecordCheck, Verified
  <1>2. <<h, c>> \in serves
    BY <1>1 DEF TrustInv, BackedRun
  <1>3. passed => Backed(h, serves)
    BY <1>1, <1>2 DEF Backed
  <1>4. ASSUME NEW g \in Host
        PROVE  /\ NeverPassed(checks'[g]) \/ Backed(g, serves')
               /\ ~NeverPassed(checks[g]) => ~NeverPassed(checks'[g])
    <2>1. NeverPassed(checks[g]) \/ Backed(g, serves)
      BY DEF TrustInv
    <2>2. CASE g = h
      BY <1>1, <1>3, <2>1, <2>2, ChecksOf
    <2>3. CASE g # h
      <3>1. checks'[g] = checks[g]
        BY <2>3, ChecksOf
      <3>2. QED
        BY <1>1, <2>1, <3>1
    <2>4. QED
      BY <2>2, <2>3
  <1>5. \A q \in Runner : run'[q] = IF q = r THEN x ELSE run[q]
    BY <1>1 DEF Step, IInv, RunnersOK
  <1>6. BackedRun(x, serves', checks')
    BY EmptyHanded
  <1> HIDE DEF x
  <1>7. ASSUME NEW q \in Runner
        PROVE  BackedRun(run'[q], serves', checks')
    <2>1. CASE q = r
      BY <1>5, <1>6, <2>1
    <2>2. CASE q # r
      <3>1. run'[q] = run[q] /\ BackedRun(run[q], serves, checks)
        BY <1>5, <2>2 DEF TrustInv
      <3>2. run[q].pc \in {"status", "write"} => run[q].host \in Host
        BY RunOf, RunCases
      <3>3. QED
        BY <1>1, <1>4, <3>1, <3>2 DEF BackedRun
    <2>3. QED
      BY <2>1, <2>2
  <1>8. ASSUME NEW g \in Registered'
        PROVE  hosts'[g].score = "zero" \/ ~NeverPassed(checks'[g])
    <2>1. g \in Host /\ g \in Registered /\ hosts'[g] = hosts[g]
      BY <1>1 DEF Registered
    <2>2. QED
      BY <1>4, <2>1 DEF TrustInv
  <1>9. QED
    BY <1>4, <1>7, <1>8 DEF TrustInv

LEMMA TrustReadChecks ==
  ASSUME IInv, TrustInv, NEW r \in Runner, NEW h \in Host, ReadChecks(r, h)
  PROVE  TrustInv'
  <1> DEFINE s == ComputeScore(h, WindowStart(epoch), run[r].epoch)
             x == [pc |-> "status", host |-> h, left |-> run[r].left \ {h},
                   epoch |-> run[r].epoch, score |-> s]
  <1>1. run[r].epoch \in Epoch /\ epoch \in Epoch
    BY RunOf, RunCases DEF ReadChecks, IInv, TablesOK
  <1>2. s = "zero" \/ ~NeverPassed(checks[h])
    BY <1>1, ScoreIs, WindowIsEpoch, ScoreTakesPass
  <1> HIDE DEF s
  <1>3. BackedRun(x, serves, checks)
    BY <1>2 DEF BackedRun
  <1>4. Step(r, x) /\ UNCHANGED <<hosts, serves, checks>>
    BY DEF ReadChecks, s
  <1>5. QED
    BY <1>3, <1>4, TrustSteps

LEMMA TrustReadStatus ==
  ASSUME IInv, TrustInv, NEW r \in Runner, ReadStatus(r)
  PROVE  TrustInv'
  <1> DEFINE x == [pc |-> "write", host |-> run[r].host, left |-> run[r].left,
                   epoch |-> run[r].epoch, score |-> run[r].score,
                   status |-> hosts[run[r].host].status]
  <1>1. run[r].score = "zero" \/ ~NeverPassed(checks[run[r].host])
    BY DEF ReadStatus, TrustInv, BackedRun
  <1>2. BackedRun(x, serves, checks)
    BY <1>1 DEF BackedRun
  <1>3. Step(r, x) /\ UNCHANGED <<hosts, serves, checks>>
    BY DEF ReadStatus
  <1>4. QED
    BY <1>2, <1>3, TrustSteps

\* What WriteScore makes of the table Host and of the run.
LEMMA ScoreWritten ==
  ASSUME IInv, NEW r \in Runner, WriteScore(r)
  PROVE  /\ run[r].host \in Registered
         /\ Registered' = Registered
         /\ hosts'[run[r].host].score = run[r].score
         /\ \A g \in Host \ {run[r].host} : hosts'[g] = hosts[g]
         /\ Step(r, NextScore(run[r].left, run[r].epoch))
         /\ UNCHANGED <<epoch, serves, checks, runs, raced>>
  <1> DEFINE h == run[r].host
             row == [hosts[h] EXCEPT !.score = run[r].score,
                                     !.status = NewStatus(run[r].score, run[r].status)]
  <1>1. h \in Host /\ h \in Registered
    BY RunOf, RunCases DEF WriteScore, RunOK
  <1>2. hosts \in [Host -> {NoHost} \cup HostRow] /\ hosts[h] \in HostRow
    BY <1>1 DEF IInv, TablesOK, Registered
  <1>3. hosts' = [hosts EXCEPT ![h] = row]
    BY DEF WriteScore
  <1>4. row.score = run[r].score
    BY <1>2 DEF HostRow
  <1>5. row # NoHost
    <2>1. /\ run[r].score \in Score /\ run[r].status \in Status
      BY RunOf, RunCases DEF WriteScore
    <2>2. row \in HostRow
      <3>1. NewStatus(run[r].score, run[r].status) \in Status
        BY <2>1, NewStatusFits
      <3>2. QED
        BY <1>2, <2>1, <3>1 DEF HostRow
    <2>3. QED
      BY <2>2, NoHostAssumption
  <1> HIDE DEF row
  <1>6. \A g \in Host : hosts'[g] = IF g = h THEN row ELSE hosts[g]
    BY <1>2, <1>3
  <1>7. Registered' = Registered
    BY <1>1, <1>5, <1>6 DEF Registered
  <1>8. QED
    BY <1>1, <1>4, <1>6, <1>7 DEF WriteScore

LEMMA TrustWrite ==
  ASSUME IInv, TrustInv, NEW r \in Runner, WriteScore(r)
  PROVE  TrustInv'
  <1> DEFINE h == run[r].host
             x == NextScore(run[r].left, run[r].epoch)
  <1>1. /\ h \in Registered /\ Registered' = Registered
        /\ hosts'[h].score = run[r].score
        /\ \A g \in Host \ {h} : hosts'[g] = hosts[g]
        /\ Step(r, x) /\ UNCHANGED <<serves, checks>>
    BY ScoreWritten
  <1>2. run[r].score = "zero" \/ ~NeverPassed(checks[h])
    BY DEF WriteScore, TrustInv, BackedRun
  <1>3. ASSUME NEW g \in Registered'
        PROVE  hosts'[g].score = "zero" \/ ~NeverPassed(checks'[g])
    <2>1. g \in Host /\ g \in Registered
      BY <1>1 DEF Registered
    <2>2. QED
      BY <1>1, <1>2, <2>1 DEF TrustInv
  <1>4. \A q \in Runner : run'[q] = IF q = r THEN x ELSE run[q]
    BY <1>1 DEF Step, IInv, RunnersOK
  <1>5. BackedRun(x, serves, checks)
    BY EmptyHanded
  <1> HIDE DEF x
  <1>6. \A q \in Runner : BackedRun(run'[q], serves', checks')
    BY <1>1, <1>4, <1>5 DEF TrustInv
  <1>7. QED
    BY <1>1, <1>3, <1>6 DEF TrustInv

LEMMA StepsKeepTrust ==
  ASSUME IInv, TrustInv, [SchedulerNext]_vars
  PROVE  TrustInv'
  <1>1. ASSUME NEW h \in Host, NEW endpoint \in BOOLEAN, RegisterHost(h, endpoint)
        PROVE  TrustInv'
    BY <1>1, TrustRegister
  <1>2. ASSUME NEW h \in Host, NEW c \in Cid, AddServedCid(h, c)
        PROVE  TrustInv'
    BY <1>2, ServesGrow DEF AddServedCid
  <1>3. ASSUME NEW r \in Runner, NEW h \in Host, ReadEndpoint(r, h) \/ ReadChecks(r, h)
        PROVE  TrustInv'
    BY <1>3, TrustReadEndpoint, TrustReadChecks
  <1>4. ASSUME NEW r \in Runner, NEW passed \in BOOLEAN, RecordCheck(r, passed)
        PROVE  TrustInv'
    BY <1>4, TrustRecord
  <1>5. ASSUME NEW r \in Runner, PickCid(r) \/ ReadStatus(r) \/ WriteScore(r)
        PROVE  TrustInv'
    BY <1>5, TrustPickCid, TrustReadStatus, TrustWrite
  <1>6. ASSUME NEW r \in Runner,
               ListHosts(r) \/ ListScored(r) \/ RunFails(r) \/ Tick(r) \/ Settle(r)
               \/ SettleFails(r) \/ CheckHosts(r)
        PROVE  TrustInv'
    BY <1>6, EmptyHanded, TrustSteps DEF ListHosts, ListScored, RunFails, Tick, Settle,
       SettleFails, CheckHosts
  <1>7. CASE HostsNext
    BY <1>1, <1>2, <1>3, <1>4, <1>5, <1>6, <1>7 DEF HostsNext
  <1>8. CASE Restart
    <2>1. UNCHANGED <<hosts, serves, checks>> /\ \A r \in Runner : run'[r] = Idle
      BY <1>8 DEF Restart
    <2>2. \A r \in Runner : BackedRun(run'[r], serves', checks')
      BY <2>1, EmptyHanded
    <2>3. QED
      BY <2>1, <2>2 DEF TrustInv, Registered
  <1>9. CASE Start \/ NextEpoch \/ UNCHANGED vars
    <2>1. UNCHANGED <<hosts, serves, checks, run>>
      BY <1>9 DEF Start, NextEpoch, vars, hostVars
    <2>2. QED
      BY <2>1, ServesGrow
  <1>10. QED
    BY <1>6, <1>7, <1>8, <1>9 DEF SchedulerNext

(***************************************************************************)
(* spotCheckHost and updateAvailability: a host is TRUSTED only with a     *)
(* passed check on record, and if its endpoint answers for a CID it has    *)
(* announced, for every choice of what the endpoints answer for, honest or *)
(* not.  It is the owner's word: only if the endpoint is a gateway of this *)
(* repository, which answers for the blocks it holds, does it follow that  *)
(* the host holds a block and serves it.                                   *)
(***************************************************************************)
THEOREM TrustIsProbed == Spec => []TrustTakesProbe
  <1>1. SchedulerInit => TrustInv
    <2>1. SUFFICES ASSUME SchedulerInit
                   PROVE  TrustInv
      OBVIOUS
    <2>2. \A h \in Host : NeverPassed(checks[h])
      BY <2>1 DEF SchedulerInit, HostsInit, NeverPassed
    <2>3. Registered = {}
      BY <2>1 DEF SchedulerInit, HostsInit, Registered
    <2>4. \A r \in Runner : BackedRun(run[r], serves, checks)
      BY <2>1 DEF SchedulerInit, HostsInit, BackedRun, Idle
    <2>5. QED
      BY <2>2, <2>3, <2>4 DEF TrustInv
  <1>2. IInv /\ TrustInv /\ [SchedulerNext]_vars => TrustInv'
    BY StepsKeepTrust
  <1>3. IInv /\ TrustInv => TrustTakesProbe
    <2>1. SUFFICES ASSUME IInv, TrustInv, NEW h \in Trusted
                   PROVE  /\ \E e \in Epoch : checks[h][e].passed > 0
                          /\ \E c \in Vouched[h] : <<h, c>> \in serves
      BY DEF TrustTakesProbe
    <2>2. h \in Host /\ h \in Registered /\ hosts[h].score = "good"
      BY <2>1 DEF IInv, StatusFitsScore, Trusted, Registered
    <2>3. ~NeverPassed(checks[h])
      BY <2>1, <2>2 DEF TrustInv
    <2>4. PICK e \in Epoch : checks[h][e].passed # 0
      BY <2>3 DEF NeverPassed
    <2>5. checks[h][e].passed \in Nat
      BY <2>1, <2>2 DEF IInv, TablesOK
    <2>6. checks[h][e].passed > 0
      BY <2>4, <2>5
    <2>7. Backed(h, serves)
      BY <2>1, <2>2, <2>3 DEF TrustInv
    <2>8. QED
      BY <2>6, <2>7 DEF Backed
  <1>4. QED
    BY <1>1, <1>2, <1>3, SchedulerInvariant, PTL DEF Spec

-------------------------------------------------------------------------------
(* A run alone.  Unless runs overlapped, failed or saw the epoch change,   *)
(* at most one is active, its epoch is the current one, and it has given   *)
(* the score of its checks to every host it has not still to score; and a  *)
(* host that has not registered has no checks.                             *)

Exact(R, H, C, at) == \A h \in R : H[h].score = ScoreOf(C[h], WindowStart(at), at)

RescoredBy(x, R, H, C, e) ==
  /\ x.epoch = e
  /\ x.pc = "score" => Exact(R \ x.left, H, C, e)
  /\ x.pc \in {"status", "write"} => /\ Exact(R \ (x.left \cup {x.host}), H, C, e)
                                     /\ x.score = ScoreOf(C[x.host], WindowStart(e), e)

Active == {r \in Runner : run[r].pc \notin {"idle", "settle"}}

Unchecked == \A h \in Host \ Registered : NeverPassed(checks[h])

AloneOK ==
  \/ Active = {} /\ Exact(Registered, hosts, checks, scoredAt)
  \/ \E r \in Runner : Active = {r} /\ RescoredBy(run[r], Registered, hosts, checks, epoch)

ScoresInv == Unchecked /\ (~raced => AloneOK)

LEMMA OnlyActive ==
  ASSUME ScoresInv, ~raced, NEW r \in Runner, run[r].pc \notin {"idle", "settle"}
  PROVE  Active = {r} /\ RescoredBy(run[r], Registered, hosts, checks, epoch)
  <1>1. r \in Active
    BY DEF Active
  <1>2. QED
    BY <1>1 DEF ScoresInv, AloneOK

LEMMA RunMoves ==
  ASSUME IInv, NEW r \in Runner, NEW x, Step(r, x)
  PROVE  run'[r] = x /\ \A q \in Runner \ {r} : run'[q] = run[q]
  BY DEF Step, IInv, RunnersOK

\* The only active runner goes on, or ends.
LEMMA AloneRuns ==
  ASSUME IInv, NEW r \in Runner, Active \subseteq {r}, NEW x, Step(r, x),
         \/ x.pc \in {"idle", "settle"} /\ Exact(Registered', hosts', checks', scoredAt')
         \/ /\ x.pc \notin {"idle", "settle"}
            /\ RescoredBy(x, Registered', hosts', checks', epoch')
  PROVE  AloneOK'
  <1>1. run'[r] = x /\ \A q \in Runner \ {r} : run'[q] = run[q]
    BY RunMoves
  <1>2. Active' = IF x.pc \in {"idle", "settle"} THEN {} ELSE {r}
    BY <1>1 DEF Active
  <1>3. QED
    BY <1>1, <1>2 DEF AloneOK

\* A runner ticks, or ends a settlement, whoever else is active.
LEMMA QuietRuns ==
  ASSUME IInv, ScoresInv, NEW r \in Runner, NEW x, Step(r, x),
         run[r].pc \in {"idle", "settle"}, x.pc \in {"idle", "settle"},
         UNCHANGED <<epoch, hosts, checks, raced, scoredAt>>
  PROVE  ScoresInv'
  <1>1. run'[r] = x /\ \A q \in Runner \ {r} : run'[q] = run[q]
    BY RunMoves
  <1>2. Active' = Active /\ Registered' = Registered
    BY <1>1 DEF Active, Registered
  <1>3. Unchecked'
    BY <1>2 DEF ScoresInv, Unchecked
  <1>4. ASSUME ~raced
        PROVE  AloneOK'
    <2>1. CASE Active = {} /\ Exact(Registered, hosts, checks, scoredAt)
      BY <1>2, <2>1 DEF AloneOK
    <2>2. CASE \E q \in Runner : /\ Active = {q}
                                 /\ RescoredBy(run[q], Registered, hosts, checks, epoch)
      <3>1. PICK q \in Runner : /\ Active = {q}
                                /\ RescoredBy(run[q], Registered, hosts, checks, epoch)
        BY <2>2
      <3>2. q # r
        BY <3>1 DEF Active
      <3>3. run'[q] = run[q]
        BY <1>1, <3>2
      <3>4. QED
        BY <1>2, <3>1, <3>3 DEF AloneOK
    <2>3. QED
      BY <1>4, <2>1, <2>2 DEF ScoresInv, AloneOK
  <1>5. QED
    BY <1>3, <1>4 DEF ScoresInv

LEMMA ScoresRegister ==
  ASSUME IInv, ScoresInv, NEW h \in Host, NEW endpoint \in BOOLEAN, RegisterHost(h, endpoint)
  PROVE  ScoresInv'
  <1> DEFINE row == IF hosts[h] = NoHost THEN NewHost(endpoint) ELSE Updated(h, endpoint)
  <1>1. /\ hosts' = [hosts EXCEPT ![h] = row]
        /\ UNCHANGED <<epoch, checks, run, raced, scoredAt>>
        /\ hosts \in [Host -> {NoHost} \cup HostRow] /\ epoch \in Epoch /\ scoredAt \in Epoch
    BY DEF RegisterHost, IInv, TablesOK
  <1>2. /\ row \in HostRow
        /\ hosts[h] = NoHost => row.score = "zero"
        /\ hosts[h] # NoHost => row.score = hosts[h].score
    <2>1. CASE hosts[h] = NoHost
      BY <2>1 DEF NewHost, HostRow, Status, Score
    <2>2. CASE hosts[h] # NoHost
      <3>1. hosts[h] \in HostRow
        BY <1>1, <2>2
      <3>2. QED
        BY <2>2, <3>1 DEF Updated, HostRow
    <2>3. QED
      BY <2>1, <2>2
  <1>3. row # NoHost
    BY <1>2, NoHostAssumption
  <1> HIDE DEF row
  <1>4. \A g \in Host : hosts'[g] = IF g = h THEN row ELSE hosts[g]
    BY <1>1
  <1>5. Registered' = Registered \cup {h}
    BY <1>3, <1>4 DEF Registered
  <1>6. Unchecked'
    BY <1>1, <1>5 DEF ScoresInv, Unchecked
  <1>7. ASSUME NEW Q, NEW at \in Epoch, Exact(Registered \ Q, hosts, checks, at)
        PROVE  Exact(Registered' \ Q, hosts', checks', at)
    <2>1. SUFFICES ASSUME NEW g \in Registered' \ Q
                   PROVE  hosts'[g].score = ScoreOf(checks[g], WindowStart(at), at)
      BY <1>1 DEF Exact
    <2>2. g \in Host
      BY DEF Registered
    <2>3. CASE g \in Registered
      <3>1. hosts'[g].score = hosts[g].score
        BY <1>2, <1>4, <2>2, <2>3 DEF Registered
      <3>2. QED
        BY <1>7, <2>3, <3>1 DEF Exact
    <2>4. CASE g \notin Registered
      <3>1. g = h /\ hosts[h] = NoHost
        BY <1>5, <2>2, <2>4 DEF Registered
      <3>2. hosts'[g].score = "zero"
        BY <1>2, <1>4, <3>1
      <3>3. NeverPassed(checks[g])
        BY <2>2, <2>4 DEF ScoresInv, Unchecked
      <3>4. QED
        BY <3>2, <3>3, WindowIsEpoch, ScoreTakesPass
    <2>5. QED
      BY <2>3, <2>4
  <1>8. Active' = Active
    BY <1>1 DEF Active
  <1>9. ASSUME ~raced
        PROVE  AloneOK'
    <2>1. CASE Active = {} /\ Exact(Registered, hosts, checks, scoredAt)
      <3>1. Exact(Registered \ {}, hosts, checks, scoredAt)
        BY <2>1 DEF Exact
      <3>2. Exact(Registered' \ {}, hosts', checks', scoredAt)
        BY <1>1, <1>7, <3>1
      <3>3. Exact(Registered', hosts', checks', scoredAt')
        BY <1>1, <3>2 DEF Exact
      <3>4. QED
        BY <1>8, <2>1, <3>3 DEF AloneOK
    <2>2. CASE \E q \in Runner : /\ Active = {q}
                                 /\ RescoredBy(run[q], Registered, hosts, checks, epoch)
      <3>1. PICK q \in Runner : /\ Active = {q}
                                /\ RescoredBy(run[q], Registered, hosts, checks, epoch)
        BY <2>2
      <3>2. RescoredBy(run[q], Registered', hosts', checks', epoch)
        BY <1>1, <1>7, <3>1 DEF RescoredBy
      <3>3. QED
        BY <1>1, <1>8, <3>1, <3>2 DEF AloneOK
    <2>3. QED
      BY <1>9, <2>1, <2>2 DEF ScoresInv, AloneOK
  <1>10. QED
    BY <1>1, <1>6, <1>9 DEF ScoresInv

\* A run that lists or probes has only to keep its epoch.
LEMMA NothingScored ==
  ASSUME NEW x, NEW R, NEW H, NEW C, NEW e, x.epoch = e,
         x.pc \in {"list", "check", "pick", "probe", "listScored"}
  PROVE  x.pc \notin {"idle", "settle"} /\ RescoredBy(x, R, H, C, e)
  BY DEF RescoredBy

LEMMA NextCheckIs ==
  ASSUME NEW left, NEW e, e = epoch
  PROVE  NextCheck(left, e).pc \in {"check", "listScored"} /\ NextCheck(left, e).epoch = epoch
  BY DEF NextCheck

LEMMA ScoresProbe ==
  ASSUME IInv, ScoresInv, NEW r \in Runner,
         \/ ListHosts(r)
         \/ \E h \in Host : ReadEndpoint(r, h)
         \/ PickCid(r)
         \/ \E passed \in BOOLEAN : RecordCheck(r, passed)
  PROVE  ScoresInv'
  <1>1. UNCHANGED <<epoch, hosts, raced, scoredAt>> /\ Registered' = Registered
    BY DEF ListHosts, ReadEndpoint, PickCid, RecordCheck, Registered
  <1>2. Unchecked'
    <2>1. CASE UNCHANGED checks
      BY <1>1, <2>1 DEF ScoresInv, Unchecked
    <2>2. CASE \E passed \in BOOLEAN : RecordCheck(r, passed)
      <3>1. /\ run[r].host \in Registered
            /\ \A g \in Host \ {run[r].host} : checks'[g] = checks[g]
        BY <2>2, ChecksOf
      <3>2. QED
        BY <1>1, <3>1 DEF ScoresInv, Unchecked
    <2>3. QED
      BY <2>1, <2>2 DEF ListHosts, ReadEndpoint, PickCid
  <1>3. ASSUME ~raced
        PROVE  AloneOK'
    <2>1. Active = {r} /\ run[r].epoch = epoch
      BY <1>3, OnlyActive DEF ListHosts, ReadEndpoint, PickCid, RecordCheck,
         RescoredBy
    <2>2. PICK x : /\ Step(r, x) /\ x.epoch = epoch
                   /\ x.pc \in {"list", "check", "pick", "probe", "listScored"}
      <3>1. CASE ListHosts(r)
        BY <2>1, <3>1, NextCheckIs DEF ListHosts
      <3>2. ASSUME NEW h \in Host, ReadEndpoint(r, h)
            PROVE  \E x : /\ Step(r, x) /\ x.epoch = epoch
                          /\ x.pc \in {"list", "check", "pick", "probe", "listScored"}
        <4> DEFINE left == run[r].left \ {h}
                   pick == [pc |-> "pick", host |-> h, left |-> left,
                            epoch |-> run[r].epoch]
                   next == NextCheck(left, run[r].epoch)
        <4>1. Step(r, IF hosts[h].endpoint THEN pick ELSE next)
          BY <3>2 DEF ReadEndpoint
        <4>2. pick.epoch = epoch /\ pick.pc = "pick"
          BY <2>1
        <4>3. next.epoch = epoch /\ next.pc \in {"check", "listScored"}
          BY <2>1, NextCheckIs
        <4> HIDE DEF pick, next
        <4>4. QED
          BY <4>1, <4>2, <4>3
      <3>3. ASSUME PickCid(r)
            PROVE  \E x : /\ Step(r, x) /\ x.epoch = epoch
                          /\ x.pc \in {"list", "check", "pick", "probe", "listScored"}
        <4> DEFINE h == run[r].host
                   left == run[r].left
                   served == {c \in Cid : <<h, c>> \in serves}
                   Probe(c) == [pc |-> "probe", host |-> h, cid |-> c, left |-> left,
                                epoch |-> run[r].epoch]
        <4>1. CASE served # {}
          <5>1. PICK c \in served : Step(r, Probe(c))
            BY <3>3, <4>1 DEF PickCid
          <5>2. Probe(c).epoch = epoch /\ Probe(c).pc = "probe"
            BY <2>1
          <5> HIDE DEF Probe
          <5>3. QED
            BY <5>1, <5>2
        <4>2. CASE served = {}
          <5>1. Step(r, NextCheck(left, run[r].epoch))
            BY <3>3, <4>2 DEF PickCid
          <5>2. /\ NextCheck(left, run[r].epoch).pc \in {"check", "listScored"}
                /\ NextCheck(left, run[r].epoch).epoch = epoch
            BY <2>1, NextCheckIs
          <5>3. QED
            BY <5>1, <5>2
        <4>3. QED
          BY <4>1, <4>2
      <3>4. CASE \E passed \in BOOLEAN : RecordCheck(r, passed)
        <4> DEFINE next == NextCheck(run[r].left, run[r].epoch)
        <4>1. Step(r, next)
          BY <3>4 DEF RecordCheck
        <4>2. next.epoch = epoch /\ next.pc \in {"check", "listScored"}
          BY <2>1, NextCheckIs
        <4> HIDE DEF next
        <4>3. QED
          BY <4>1, <4>2
      <3>5. QED
        BY <3>1, <3>2, <3>3, <3>4
    <2>3. /\ x.pc \notin {"idle", "settle"}
          /\ RescoredBy(x, Registered', hosts', checks', epoch')
      BY <1>1, <2>2, NothingScored
    <2>4. QED
      BY <2>1, <2>2, <2>3, AloneRuns
  <1>4. QED
    BY <1>1, <1>2, <1>3 DEF ScoresInv

\* What comes after a host has been scored, or the hosts to score been listed.
LEMMA ScoresGoOn ==
  ASSUME IInv, ~raced, NEW r \in Runner, Active = {r}, NEW left, NEW e, e = epoch,
         Step(r, NextScore(left, e)), Finished(NextScore(left, e), e), epoch' = epoch,
         Exact(Registered' \ left, hosts', checks', e)
  PROVE  AloneOK'
  <1>1. CASE left = {}
    <2>1. NextScore(left, e) = Idle /\ scoredAt' = e
      BY <1>1 DEF NextScore, Finished
    <2>2. Exact(Registered', hosts', checks', scoredAt')
      BY <1>1, <2>1 DEF Exact
    <2>3. QED
      BY <2>1, <2>2, AloneRuns DEF Idle
  <1>2. CASE left # {}
    <2> DEFINE x == [pc |-> "score", left |-> left, epoch |-> e]
    <2>1. NextScore(left, e) = x
      BY <1>2 DEF NextScore
    <2>2. x.pc = "score" /\ x.left = left /\ x.epoch = e
      OBVIOUS
    <2> HIDE DEF x
    <2>3. RescoredBy(x, Registered', hosts', checks', epoch')
      BY <2>2 DEF RescoredBy
    <2>4. QED
      BY <2>1, <2>2, <2>3, AloneRuns
  <1>3. QED
    BY <1>1, <1>2

LEMMA ScoresList ==
  ASSUME IInv, ScoresInv, NEW r \in Runner, ListScored(r)
  PROVE  ScoresInv'
  <1>1. /\ UNCHANGED <<epoch, hosts, checks, raced>> /\ Registered' = Registered
        /\ Step(r, NextScore(Registered, run[r].epoch))
        /\ Finished(NextScore(Registered, run[r].epoch), run[r].epoch)
    BY DEF ListScored, Scored, Registered
  <1>2. Unchecked'
    BY <1>1 DEF ScoresInv, Unchecked
  <1>3. ASSUME ~raced
        PROVE  AloneOK'
    <2>1. Active = {r} /\ run[r].epoch = epoch
      BY <1>3, OnlyActive DEF ListScored, RescoredBy
    <2>2. Exact(Registered' \ Registered, hosts', checks', run[r].epoch)
      BY <1>1 DEF Exact
    <2>3. QED
      BY <1>1, <1>3, <2>1, <2>2, ScoresGoOn
  <1>4. QED
    BY <1>1, <1>2, <1>3 DEF ScoresInv

LEMMA ScoresRead ==
  ASSUME IInv, ScoresInv, NEW r \in Runner,
         (\E h \in Host : ReadChecks(r, h)) \/ ReadStatus(r)
  PROVE  ScoresInv'
  <1>1. UNCHANGED <<epoch, hosts, checks, raced, scoredAt>> /\ Registered' = Registered
    BY DEF ReadChecks, ReadStatus, Registered
  <1>2. Unchecked'
    BY <1>1 DEF ScoresInv, Unchecked
  <1>3. ASSUME ~raced
        PROVE  AloneOK'
    <2>1. Active = {r} /\ RescoredBy(run[r], Registered, hosts, checks, epoch)
      BY <1>3, OnlyActive DEF ReadChecks, ReadStatus
    <2>2. ASSUME NEW h \in Host, ReadChecks(r, h)
          PROVE  AloneOK'
      <3> DEFINE x == [pc |-> "status", host |-> h, left |-> run[r].left \ {h},
                       epoch |-> run[r].epoch,
                       score |-> ComputeScore(h, WindowStart(epoch), run[r].epoch)]
      <3>1. /\ Step(r, x) /\ x.pc = "status" /\ x.host = h /\ x.left = run[r].left \ {h}
            /\ x.epoch = epoch
            /\ x.score = ScoreOf(checks[h], WindowStart(epoch), epoch)
        BY <2>1, <2>2, ScoreIs DEF ReadChecks, RescoredBy
      <3>2. Registered \ run[r].left = Registered \ (x.left \cup {x.host})
        BY <2>2, <3>1 DEF ReadChecks
      <3> HIDE DEF x
      <3>3. Exact(Registered \ (x.left \cup {x.host}), hosts, checks, epoch)
        BY <2>1, <2>2, <3>2 DEF RescoredBy, ReadChecks
      <3>4. RescoredBy(x, Registered', hosts', checks', epoch')
        BY <1>1, <3>1, <3>3 DEF RescoredBy
      <3>5. QED
        BY <2>1, <3>1, <3>4, AloneRuns
    <2>3. CASE ReadStatus(r)
      <3> DEFINE x == [pc |-> "write", host |-> run[r].host, left |-> run[r].left,
                       epoch |-> run[r].epoch, score |-> run[r].score,
                       status |-> hosts[run[r].host].status]
      <3>1. /\ Step(r, x) /\ x.pc = "write" /\ x.host = run[r].host /\ x.left = run[r].left
            /\ x.epoch = run[r].epoch /\ x.score = run[r].score
        BY <2>3 DEF ReadStatus
      <3> HIDE DEF x
      <3>2. RescoredBy(x, Registered', hosts', checks', epoch')
        BY <1>1, <2>1, <2>3, <3>1 DEF RescoredBy, ReadStatus
      <3>3. QED
        BY <2>1, <3>1, <3>2, AloneRuns
    <2>4. QED
      BY <2>2, <2>3
  <1>4. QED
    BY <1>1, <1>2, <1>3 DEF ScoresInv

LEMMA ScoresWrite ==
  ASSUME IInv, ScoresInv, NEW r \in Runner, WriteScore(r)
  PROVE  ScoresInv'
  <1> DEFINE h == run[r].host
  <1>1. /\ h \in Registered /\ Registered' = Registered
        /\ hosts'[h].score = run[r].score
        /\ \A g \in Host \ {h} : hosts'[g] = hosts[g]
        /\ Step(r, NextScore(run[r].left, run[r].epoch))
        /\ UNCHANGED <<epoch, serves, checks, runs, raced>>
    BY ScoreWritten
  <1>2. Unchecked'
    BY <1>1 DEF ScoresInv, Unchecked
  <1>3. ASSUME ~raced
        PROVE  AloneOK'
    <2>1. Active = {r} /\ RescoredBy(run[r], Registered, hosts, checks, epoch)
      BY <1>3, OnlyActive DEF WriteScore
    <2>2. /\ run[r].epoch = epoch
          /\ Exact(Registered \ (run[r].left \cup {h}), hosts, checks, epoch)
          /\ run[r].score = ScoreOf(checks[h], WindowStart(epoch), epoch)
      BY <2>1 DEF WriteScore, RescoredBy
    <2>3. ASSUME NEW g \in Registered \ run[r].left
          PROVE  hosts'[g].score = ScoreOf(checks[g], WindowStart(epoch), epoch)
      <3>1. CASE g = h
        BY <1>1, <2>2, <3>1
      <3>2. CASE g # h
        <4>1. g \in Host /\ hosts'[g] = hosts[g]
          BY <1>1, <3>2 DEF Registered
        <4>2. QED
          BY <2>2, <3>2, <4>1 DEF Exact
      <3>3. QED
        BY <3>1, <3>2
    <2>4. Exact(Registered' \ run[r].left, hosts', checks', run[r].epoch)
      BY <1>1, <2>2, <2>3 DEF Exact
    <2>5. Finished(NextScore(run[r].left, run[r].epoch), run[r].epoch)
      BY DEF WriteScore
    <2>6. QED
      BY <1>1, <1>3, <2>1, <2>2, <2>4, <2>5, ScoresGoOn
  <1>4. QED
    BY <1>1, <1>2, <1>3 DEF ScoresInv

LEMMA ScoresBegin ==
  ASSUME IInv, ScoresInv, NEW r \in Runner, run[r].pc \in {"idle", "settle"}, CountRun(r),
         Step(r, Checking), UNCHANGED <<epoch, hosts, checks, scoredAt>>
  PROVE  ScoresInv'
  <1>1. Registered' = Registered
    BY DEF Registered
  <1>2. Unchecked'
    BY <1>1 DEF ScoresInv, Unchecked
  <1>3. ASSUME ~raced'
        PROVE  AloneOK'
    <2>1. Active = {}
      BY <1>3 DEF CountRun, AllIdleBut, Active
    <2>2. Checking.pc = "list" /\ Checking.epoch = epoch
      BY DEF Checking
    <2>3. /\ Checking.pc \notin {"idle", "settle"}
          /\ RescoredBy(Checking, Registered', hosts', checks', epoch')
      BY <2>2, NothingScored
    <2>4. QED
      BY <2>1, <2>3, AloneRuns
  <1>4. QED
    BY <1>2, <1>3 DEF ScoresInv

LEMMA ScoresSettle ==
  ASSUME IInv, ScoresInv, NEW r \in Runner,
         Tick(r) \/ Settle(r) \/ SettleFails(r) \/ CheckHosts(r)
  PROVE  ScoresInv'
  <1>1. run[r].pc \in {"idle", "settle"}
    BY DEF Tick, Settle, SettleFails, CheckHosts, Idle
  <1>2. UNCHANGED <<epoch, hosts, checks, scoredAt>>
    BY DEF Tick, Settle, SettleFails, CheckHosts
  <1>3. CASE CountRun(r) /\ Step(r, Checking)
    BY <1>1, <1>2, <1>3, ScoresBegin
  <1>4. CASE UNCHANGED raced /\ \E x : Step(r, x) /\ x.pc \in {"idle", "settle"}
    BY <1>1, <1>2, <1>4, QuietRuns
  <1>5. Idle.pc = "idle" /\ \A e : [pc |-> "settle", epoch |-> e].pc = "settle"
    BY DEF Idle
  <1>6. CASE Tick(r)
    BY <1>4, <1>5, <1>6 DEF Tick
  <1>7. CASE SettleFails(r)
    BY <1>4, <1>5, <1>7 DEF SettleFails
  <1>8. CASE Settle(r)
    BY <1>3, <1>4, <1>5, <1>8 DEF Settle
  <1>9. CASE CheckHosts(r)
    BY <1>3, <1>9 DEF CheckHosts
  <1>10. QED
    BY <1>6, <1>7, <1>8, <1>9

LEMMA StepsKeepScores ==
  ASSUME IInv, ScoresInv, [SchedulerNext]_vars
  PROVE  ScoresInv'
  <1>1. ASSUME NEW h \in Host, NEW endpoint \in BOOLEAN, RegisterHost(h, endpoint)
        PROVE  ScoresInv'
    BY <1>1, ScoresRegister
  <1>2. ASSUME UNCHANGED <<epoch, hosts, checks, run, raced, scoredAt>>
        PROVE  ScoresInv'
    <2>1. Registered' = Registered /\ Active' = Active
      BY <1>2 DEF Registered, Active
    <2>2. QED
      BY <1>2, <2>1 DEF ScoresInv, Unchecked, AloneOK
  <1>3. ASSUME NEW h \in Host, NEW c \in Cid, AddServedCid(h, c)
        PROVE  ScoresInv'
    BY <1>2, <1>3 DEF AddServedCid
  <1>4. ASSUME NEW r \in Runner, NEW h \in Host, ReadEndpoint(r, h) \/ ReadChecks(r, h)
        PROVE  ScoresInv'
    BY <1>4, ScoresProbe, ScoresRead
  <1>5. ASSUME NEW r \in Runner, NEW passed \in BOOLEAN, RecordCheck(r, passed)
        PROVE  ScoresInv'
    BY <1>5, ScoresProbe
  <1>6. ASSUME NEW r \in Runner, RunFails(r)
        PROVE  ScoresInv'
    <2>1. UNCHANGED <<hosts, checks>> /\ raced' = TRUE
      BY <1>6 DEF RunFails
    <2>2. QED
      BY <2>1 DEF ScoresInv, Unchecked, Registered
  <1>7. ASSUME NEW r \in Runner,
               ListHosts(r) \/ PickCid(r) \/ ListScored(r) \/ ReadStatus(r)
               \/ WriteScore(r)
        PROVE  ScoresInv'
    BY <1>7, ScoresProbe, ScoresList, ScoresRead, ScoresWrite
  <1>8. CASE HostsNext
    BY <1>1, <1>3, <1>4, <1>5, <1>6, <1>7, <1>8 DEF HostsNext
  <1>9. CASE NextEpoch \/ Restart
    <2>1. UNCHANGED <<hosts, checks, scoredAt>> /\ Registered' = Registered
      BY <1>9 DEF NextEpoch, Restart, Registered
    <2>2. Unchecked'
      BY <2>1 DEF ScoresInv, Unchecked
    <2>3. ASSUME ~raced'
          PROVE  AloneOK'
      <3>1. ~raced /\ Active = {}
        BY <1>9, <2>3 DEF NextEpoch, Restart, Active
      <3>2. Exact(Registered, hosts, checks, scoredAt)
        BY <3>1 DEF ScoresInv, AloneOK
      <3>3. Active' = {}
        <4>1. CASE NextEpoch
          BY <3>1, <4>1 DEF NextEpoch, Active
        <4>2. CASE Restart
          BY <4>2 DEF Restart, Active, Idle
        <4>3. QED
          BY <1>9, <4>1, <4>2
      <3>4. QED
        BY <2>1, <3>2, <3>3 DEF AloneOK
    <2>4. QED
      BY <2>2, <2>3 DEF ScoresInv
  <1>10. CASE Start \/ UNCHANGED vars
    BY <1>2, <1>10 DEF Start, vars, hostVars
  <1>11. QED
    BY <1>8, <1>9, <1>10, ScoresSettle DEF SchedulerNext

(***************************************************************************)
(* updateAllScores: a run that met no other, did not fail and saw no epoch *)
(* change leaves every host, also one that registered meanwhile, with the  *)
(* score of all the checks recorded so far.                                *)
(***************************************************************************)
THEOREM AloneScoresAreExact == Spec => []ScoresFollowChecks
  <1>1. SchedulerInit => ScoresInv
    <2>1. SUFFICES ASSUME SchedulerInit
                   PROVE  ScoresInv
      OBVIOUS
    <2>2. Unchecked
      BY <2>1 DEF SchedulerInit, HostsInit, Unchecked, NeverPassed
    <2>3. Registered = {} /\ Active = {}
      BY <2>1 DEF SchedulerInit, HostsInit, Registered, Active, Idle
    <2>4. QED
      BY <2>2, <2>3 DEF ScoresInv, AloneOK, Exact
  <1>2. IInv /\ ScoresInv /\ [SchedulerNext]_vars => ScoresInv'
    BY StepsKeepScores
  <1>3. ScoresInv => ScoresFollowChecks
    <2>1. SUFFICES ASSUME ScoresInv, \A r \in Runner : run[r].pc \in {"idle", "settle"}, ~raced,
                          NEW h \in Registered
                   PROVE  hosts[h].score = ComputeScore(h, WindowStart(scoredAt), scoredAt)
      BY DEF ScoresFollowChecks
    <2>2. Active = {}
      BY <2>1 DEF Active
    <2>3. Exact(Registered, hosts, checks, scoredAt)
      BY <2>1, <2>2 DEF ScoresInv, AloneOK
    <2>4. QED
      BY <2>3, ScoreIs DEF Exact
  <1>4. QED
    BY <1>1, <1>2, <1>3, SchedulerInvariant, PTL DEF Spec

================================================================================
