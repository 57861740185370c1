------------------------------- MODULE Scheduler -------------------------------
(***************************************************************************)
(* The epoch scheduler of the coordinator (scheduler.ts) over the host     *)
(* registry.  setInterval starts a tick every minute, whether or not the   *)
(* last one has ended.  settleEpoch (module EpochSettlement) is, for the   *)
(* scheduler, a call that ends one way or the other.                       *)
(***************************************************************************)
EXTENDS Hosts

CONSTANT NotStarted    \* the scheduler before start()

VARIABLES
  lastSettled,   \* _lastSettledEpoch
  settled,       \* epochs whose settlement ended well
  restarted      \* the process has been restarted; one restart is the bound

schedVars == <<lastSettled, settled, restarted>>

vars == <<hostVars, schedVars>>

\* start(): the epoch before the last is taken for settled.
Start ==
  /\ lastSettled = NotStarted
  /\ lastSettled' = epoch - 2
  /\ UNCHANGED <<hostVars, settled, restarted>>

\* Fault: the epoch that is still open is settled.
CurrentEpoch == epoch
EpochToSettle == epoch - 1

Tick(r) ==
  /\ run[r] = Idle
  /\ lastSettled # NotStarted
  /\ EpochToSettle >= 0
  /\ EpochToSettle > lastSettled
  /\ Step(r, [pc |-> "settle", epoch |-> EpochToSettle])
  /\ UNCHANGED <<epoch, hosts, serves, checks, runs, raced, scoredAt, schedVars>>

\* The settlement ended well: spot-checks follow, as far as MaxRuns allows.
Settle(r) ==
  /\ run[r].pc = "settle"
  /\ settled' = settled \cup {run[r].epoch}
  /\ lastSettled' = run[r].epoch
  /\ \/ CountRun(r) /\ Step(r, Checking)
     \/ runs = MaxRuns /\ Step(r, Idle) /\ UNCHANGED <<runs, raced>>
  /\ UNCHANGED <<epoch, hosts, serves, checks, scoredAt, restarted>>

\* Fault: an epoch counts as settled when its settlement has failed.
GiveUp(r) ==
  /\ run[r].pc = "settle"
  /\ Step(r, Idle)
  /\ lastSettled' = run[r].epoch
  /\ UNCHANGED <<epoch, hosts, serves, checks, runs, raced, scoredAt, settled,
                 restarted>>

SettleFails(r) ==
  /\ run[r].pc = "settle"
  /\ Step(r, Idle)
  /\ UNCHANGED <<epoch, hosts, serves, checks, runs, raced, scoredAt, schedVars>>

\* POST /hosts/check.
CheckHosts(r) ==
  /\ run[r] = Idle
  /\ CountRun(r)
  /\ Step(r, Checking)
  /\ UNCHANGED <<epoch, hosts, serves, checks, scoredAt, schedVars>>

NextEpoch ==
  /\ epoch < LastEpoch
  /\ epoch' = epoch + 1
  /\ raced' = (raced \/ \E r \in Runner : run[r].pc \notin {"idle", "settle"})
  /\ UNCHANGED <<hosts, serves, checks, run, runs, scoredAt, schedVars>>

\* The process stops: the tables stay, what was under way is gone.
Restart ==
  /\ ~restarted
  /\ restarted' = TRUE
  /\ lastSettled' = NotStarted
  /\ run' = [r \in Runner |-> Idle]
  /\ raced' = (raced \/ \E r \in Runner : run[r].pc \notin {"idle", "settle"})
  /\ UNCHANGED <<epoch, hosts, serves, checks, runs, scoredAt, settled>>

-------------------------------------------------------------------------------
SchedulerInit ==
  /\ HostsInit
  /\ lastSettled = NotStarted
  /\ settled = {}
  /\ restarted = FALSE

SchedulerNext ==
  \/ HostsNext /\ UNCHANGED schedVars
  \/ Start
  \/ \E r \in Runner : Tick(r) \/ Settle(r) \/ SettleFails(r) \/ CheckHosts(r)
  \/ NextEpoch
  \/ Restart

Spec == SchedulerInit /\ [][SchedulerNext]_vars

\* What a runner does between two queries; a probe ends, by its timeout if need be.
Continue(r) ==
  /\ UNCHANGED schedVars
  /\ \/ ListHosts(r)
     \/ \E h \in Host : ReadEndpoint(r, h) \/ ReadChecks(r, h)
     \/ PickCid(r)
     \/ \E passed \in BOOLEAN : RecordCheck(r, passed)
     \/ ListScored(r)
     \/ ReadStatus(r)
     \/ WriteScore(r)

(***************************************************************************)
(* The process is started and keeps its timer, queries and probes end, and *)
(* a settlement that is tried again and again does not fail every time.    *)
(***************************************************************************)
SchedulerFairness ==
  /\ WF_vars(Start)
  /\ WF_vars(\E r \in Runner : Tick(r))
  /\ SF_vars(\E r \in Runner : Settle(r))
  /\ WF_vars(\E r \in Runner : Continue(r))

FairSpec == Spec /\ SchedulerFairness

(***************************************************************************)
(* tick: only closed epochs are settled, also by a tick that takes longer  *)
(* than an epoch or that a restart follows.                                *)
(***************************************************************************)
OnlyClosedSettled ==
  /\ \A e \in settled : e < epoch
  /\ \A r \in Runner : run[r].pc = "settle" => run[r].epoch < epoch

(***************************************************************************)
(* "auto-settles closed epochs": the epoch before the current one is       *)
(* settled if the current one lasts (the clock, which no fairness drives,  *)
(* may come to a halt in any epoch), although a settlement may fail, a     *)
(* slow tick may take _lastSettledEpoch back, and the process may restart. *)
(* (An epoch that was not settled within the next one never is.)           *)
(***************************************************************************)
LastEpochSettles == []<>(epoch > 0 => epoch - 1 \in settled)

===============================================================================
