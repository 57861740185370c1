# Dupenet: a verification project

TLA+ modules, TLC configurations and TLAPS proofs about dupenet, a network in
which hosts are paid, out of bounty pools, for serving content-addressed
blocks. The modules are translated from the TypeScript source; the names of
handlers, tables and constants are kept. `PROJECT.json` maps every definition to
the lines it stands for.

1. [The system](#1-the-system)
2. [Hard behaviours](#2-hard-behaviours)
3. [Modules](#3-modules)
4. [Runs](#4-runs)
5. [Proofs](#5-proofs)
6. [What the work found](#6-what-the-work-found)
7. [Not modelled](#7-not-modelled)

## 1. The system

| part | state it keeps | operations | correct when |
|---|---|---|---|
| **Bounty pools** `coordinator/views/bounty-pool.ts` | a balance and a tipped total per pool key (PostgreSQL) | `creditTip`, `creditBountyDirect`, `debitPayout` | no update is lost; no pool pays what it does not have; the royalty follows the volume |
| **Epoch settlement** `views/epoch-settlement.ts` | summary rows per (epoch, host, CID) | `settleEpoch` | an epoch is charged once; rewards are covered by the charge; the run ends with rows |
| **Economics** `packages/physics` | none (pure) | aggregation, caps, scores, rewards, royalties, auto-bids | payouts within the cap |
| **Pin contracts** `views/pin-contracts.ts` | contracts with status and remaining budget | `createPin`, `cancelPin`, `drainPinBudgets` | a pin lasts its duration; refund and fee add up to what remained |
| **Tip and receipt intake** `server.ts` | receipt table, event log | `POST /tip`, `POST /receipt/submit` | one receipt per payment hash; the log matches the pools |
| **Funded events** `server.ts`, `views/payment-store.ts` | two maps of payment requests in memory, with expiry | `POST /payreq`, `GET /payreq`, `POST /event` | credit only for payment, once per payment; who paid in time gets the credit |
| **Event log and index** `event-log/`, `views/materializer.ts` | append-only log; one indexed row per event id | `appendEvent`, `storeProtocolEvent`, `getThread` | the tables can be rebuilt from the log; a thread is a tree within its limit |
| **Scheduler** `scheduler.ts` | the last epoch settled (memory) | `start`, `tick` | only closed epochs are settled, and the last closed one is |
| **Hosts and availability** `views/host-registry.ts`, `views/availability.ts` | host rows, spot-checks, served CIDs | register, serve, check, update scores | the status follows the score, the score follows the checks |
| **Citation graph** `views/graph.ts` | edges and counts per reference | `storeBodyEdges`, `updateEdgeCounts` | counts match edges, edges match events |
| **Gateway, paid blocks** `gateway/routes/block.ts`, `l402/` | pending invoices (memory) | `GET /block/:cid` with and without preimage | one block, and receipts of one credit, per payment |
| **Gateway, storage** `gateway/storage`, `routes/` | block files, metadata in memory and on disk | `put`, `get`, `has`, `init` | what was acknowledged can be read back, whole |
| **Mint** `apps/mint` | none | sign a receipt token | signs only for settled invoices |
| **Node agent** `apps/node-agent` | CIDs already mirrored (memory) | poll, mirror, announce | what it announces its gateway can serve |
| **CLI** `apps/cli` | keys, configuration | `upload`, `fetch`, single requests | a file saved is the file asked for; what is listed was uploaded |
| **Web client** `apps/web` | the state of a page | funding button, downloads, previews | a payment is pursued until it is credited; a part is never shown as the whole |

The coordinator is one Node process over one PostgreSQL database. A handler runs
without interruption between two `await`s; at each `await` other handlers run.
There are no transactions spanning two queries and no locks: what one handler
read, another may change before it writes. Gateways call the mint and LND;
clients and node agents call gateways and the coordinator over HTTP. The parts
meet in few places: settlement and every credit in the pools; settlement reads
the host score as a plain number; receipts come from the mint by way of the
client; mirror cycles read the bounty feed and write what hosts serve.

## 2. Hard behaviours

They are listed with their lines under `hazards` in `PROJECT.json`. The ones
that shaped the models:

* **Interleaving at awaits.** `debitPayout` checks, then decrements. `creditTip`
  reads the volume, then writes. `settleEpoch` counts summaries, then spends
  many round trips before it writes the first. `drainPinBudgets` writes budgets
  it read before. `POST /event` finds a payment request, awaits LND, and only
  then consumes it; it counts edges, then writes the count. `updateAvailability`
  writes a status computed from an earlier read. `GET /block` looks an invoice up,
  awaits the mint, and only then deletes the record.
* **Timers that do not wait.** The scheduler's tick, the agent's poll and the
  button's check are started by `setInterval` whether or not the last has ended.
* **Failure halfway.** Every handler makes several writes without a transaction;
  a rejected query or a crash leaves the earlier ones. `writeFile` truncates first.
* **Results not looked at.** `settleEpoch` and `cancelPin` ignore that
  `debitPayout` returned false; a mirrored variant may have failed.
* **Expiry and restart.** Payment requests live ten minutes, in memory, and so do
  the gateway's invoices; the scheduler forgets which epoch it settled.
* **Retry and rotation.** Blocks of one file come from several gateways; a paid
  request can be shown twice; a client may lose an answer.
* **Arithmetic at the edges.** Rewards, fees and drain rates are floors of
  products; caps are logarithms; a score window counts its first epoch too.

## 3. Modules

```
BountyPool ── Handlers ──┬── PinContracts ── EpochSettlement ── Coordinator ── MCCoordinator
     │        Economics ─┘                                          │ INSTANCE
     │        (on Totals)                                       EpochBooks (on Totals)
     ├── MCBountyPool     └─ (Handlers, Totals) PaymentIntents ── MCPaymentIntents

GatewayStore ── PaidBlocks ── MCPaidBlocks             Citations ──┬── MCNetwork
                    │                                  Transfers ──┤
                 INSTANCE                              Fortify ────┘
                BlockSale                              Hosts ── Scheduler ── MCScheduler

proofs      of                        cite
TotalsProofs          Totals
BountyPoolProofs      BountyPool, Handlers
CoordinatorProofs     Coordinator              BountyPoolProofs, TotalsProofs
PaymentIntentsProofs  PaymentIntents           BountyPoolProofs, TotalsProofs
SchedulerProofs       Hosts, Scheduler         TotalsProofs
CitationsProofs       Citations                TotalsProofs
ClientProofs          Transfers, Fortify
PaidBlocksProofs      GatewayStore, PaidBlocks
```

### Coordinator: money

**BountyPool** is the pool table and the three calls that write it, each split at
its awaits: `ReadVolume`/`CreditTip`, `CreditBountyDirect`,
`CheckDebit`/`DebitPayout`. `call[p]` is the call request slot `p` is in, with what
it has read. The module is closed by the most general caller (`Call`, `Drop`):
any call, any time, given up at any await. It is the *abstract specification* that
the handlers implement, so what is proved of it holds for all of them.
`credited`, `debited` and `mark` are history. The royalty rate is a table that
never grows with the volume, which is all the properties use of
`0.15 (1 + v/125M)^-0.3155`.

**Handlers** is what the request handlers have in common: `task[p]`, the program
counter and locals of the handler in slot `p`, and `Await`, which hands the slot
over to its next round trip. A handler that continues after a call does so in
the same step as its next own round trip, as the code does between two awaits.

**Economics** (on **Totals**, the sum of a function) is the arithmetic of `packages/physics`: grouping of receipts,
eligibility, payout weight, epoch cap, host score, rewards, egress royalty,
auto-bid, cancellation fee. Money is in sats, caps in hundredths, floors as in the
code; logarithms are rounded down, which is exact for the powers of two the
instances use.

**PinContracts** (`CreatePin`, `AppendPinCreate`, `ReadPin`, `CancelPin`,
`AppendPinCancel`, and the sweep `ListActivePins`, `DrainPin`),
**EpochSettlement** (`StartSettle` the guard, `FetchReceipts`, `SkipCid`/`PayCid`,
`StartSweep`, `StartAutoBid`/`EndAutoBid`, `PersistSummary` with its unique key,
`AppendSummary`) and **Coordinator** (tips, receipts, the clock, `Abort`) build up
the coordinator. `log` keeps, of the event table, the sats its events account
for and the number of summaries per epoch. The lists the handler walks come from
queries without an order, so CIDs, auto-bids and pins are taken in any order.

**EpochBooks** is what settlement promises: at most one charge per epoch and
CID, no charge once rows exist, and rewards on the rows covered by the charge.

**PaymentIntents** is `POST /payreq`, `GET /payreq` and `POST /event` for events with
sats: `RequestInvoice`/`StorePayment`, `SubmitEvent`/`ConsumePayment`/`RunPoolCall`/
`AppendEvent`/`StoreProtocolEvent`, the payment store with `LookUp`, `DeletePayment`,
`Cleanup`, expiry and `Restart`, and, external, the Lightning node. An event is its
hash; signatures are valid. A call to LND takes effect in the step in which the
handler goes on. Host registration and citation edges, which the handler also
does for some events, are in `Hosts` and `Citations`.

### Coordinator: hosts and content

**Hosts** is the registry (`RegisterHost`, by request or by event, and
`AddServedCid`, of any CID) and `runAllChecks`, whose runs are `Runner`s: `ListHosts`,
then per host `ReadEndpoint`, `PickCid` and `RecordCheck`, then `ListScored` and per host `ReadChecks`, `ReadStatus`,
`WriteScore`, one query each, or `RunFails`. `run[r]` has what a run holds between two
queries: the epoch it started in, the hosts still to do, the score and the status
it read. The score is an arithmetic share in the code; all that is asked of it is
whether it is 0, below 0.6 or above, so it is one of three classes, computed
from the counts of passed and failed checks. The coordinator never sees a block: it
takes the answer of an endpoint the host has named. `Vouched[h]`, the CIDs that
endpoint may answer for, is therefore any set: the blocks held, if the endpoint is
a gateway of this repository, and else whatever its owner likes. **Scheduler** adds `Start`, `Tick`,
`Settle`/`SettleFails`, `POST /hosts/check`, the clock and `Restart`; `settleEpoch` is
here a call that ends well or not.

**Citations** is what `POST /event` does with any admitted event: `AppendEvent`,
`StoreEvent` (one row per id), `StoreEdges` (no unique key: a second post writes all
rows again), then `CountOut`/`WriteOut` and, target by target, `CountIn`/`WriteIn`; and
`getThread`, one query per level (`OpenThread`, `CollectReplies`). An event is its
place in the order of timestamps, and its body the references it mentions.

### Gateways and their clients

**GatewayStore** is the storage of a gateway: `disk` (what the file of an item
holds), `loaded` (the metadata maps), and per slot a request between two file-system
calls. `PutBlock`/`AccessBlock`/`OpenFile`/`WriteFile` keep apart that opening a file
for writing truncates it; `LookUpBlock` walks the blocks of a manifest; `WriteFails`
and `Restart` may strike in between. **PaidBlocks** adds the sale: `GetBlock`,
`BlockExists`, `ReadPreview`, `CreateInvoice`, `ReadPaid`, the mint's `SignReceipt`,
`Deliver` (which deletes the record, and whose answer the client may lose), expiry,
and `SubmitReceipt` at the coordinator with its window of epochs and the unique
payment hash. **BlockSale** is what these promise together: a sale is quoted once
and paid once, signed for on the quoted terms alone, credited once.

**Transfers** is content under way between gateways: `dupenet upload` for a file or a
directory, the mirror cycles of node agents, and three readers (`dupenet fetch` over
several endpoints with payment, downloads and previews of the web client). A task is
a record with what the command holds; every request is a step, and may fail.

**Fortify** is the funding button: sessions, the state of the one button, the
intervals that run and the one that `pollRef` or `cycleRef` names, and the calls that
have not come back. Of the coordinator behind it, it has for each session the
payment request, created (`CreateRequest`) and forgotten (`Forget`), and `POST /event`
between its awaits: the request is found (`AcceptPost`), the node says that it is
settled and it is consumed (`ConsumePost`), the pool is credited (`CreditPost`).
`PaymentIntents` has the handlers in full.

### Conventions

Operators whose comment starts with `Fault:` are the mutants: each is a plausible
bug of the operator they stand beside, and breaks a property (see `mutants` in
`PROJECT.json`). No specification uses them.

* A slot, a runner, a worker or a client is something in flight: a request, a run
  of the checks, a post, a command. One means served one after the other; two let
  any two overlap, which is what every hazard above needs.
* `MaxTips`, `MaxAborts`, `MaxRestarts`, `MaxEpoch`, `MaxClock`, `LastEpoch`, `MaxRuns`,
  `MaxPosts`, `MaxCommands`, `MaxSessions`, `MaxChecks` and `MaxFaults` bound counters, in
  guards. `MaxTurnover` in `MCBountyPool` bounds the sats moved.
* `... \in Amount` in the guard of a step that computes an amount is a bound of the
  model. An instance whose `Amount` is too small gets stuck there, and TLC reports
  the deadlock: deadlock is checked in the runs over money.
* `Quiet` is the stuttering of a coordinator without requests: only a state with
  all slots free may stop.
* A crash of a process is an `Abort`, `Fail`, `RunFails` or a command whose steps do not
  come, of each handler it runs, and `Restart` where memory is lost.

## 4. Runs

`MCCoordinator` scales the constants (percentages times ten, reward base divided by
ten; the cancellation fee is the real one) so that a few sats reach the
boundaries thousands reach in production.

| run | instance | shows |
|---|---|---|
| `pool_races` | 2 slots, 2 pools, any calls, turnover up to 4 | `PoolLedger` no lost update; `OverdraftNeedsRace`; `StaleVolumeFavoursFounder` |
| `settle_sequential` | 1 slot, 2 pools, 2 hosts, 3 pins, one of which drains nothing, 3 epochs, late receipts | `NoOverdraft`; `BooksKept` (settlement implements `EpochBooks`); `PinLastsItsDuration` |
| `settle_overlap` | 2 slots, 1 pool, 1 pin, an abort anywhere | `CoordinatorTypeOK`; `ChargesBounded`; `OneSummaryEvent`; `LogFollowsCredits`; `EndedPinsStayEnded`; `PoolsAsSpecified` |
| `settle_live` | 2 slots, weak fairness | `HandlersFinish`; `SettlementLeavesRow` |
| `pay_sequential` | 1 slot, 2 events, 3 invoices, clock to 3 with life 1 | `SingleUse`; `PaidStaysClaimable` |
| `pay_overlap` | 2 slots, 1 event, 3 invoices, an abort, a restart | `PaymentTypeOK`; `StoresAgree`; `EveryTipIsPaid`; `CreditsBounded`; `LogCountsCredits` |
| `gateway` | 2 slots, 2 blocks in a file in an asset, 1 invoice, 2 epochs, 1 failing write or restart | `GatewayTypeOK`; `IntactUnlessCut`; `ServedIsComplete`; `TokensAreSales`; `PaidStaysClaimable`; `SellsBlocks` (implements `BlockSale`) |
| `hosts` | 2 runners, 1 host, whose endpoint answers for one of two CIDs, 3 epochs, window 1, 2 runs of checks, a restart; fairness | `HostsTypeOK`; `StatusFitsScore`; `ScoresFollowChecks`; `TrustTakesProbe`; `OnlyClosedSettled`; `LastEpochSettles` |
| `network` | 2 workers, 5 events, 3 posts; or 2 gateways, 2 clients, 3 commands, 2 assets; or 2 sessions with 2 polls and 1 | `CountsNeverAbove`; `CountsExactAlone`; `ViewsFollowLog`; `ThreadIsTree`; `AdvertisedIsHeld`; `NothingPartialAsWhole`; `PaidIsPursued` |
| `settled_once` | 2 slots | violated: `ChargedOnce` |
| `log_replay` | 1 slot | violated: `LogRebuildsPools` |
| `paid_once` | 2 slots | violated: `SingleUse` |

Why the bounds are enough: each race the code has is between two handlers, over
one pool, event, host, file or invoice, so two in flight and one key reach it; two
pools and two hosts are there for the sequential runs, where shares, empty pools,
ineligible groups and pins outliving an epoch matter. Three invoices for one event
let a request expire, be replaced, and be replaced again. In `gateway` the one
invoice is shown for either block, while uploads of the same items go on in the
other slot; nothing relates two invoices but the unique payment hash, which
distinguishes them. No block is small there, as a small block never reaches the
sale; an empty file, which is served as if it were, occurs. In `hosts` a window of one
epoch with three epochs lets checks leave the window; two runs overlap and one may
outlive its epoch; a host whose endpoint answers for nothing, for some or for all of
what it announced is the one host before and after each announcement. In `network`
an event is posted twice, cites one item twice and answers another; a thread is
deeper than its limit allows; one manifest names a block twice, one file is cut,
one block is sold, one image is too large; two polls of the first session overlap,
and a poll of the second with both.

The three parts of `network` are independent: `Citations`, `Transfers` and `Fortify`
share no variable, and a behaviour of `MCNetwork` is one of a single part (`part`),
which is chosen at the start. That visits every state each part has, without their
product. `hosts` and `network` end where their bounded counters end, so they are the
runs that do not check for deadlock. `PoolTypeOK` is checked as a part of
`CoordinatorTypeOK` and `PaymentTypeOK`.

**Symmetry** is used over slots, pools, invoices and workers, in runs of safety properties
(invariants and refinements without fairness) only.

**Fairness.** `settle_live`: weak fairness of `Continue(p)` for each slot, that is,
Node resumes a handler when its query returned, and the database answers. No
fairness of clients, of the clock or of failures. `Continue` is never disabled and
enabled in turn by another slot, so weak fairness is enough. `hosts`: weak fairness of
`Start` (the process calls it), of `Tick` (the timer is never cleared), and of the
queries and probes of a run (a probe has a timeout); strong fairness of `Settle`: a
settlement that is tried again with every tick does not fail for ever. The clock has
none, so `LastEpochSettles` says: in whatever epoch the clock comes to rest, the
epoch before is settled.

## 5. Proofs

For every number of slots, pools, events, invoices, hosts, blocks and files, every
amount and bound, and every royalty table, that meet the assumptions of the modules
(TLC evaluates these assumptions on every run):

| theorem | states, for every instance | module |
|---|---|---|
| `PoolTypeCorrect`, `LedgerCorrect` | `PoolTypeOK`, `PoolLedger` | `BountyPoolProofs` |
| `OverdraftCorrect`, `RoyaltyCorrect` | `OverdraftNeedsRace`, `StaleVolumeFavoursFounder` | |
| `SequentialNoOverdraft` | `NoOverdraft`, one slot | |
| `Refinement` | `PoolsAsSpecified`: the coordinator implements `BountyPool` | `CoordinatorProofs` |
| `CoordinatorLedger`, `CoordinatorOverdraft`, `CoordinatorRoyalty`, `CoordinatorNoOverdraft` | the properties of the pools, of the coordinator | |
| `CoordinatorTypes` | `CoordinatorTypeOK` | |
| `OneSummary` | `OneSummaryEvent` | |
| `ChargesAreBounded`, `SequentialChargesOnce` | `ChargesBounded`; `ChargedOnce` with one slot and no abort | |
| `CreditsComeFirst` | `LogFollowsCredits` | |
| `PinsEnd` | `EndedPinsStayEnded` | |
| `PinsLast` | `PinLastsItsDuration`, one slot and no abort | |
| `CapCoversPayout` | rewards and fee of a CID are within `CidEpochCap` and the pool | |
| `SettlementKeepsBooks` | `BooksKept`: settlement implements `EpochBooks`, one slot and no abort | |
| `PaymentTypeCorrect`, `StoresAgreeCorrect` | `PaymentTypeOK`, `StoresAgree` | `PaymentIntentsProofs` |
| `PaymentsUsePools`, `PaymentsLedger` | `POST /event` implements `BountyPool`; `PoolLedger` | |
| `CreditsStayBounded`, `SequentialSingleUse` | `CreditsBounded`; `SingleUse` with one slot | |
| `TipsArePaid`, `LogMatchesCredits` | `EveryTipIsPaid`, `LogCountsCredits` | |
| `PaidRequestsStay` | `PaidStaysClaimable`, one slot | |
| `HostsTypes`, `StatusAlwaysFits`, `OpenNeverSettled` | `HostsTypeOK`, `StatusFitsScore`, `OnlyClosedSettled` | `SchedulerProofs` |
| `TrustIsProbed`, `AloneScoresAreExact` | `TrustTakesProbe`, `ScoresFollowChecks` | |
| `CitationsTypes`, `ShownCountsNeverAbove`, `LogIsFirst` | `CitationsTypeOK`, `CountsNeverAbove`, `ViewsFollowLog` | `CitationsProofs` |
| `AloneCountsAreExact`, `ThreadsAreTrees` | `CountsExactAlone`, `ThreadIsTree` | |
| `GatewayTypes`, `FilesIntact`, `ManifestsComplete` | `GatewayTypeOK`, `IntactUnlessCut`, `ServedIsComplete` | `PaidBlocksProofs` |
| `TokensArePaid`, `ClaimsStay` | `TokensAreSales`, `PaidStaysClaimable` | |
| `GatewaySells` | `SellsBlocks`: the gateway implements `BlockSale` | |
| `AdvertisedStaysHeld`, `PartialNeverWhole` | `AdvertisedIsHeld`, `NothingPartialAsWhole` | `ClientProofs` |
| `PaymentsArePursued` | `PaidIsPursued` | |

So every invariant, action property and refinement that a run confirms is proved as
well; in the statements "one slot" is `\A p, q \in Slot : p = q` (or a cardinality
of 1) and "no abort" is `aborts = 0`, the conditions of the run that checks the
property.

*Pools.* `PoolTypeOK` and `PoolLedger` are inductive. An overdraft needs more: a debit
that has passed its check covers the balance as long as no other debit landed
since, which is the invariant that ties `mark` to `debited`; every other step
either raises the balance or is such a debit. The royalty needs that the volume
a call has read is never above the present volume.

*Handlers.* That the coordinator implements `BountyPool` cannot be seen step by
step without an invariant: a handler that starts a request must find its slot
without a pending call. `IInv` is `PoolTypeOK` together with `TasksOK`, "no call is
pending where the handler does not await one"; under it each handler step maps to
`Call`, `Drop`, a pool step, or a stutter. The lemmas at the end of
`BountyPoolProofs` prove that once for the few shapes a handler step has, and both
refinements cite them. The theorems about pools then carry over.

*Sums.* `Total` is a fold of the community modules, so what it does is proved by
induction on finite sets. The library states induction for a predicate
parameter, which the provers cannot instantiate; `NatInduct` and `SetInduct` of
`TotalsProofs` state it for a set instead (the numbers, or subsets, for which the
claim holds), from the well-foundedness of `<`. From them: a total is a natural
number, grows with its terms, splits over a disjoint union, changes by what one
term changes by, and scales (`TotalScale`).

*Settlement.* `TypeInv` adds to `IInv` the types of tables and locals, and what a
handler has done so far: it sweeps pins, or awaits a debit, only when it has rows of
that CID; its batch is among the receipts. All else of the coordinator rests on it.

* One summary (`SummaryInv`). Rows are written one query each, and a duplicate key
  ends the run; a summary is logged after the last row. Of two batches of one epoch
  one contains the other, as receipts only grow, so they share groups, and whoever
  writes the row of one first makes the other run stop. As an invariant: two runs on
  an epoch, or a run and the batch of the run that logged the summary, are *apart*:
  one batch contains the other, and each group of both is still to be written by
  one of the two; so both cannot be done.
* Charges (`ChargesInv`). A run passes the guard only before the first row. Charges
  made and runs that may still make one are together at most as many as slots and
  aborts: while no row is there each charge is accounted for by a run still on the
  epoch or one that was stopped, and a run that ends has written rows.
* The log (`LogInv`). What the log credits, and what each handler has credited and is
  still to log, sum up to no more than the credits of the pools.
* Pins (`PinsInv`, one slot). Under one request at a time a debit is covered when it is
  awaited (`Solvent`), a sweep writes what the pins still are (`UpToDate`), and a
  pin has lost at most its rate for each epoch charged, less the one whose sweep is
  on its way (`Endures`, `Behind`). `duration * (budget \div duration) <= budget` gives
  the rest. `PinsEnd` needs only the types: no write names the status ACTIVE but
  the insert of a pin.
* Books (`BooksInv`, one slot). The step simulation needs that what is written is
  covered: rows in the table together with those still to be written (`Known`) are at
  most the charge plus the debit on its way (`Promised`); the rows of a CID not paid
  yet earn nothing, and while there are CIDs to pay the epoch has no row (`Early`).
  That a new debit covers its rows is `RewardsCovered`: each reward is a floor of a
  share of the cap less the fee, shares sum up to the whole, and the cap is at
  most the pool (`RewardsShareCap`, `CapUnderPool`, `CapCoversPayout`).

*Payments.* `PayInv` strengthens the types by `StoresAgree` and `HashesOwn`: a record
is stored under its own payment hash and its invoice exists, so that an invoice
LND hands out is in neither map, and entering it takes no other record away.
`CreditsStayBounded` is the answer to how often one payment can be credited. Two
posts may both find a request (`paid_once`), so `SingleUse` fails; but `CreditBound`,
"the credits of an invoice and the handlers that still hold a claim to it are
together at most as many as there are slots, and an invoice that was credited is
gone from the map", is inductive: a claim is taken only from the map, by a slot
that had none, and is spent by its credit. Hence `CreditsBounded` for any
finite set of slots, and with one slot `SingleUse` (`SequentialSingleUse`).

`EveryTipIsPaid` rests on `PaidInv`, "a record in the maps, and one a handler took, say
of the invoice what LND says of it (`Matches`), and past the lookup the invoice is
settled", and on `VolumeInv`, which writes the tipped volume as the sum over invoices
of credits times sats. `LogCountsCredits` is the case with nothing in flight of an
equation over all slots: the credits of the invoices of an event are its log
entries plus the handlers between credit and log (`LogInv`). `PaidStaysClaimable`
holds with one slot because then nobody is between the lookup of an existing
request and the storing of a new one (`Unrequested`), so that a record found by
payment hash is also the one found by event (`LeadsBack`); with two it fails, see
section 6.

*Hosts.* `StatusFitsScore` relates two columns that one step writes from what two
earlier steps read. It is inductive only together with `RunnersOK`, which says what a
runner in flight rests on: the host it holds has registered, what it read is
typed, and an epoch it settles has ended. It need not know that the status it read
is still the present one: `NewStatus` leaves no host TRUSTED on a low score, and
none untrusted on a good one, whatever it read. The proof goes over every query of
a run interleaved with registrations, restarts and other runs.

`TrustInv` follows the evidence backwards: a trusted host has a good score; a score
above zero, in the row or still in a runner, has a passed check behind it; and a
check passes only if the endpoint answers for the CID picked, which was announced
(`Backed`). Checks and announcements are never withdrawn. The theorem is for every
`Vouched`, so it assumes no host honest, and concludes nothing about what a host
holds: that follows only for an endpoint that answers for held blocks alone. `ScoresInv` is about a run that meets no other: at most one runner
is active, its epoch is the current one, and every host it has not still to score
has the score of its checks.

*Citations.* A count that a handler has read is written later, perhaps over a newer
one. `IInv` has, in `WorkersOK` and `CountsOK`, that neither a count in the table nor
one a handler holds is above the number of rows; rows only grow, and the sets
stay finite (`EdgesOK`, `LogOK`), so that cardinalities compare. `LogIsFirst` rests on
`WorkersOK` as well: a handler past the log has its entry in it.

`AloneInv`: where handlers neither overlap nor fail, the counts of all refs but those
the one at work has still to visit are those of the rows, and the count it holds
is exact. `ThreadInv`: a thread being read has found replies within so many levels of
its root, and of those it has left behind, every answer that was there at the
start, as long as the limit has room. The levels are a recursive function, of which
`NatInduct` gives what the proof uses. Nobody is found twice because a reply is
younger than what it answers (`Age`).

*Gateway.* `IInv` is the types of requests and tables, `Manifests` (a manifest in
memory, or whole on disk, has all its blocks on disk, where they stay),
`IntactUnlessCut` itself, and `Ledger`: a record in the map, and the terms a handler
took from it, are those quoted for the invoice. `TokensAreSales` and
`PaidStaysClaimable` follow, and under the invariant every step of the gateway,
the mint, Lightning or the coordinator is a `Quote`, `Pay`, `Sign` or `Credit` of
`BlockSale`, or a stutter (`GatewaySells`).

*Content under way.* Whether something announced is there depends on what the
command did several requests ago. `IInv` therefore has, next to the types of tasks,
what each rests on (`TaskOK`): an upload that comes to its asset has put the manifest
and its blocks, the files it counts as done are complete, a mirror cycle that
goes on to a variant or to the asset has copied the whole original. Gateways
delete nothing, so what one task rests on no step of another takes away
(`TaskStays`). For readers, `ReadOK` says that the blocks got, followed by those left
to get, are what the manifest wants; a file reassembled by hash is then the
manifest block for block, as the largest index that has a hash exists
(`LargestExists`), and a download that is full has every block in its place.

*Button.* `FortifyInv` has, next to the types, `ReportsOK` (a post that came back well, and
a success that is shown, is of a credited invoice) and `PursuitOK`: until a dialog is
closed or an answer crosses into a later session, every invoice shown but that of
the last session is credited, and the last one is credited, polled for, in the
hands of the wallet or of a post, or an error is on the screen. That a check is under
way is never needed, as the interval goes on whatever a check brings.

Assumptions beyond the types of the constants, each where the code justifies it:

* `FinitelyMany` (`Coordinator`): slots and pool keys are finite. Requests in flight are,
  and keys are hashes of fixed length. Sums over both must exist.
* `NoPaymentAssumption` (`PaymentIntents`): the empty place of a map is not a record.
* `HostsAssumption` (`Hosts`) leaves open what endpoints answer for: `Vouched` maps each
  host to any set of CIDs.
* `RefsLeadBack` (`Citations`): there is an order of events in which every event is younger
  than the one it answers; an id is a hash of the event, its `ref` included. The depth
  of a thread is at least 1, as in `getThread`.
* `Transfers` takes a finite, non-empty set of assets, none of which has the hash of a
  block, and files of at least one block: `upload` ends at once where a directory has
  no files, and `chunkFile` cuts one block also from an empty file.
* `CreditsStayBounded` and `LogMatchesCredits` take a finite set of slots, the
  sequential theorems one slot; each is in the statement of the theorem.
  `SettlementKeepsBooks` speaks of behaviours with no abort, `[](aborts = 0)`, `PinsLast` and
  `SequentialChargesOnce` of states before the first one: a settlement that is stopped
  after a debit has charged a pool without rows, which is what the code does.

Only model-checked: liveness, that is `HandlersFinish`, `SettlementLeavesRow` and
`LastEpochSettles` (TLAPS has no fairness). And what fails in general, `ChargedOnce`,
`LogRebuildsPools`, `SingleUse`, has counterexamples by TLC; of the first and the last
the sequential case is proved.

## 6. What the work found

Statements of the repository that the code does not keep (with a run that shows a
counterexample):

* `settleEpoch` is called idempotent in its comment and in the scheduler's. Two
  calls that overlap both pass the guard and both debit the pools
  (`settled_once`). `ChargesBounded` says how bad it gets, and `OneSummaryEvent` that
  the log still names the epoch once.
* `cancelPin` logs a refund the pool could not pay, so the log does not rebuild the
  pools, even with one request at a time (`log_replay`).
* A payment request is consumed after the lookup was awaited, so two posts of one
  event are both credited for one payment (`paid_once`); one request at a time
  that cannot happen, and with `n` in flight it happens at most `n` times: both proved.

Behaviour the models keep, worth a look of whoever maintains the code:

* *Payments.* Two overlapping `POST /payreq` put two invoices under one event hash. The
  earlier can be paid and never claimed, and its expiry removes the entry of the
  later: `PaidStaysClaimable` holds only one request at a time.
* *Pins.* A sweep that listed a pin before its cancellation writes a budget on the
  cancelled pin. The status stays, so the budget is neither drained nor refunded
  (`EndedPinsStayEnded`), but `remaining_budget` no longer says 0.
* *Scheduler.* "Auto-settles closed epochs" is true of the epoch before the current
  one; an epoch missed for a whole epoch is never settled.
* *Hosts.* A spot-check passes on the word of the host: any endpoint may be registered,
  any CID announced, and `{ verified: true }` from that endpoint is all that is
  looked at. A host that holds no block can be TRUSTED, where `docs/mvp/mvp_plan.md`
  calls the checks "proof-of-holding" (lines 20, 664). `TrustTakesProbe` says what
  trust does take. The window spans seven epochs where the comment says six; a host with no
  passed check turns INACTIVE at once where `physics/availability.ts` speaks of six
  epochs; the gateway answers a check of an asset root with 404, so a host behind one
  that announces only assets is never TRUSTED; registering again without an endpoint takes the endpoint
  away, and with it the checks.
* *Citations.* `storeProtocolEvent` is called idempotent; the log and the edges of an
  event posted twice are doubled. `skipDuplicates` on a table without a unique key
  skips nothing. A slower handler may write back an older count, which then stays.
* *Gateway.* A block file cut by a crash is acknowledged by `put`, and never
  repaired; a second `PUT` of an item that is being written truncates it. `PUT /asset`
  may be accepted on a manifest that is in memory only, and outlive it. An empty
  file is a free preview. `GET /cid` serves the bytes of a block without payment,
  where its comment says gated or free preview. A client that loses the answer to a
  paid request cannot ask again; and two requests with one preimage that overlap at
  the mint both get a block, one payment for two deliveries, although the record is
  called single-use where it is deleted (`routes/block.ts:179`): the gateway properties
  allow it, and the unique payment hash still leaves one credit. The gateway does not tell the epoch a token was
  signed for, and `verifyReceiptV2` does not compare the hash of the bytes with the CID.
* *Agent.* A CID counts as mirrored before it is announced, so a failed announcement is
  never repeated; "will retry on next cycle" of the registration has no retry
  behind it; whether a variant was mirrored is not looked at.
* *CLI.* The directory lookup of `fetch` ignores the CID and does not go on after a
  404; the asset object is not checked against its CID; a request whose answer
  timed out, also a POST, is sent to the next endpoint.
* *Web.* The one `pollRef` and `cycleRef` serve all sessions: a late check of a closed
  dialog stops the poll of the next one and takes over its dialog; overlapping
  checks post an event twice; of two animations one is never cleared, and resets
  the button for ever. A payment made after the dialog was closed is not posted.

## 7. Not modelled

* *Values and encodings.* Signatures, hashes, canonical encoding, Merkle trees,
  proof-of-work search: taken as valid and injective. Merkle proofs and the
  selection of challenged blocks have no caller outside tests.
* *Reads that change nothing*: feeds, market quotes, profiles, scorecards, signals and
  return on investment of `views/graph.ts` and `views/materializer.ts`, log paging and
  the replay script, the web pages that show them.
* *`computeGraphImportance`* has no caller; its floating-point ranking is also out of
  TLC's reach. So are the logarithms and powers of `physics`, other than as tables.
* *Single requests*: the commands `tip`, `fund`, `post`, `pin`, `hosts`, `info` and the key
  management of the CLI build one request each; the handlers it meets are modelled.
* *Previews of other types* than text and images: the web client shows their metadata and
  no content, so there is nothing that could pass for the whole.
* *Amounts that are not whole and positive*: the handlers of `POST /tip` do not
  validate them, and nothing says what they should do.
* *All of it at once.* The parts that meet only in a pool, a log entry or a score are
  checked apart: `PaymentIntents` and `Coordinator` both implement `BountyPool`, which is
  what either may assume of the other; `EpochSettlement` takes any uptime score;
  `Coordinator` takes any receipt that `BlockSale` could have credited. A single state with
  all of them is beyond TLC.
* Deployment scripts, logging, rate limits, formatting.
