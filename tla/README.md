# Specification of ivyticketing

TLA+ modules for the parts of ivyticketing (a Go backend on PostgreSQL, with an offline
scanner app) in which several actors change shared rows: the sale of an event category's
seats and the callbacks that pay for them, the waiting room, access codes and ballots in
front of the sale, the messages and race day behind it, and the results of races and
competitions. TLC checks small instances of every module; TLAPS proves the main safety
properties of eight modules for every value of their constants.

    tlc -workers 2 -config MCOrderFlow.cfg MCOrderFlow
    tlapm OrderFlow_proofs.tla

Paths below are relative to the repository; `modules/` is
`services/api/internal/modules/`.

## 1. The system

Three binaries share one PostgreSQL database: the API server (`cmd/api`), the webhook
receiver (`cmd/webhook`) and one or more workers (`cmd/worker`). A request runs in a
goroutine; a worker runs each job (release the queue, expire admissions, expire orders,
retry notifications, export reports, dispatch webhooks) in a goroutine with a ticker of
its own. Nothing is shared in memory: all coordination is rows, row locks, unique indexes
and `WHERE status = ...` guards, at READ COMMITTED, and many operations are several
statements without a transaction. Redis holds a best-effort copy of the queue's positions.

| Component | State | Operations | Interacts with |
|---|---|---|---|
| inventory | `event_categories.capacity`, `inventory_reservations` | CheckAndLock, Reserve, Release | orders, payments |
| orders | `orders` | Checkout, GuestCheckout, Cancel, RefundOrder, ClaimOrder, ExpireOrders (worker) | inventory, access grants, queue hook |
| payments | `payments`, `payment_webhooks` | CreatePayment, ProcessRaw, Reconcile | gateways, orders, tickets, billing, ballot |
| queue | `queue_tokens`, `queue_admissions`, `queue_control` | Join, Release and ExpireDue (workers), ConsumeOnCheckout (hook), Pause, Resume, SetRate, SetSchedule | registration gate, orders |
| access | `access_pools`, `access_grants`, `access_codes` | Redeem, CheckPriorityAdmission, AdjustTotalSlots, revocation | orders, ballot |
| ballot, waitlist | `ballot_draws`, `ballot_entries`, `ballot_draw_results`, `waitlist_entries` | OpenDraw, CloseDraw, Apply, Withdraw, RunDraw, AnnounceDraw, WinnerExpirer, PromoteBatch | access, payments |
| tickets, racepack, scanner | `tickets`, pickup records, slots, `idempotency_keys` | issue, BIB, ExecutePickup, CheckIn, UpdateSlot | scanner app |
| scanner app | operations and ticket states in IndexedDB | scan offline, SyncEngine.syncNow | scanner and racepack API |
| notifications | `notifications` | Enqueue, sendAsync, RetryJob | mail server |
| competitions | stages, matches | CreateStage, RecordMatchScore, GetStageStandings | none of the above |
| results and timing | `timing_passings`, `bib_transponder_mappings`, `race_results` | IngestPassings, AssignMapping, ProcessTiming, ImportCSV, DeleteAll | tickets (bibs, waves) |
| billing | fee ledger, payouts | RecordOrderFee, CreatePayoutRequest | payments, orders |
| enterprise | webhook deliveries | Emit (has no caller), Dispatcher | customer endpoints |

`PROJECT.json` lists every component, also those that are CRUD or read-only and are not
modelled, and under `hazards` each place where this code can go wrong in a way a test
hardly reaches.

What is hard, and what makes each component correct:

* **Sale.** A checkout counts reservations and paid orders in two statements while
  payments, cancellations, expiries and refunds commit without the category's lock. No
  seat may be taken beyond capacity, an order and its reservation must agree, a sale is
  whole (payment, ticket, fee) or absent, no buyer passes the order limit, a grant admits
  once, closed orders stay closed, every hold ends.
* **Callbacks.** The gateway repeats, reorders and delays callbacks, sends them before
  the payment's row exists, and hangs up. A payment settles once and keeps its result; a
  duplicate has an original.
* **Waiting room.** Both jobs of every worker and the hook after a checkout act on rows
  they read before. Tokens keep to their life cycle, nobody is stranded, everybody in the
  line is let through.
* **Entitlements** (access, ballot). Slots, uses and grants are counted by separate
  statements: no more grants than places, no more successes than uses, one draw whatever
  is retried, grants for its winners only.
* **Race day** (tickets, racepack, scanner). One check-in and one pickup per ticket
  although a scanner repeats itself; only the scan that made the record is told it was
  first; no scan leaves the queue undone; a slot's counter covers its pickups.
* **Messages.** At-least-once delivery that settles, and is given up only when due.
* **Competitions.** Pairings in which everybody meets once or the seeds meet late; the winner,
  also a corrected one, is who plays on; tables that do not depend on chance where the results
  or the names decide.
* **Timing.** Overlapping or interrupted runs over readings that keep coming in, and chips
  that change hands: each result by the rules, no reading lost.

## 2. Modules

| Module | Content | Proofs |
|---|---|---|
| `SeatLedger` | abstract: seats of one category are free, held or sold | (refined by OrderFlow) |
| `OrderFlow` | checkout, cancel, expiry, payment, refund of one category; implements `SeatLedger` | `OrderFlow_proofs` |
| `Webhook` | the callbacks and reconciles of one payment, statement by statement | `Webhook_proofs` |
| `AdmissionQueue` | the waiting room of one event | `AdmissionQueue_proofs` |
| `PoolSlots` | the statements on a row of `access_pools`, shared by the next two | |
| `AccessPool` | one pool: code redemption, priority admission, use of grants | `Pools_proofs` |
| `BallotDraw` | one draw: applications, draw, announcement | `Pools_proofs` |
| `Gate` | scanners, their offline queue, check-in and pickup | `Gate_proofs` |
| `Notifications` | one email, its first sender and the retry jobs | `Notifications_proofs` |
| `Fixtures` | round robin and single elimination generators | |
| `Bracket` | one elimination stage under racing result calls | |
| `Standings` | football, generic and badminton tables | |
| `Stage` | composes the three above | `Stage_proofs` |
| `RaceTiming` | readings, chips, processing and results of one race | `RaceTiming_proofs` |

The `MC...` modules hold the values of the constants TLC runs with. In every module the
operators named `Mut...` are not part of the model: each is a plausible bug in the
operator below it, used to see that a property notices. `PROJECT.json` maps every
definition to the lines it models.

### OrderFlow

One category, because every lock and every count in the code is per category. An element
of `Orders` is a checkout attempt, and after its commit the row of `orders` with its one
reservation. A transaction's writes appear when it commits, so a step is either a
statement whose result another transaction can make stale, or a commit.

| Action | Code |
|---|---|
| `LockCategory`, `CheckCapacity` | `inventory.CheckAndLock`: lock and first count; second count and test. Two steps, because the counts are two snapshots |
| `CheckOrderLimit` | the eligibility test and the count of the buyer's open orders in `Checkout` and `GuestCheckout` |
| `CommitCheckout` | CreateOrder, Reserve, grant validation and ConsumeAccessGrant, COMMIT |
| `GuestReserveFails` | the guest's reservation violates a foreign key |
| `Rollback` | every other way a checkout's transaction ends |
| `DeadlinePasses`, `ExpireOrders` | time, and one run of the expiry worker over the rows it could lock (SKIP LOCKED) |
| `Cancel` | `Cancel`, whose UPDATE repeats the status test |
| `CreatePaymentRead`, `CreatePaymentInsert`, `CreatePaymentFails` | `CreatePayment`, which holds no transaction across the gateway call |
| `ApplyPaid`, `ApplyUnpaid` | the transaction of `Processor.apply` when it commits (reconcile, or a second worker of the same payment) |
| `LapseWinner` | `ballot.WinnerExpirer`, one winner |
| `WriteBallotEntry` | UpdateBallotEntryStatus by id alone: `AnnounceDraw`'s WINNER, repeated or overlapping, and a late `Withdraw`'s WITHDRAWN |
| `RefundRead`, `RefundWrite` | `RefundOrder`: read without lock, unguarded UPDATE |
| `UpdateCategory` | the organizer's edit of capacity and order limit |

The flow starts when the draw has marked its winners and nobody has checked out. The
statements of the announcement are in `BallotDraw`; what they can do here to a winner's
entry is `WriteBallotEntry`, at any time, since a repeated or overlapping announcement, or a
withdrawal that read the entry long ago, names it by id and not by status. Such a write can
put the CONVERTED entry of a winner who has paid back to WINNER (section 4). The history
variable `overwritten` holds the entries so written since a payment last converted them, and
`PaidWinnerConverted` is stated for the others: no checkout, payment, expiry, lapse, cancel
or refund of the sale itself leaves a paid winner unconverted.

`ApplyPaid` here is the settlement as a whole; `Webhook` opens it up. Fees are recorded
for every sale here (the code records one when the organization's package has a fee; the
receiver binary has no fee recorder, but its settlements do not commit, see below).
Names, prices, order numbers, forms and notifications are left out.

### Webhook

One payment. The reason for a module of its own is that `ProcessRaw` works on two
connections: the settlement's transaction holds the payment's row FOR UPDATE and calls
`MarkWebhookProcessed` on the pool, whose foreign key on `processed_payment_id` must lock
that row. So the request waits for itself (`ApplySettlement`, state `marking`) until its
context is cancelled (`HangUp`), and the transaction is rolled back. Paths that mark the
webhook without a payment id do not block (`ApplyNothing`), and a reconcile marks nothing,
so its settlement commits (`ReconcileApply`). `Callbacks` are records of what the
processor can tell about a body: JSON or not, signed or not, parsed or not, right amount,
result.

### AdmissionQueue

One event. A participant has at most one token (a unique index) and the token at most one
ACTIVE admission (another), so `window[p]` is that row's id or 0; closed rows are kept only
as the ids that jobs and hooks have read (`due`, `held`), and an id nobody holds may be
used again. `line` is the WAITING tokens in the order of the index (pool, then score).
Scores are abstracted to four bands: presale below the clock, presale requeued, presale
above the clock, FIFO. A FIFO score is `UnixNano`, about 1.8e18; a presale score is
uniform below 2^63, about 9.2e18, so both presale bands are inhabited.

| Action | Code |
|---|---|
| `Join` | `Join` of somebody without a token (a second Join changes nothing) |
| `StartRelease`, `Promote` | `ReleaseJob`: read a batch, then one transaction per token |
| `StartExpiry`, `ExpireOne` | `ExpireDue`: read the overdue rows, then one transaction per row, which requeues the token even if the row is closed by now |
| `WindowPasses` | time reaches `checkout_expires_at` |
| `CheckAdmission`, `PlaceOrder` | the gate before a checkout, and the checkout itself |
| `ReadWindow`, `ConsumeWindow`, `CompleteToken`, `HookFails` | the three statements of `ConsumeOnCheckout`, in no transaction, error ignored |
| `SetState`, `SetRate` | Pause, Resume, SetRate once the control row exists |
| `ReadControl`, `WriteControl` | the read and the later upsert of `SetSchedule`, and of `ensureControl` when there is no row |
| `SaleStarts` | time reaches `sale_start_at` |

The clock is one clock: scores taken on different hosts are assumed ordered as they are
inserted. The Redis mirror is left out: the release and expiry jobs and the gate read only
PostgreSQL.

### PoolSlots and AccessPool

One pool and one code of it. A call of `Redeem` or of `CheckPriorityAdmission` is a
process that goes from `idle` over its statements to `answered` or `failed`; no statement
shares a transaction with another.

| Action | Code |
|---|---|
| `RedeemCheck`, `TakePlace`, `WriteGrant`, `CountUse` | `CodeService.Redeem`: the tests, ReservePoolSlot, CreateAccessGrant, the guarded IncrementCodeUseCount |
| `PriorityCheck`, `TakePlace`, `WriteGrant` | `PriorityChecker`: the window, the caller's ACTIVE grants, then as above |
| `CallDies` | a statement fails or the request ends; what is done stays |
| `RevokeCode`, `AdjustTotalSlots` | the organizer; the time limit of the code |
| `UseGrant` | a checkout consumes the grant |

### BallotDraw

One draw and its winners' pool. Only SetBallotDrawSeed is guarded (`SeedIsFree`); every
other write is by id alone, so a status read may be written over (`late`, `asking`).
`Shuffles` lets the seed stand for any order.

| Action | Code |
|---|---|
| `AskStatus`, `WriteStatus` | `OpenDraw`, `CloseDraw`: test, then write |
| `AskEntry`, `WriteEntry` | `Apply`, `Withdraw` |
| `CheckDraw`, `CommitSeed`, `LoadEntries`, `InsertResult`, `EndInserts`, `MarkEntries`, `CreateWinnerPool`, `LinkPool`, `FinishDraw` | `RunDraw`, one action for each statement or loop round |
| `CheckDrawn`, `ListWinners`, `TakeWinnerPlace`, `CreateGrant`, `ConsumePlace`, `MarkWinner`, `EndGrants`, `FinishAnnounce` | `AnnounceDraw`, likewise |
| `RunDies`, `AnnounceDies` | a statement fails, the process stops |
| `SettleWinner` | the winner's order is paid, or the deadline passes (the race of the two is in OrderFlow) |

### Gate

One event's race day. An op is one scan with its Idempotency-Key. `queue` and `cached`
are the scanner's IndexedDB and survive a `Restart`; `todo`, `current`, `phase` are a run
of `SyncEngine.syncNow` and do not. `at[op]` are the copies of the op's request the server
is working on; a copy whose client is gone goes on, or dies at any step (`HangUp`).

| Action | Code |
|---|---|
| `ConfirmOnline`, `EnqueueScan` | `ConfirmAction.svelte`, `enqueueScan` |
| `StartSync`, `SendNext`, `AnswerLost`, `Retain`, `FailOp`, `MarkProcessed`, `RemoveOperation`, `Restart` | `syncNow` with `classifyFailure`; the two writes of DRAIN are two steps |
| `Lookup`, `Store`, `Reply` | the handlers of check-in and pickup around the transaction |
| `CheckIn` | `scanner.CheckIn`, one transaction with the ticket locked |
| `LockPickup`, `CommitPickup` | `ExecutePickup` from the locked ticket to the commit |
| `Refuse` | every refusal before a write |
| `ReserveSlot`, `UpdateSlot` | a place reserved in advance; the organizer's new capacity |

### Notifications

One row. `Enqueue` inserts it and starts the goroutine; `List`, `Attempt`, `LookupFails`,
`Record`, `RecordFails` are a pass of the retry job, whose query has FOR UPDATE SKIP
LOCKED but no transaction, so it claims nothing; the goroutine reads the attempts only
after it has sent (`ReadAttempts`). `Stop` ends a process, `BackoffEnds` is the time until
`next_retry_at`. A mail may be taken without the sender hearing of it.

### Fixtures, Bracket, Standings, Stage

`Fixtures` has GenerateRoundRobin (the circle method) and GenerateSingleElimination (the
order of seeds, byes carried on) as functions of the number of entries; a fixture of a
group is known by its round and place, its running number is left out. In `Bracket` a
call of RecordMatchScore is a READ COMMITTED transaction of three steps: `WriteScore`
(its match, now locked), `CheckDownstream` (the next match read without a lock), `Commit`
(the winner written downstream under the guard SCHEDULED, or all rolled back), or `Abort`.
`Standings` computes the three tables from the completed matches and from the order in
which Go's map yields the rows, which is left open. `Name` is a constant function, because
nothing keeps two entries from having one display name (in lower case, as they are
compared). In `Bracket` the request may name any entry as the winner: `Named` are entries
besides the two sides, and the history variable `sidesWin` is true while every winner stored
is a side of its match. `Stage` is the stage of either type:
`RecordEliminationScore` is a step of Bracket, `RecordGroupScore` one statement.

### RaceTiming

One race. The mats, aliases, tickets and waves are constants: a run reads them once and
nothing else changes them here. `Readings` are rows known by their idempotency key, so an
ingestion sent again changes nothing.

| Action | Code |
|---|---|
| `Ingest` | `IngestPassings`, one INSERT ... ON CONFLICT DO NOTHING |
| `DeactivateBib`, `DeactivateChip`, `InsertMapping` | the three statements of `AssignMapping`, errors of the first two ignored; the unique indexes (`MappingIsFree`) |
| `ReadMappings`, `ListPassings`, `ListNothing` | `ProcessTiming` up to the processor; the policy falls back to the default when it cannot be read; `Limit` is the code's 5000 |
| `Score` with `Kept`, `StartTime`, `FinishTime`, `Status`, `Adjudicated` | `ProcessEventPassings` for one bib |
| `UpsertResult`, `MarkProcessed`, `RunDies` | the loop over the outputs (the order of a Go map), the mark, whose error is ignored, and an end at any point |
| `ImportRow`, `DeleteAll` | a row of `ImportCSV`; the results page |

`ByRules`, the reference the results are compared with, states the metrics and statuses of
docs/concepts/competition-engine.md (lines 24 to 35) and the race's policy without the
algorithm (docs/TIMING.md has other statuses, see section 4): a set of counted readings
characterised by the debounce rule, times that are earliest or latest in it, and the status by
cases.

## 3. Runs

| Run | Instance | Checks |
|---|---|---|
| `order_flow` | 3 checkouts, 2 users, 2 payments, 1 grant, 1 winner, capacities {1,2}, limit 1, 1 refund, the winner's entry overwritten at any time; symmetry on orders and payments | types, `SeatAgreesWithOrder`, `SaleIsWhole`, `OneActivePayment`, `GrantAdmitsOnce`, `PaidWinnerConverted`, `NoOversell`, `OrderLimitKept`, `ClosedOrdersStayClosed`, refinement of `SeatLedger` |
| `order_flow_live` | 2 checkouts by a user and a guest, 1 payment, 1 grant, capacities and limits {1,2}; no symmetry | `HoldsEnd`, `CategoryLockFreed` under `FairSpec` |
| `webhook` | 2 deliveries of 7 kinds of callback, 2 reconciles | `SaleFollowsPayment`, `DuplicateHasOriginal`, `FinalPaymentKept`, `ReconcileEnds` under `FairSpec` |
| `webhook_ack` | 2 deliveries of genuine callbacks, no reconcile | `AcknowledgedIsApplied`, which the code violates |
| `queue` | 2 participants, 2 workers, 1 checkout, rate 1; symmetry on workers | types, `NobodyStranded`, `TokenLifecycle` |
| `queue_live` | 2 participants, 1 worker, 1 checkout, presale | `WaitingIsAdmitted` under `FairSpec` |
| `access` | 3 redemptions of a code with 2 uses, 2 priority admissions, 2 participants, pools of 2 and 4 places | `GrantsHavePlaces`, `AnsweredWithinUses` |
| `ballot` | 2 entrants for 1 place and 1 on the waitlist, 2 RunDraw, 2 AnnounceDraw | types, `OneDrawOnly`, `DrawnIsWhole`, `GrantsGoToWinners` |
| `gate` | 1 ticket, 1 scanner, 2 check-ins, 2 desk pickups, 2 copies of each request, 1 loss, capacities {0,1} | `DrainedIsRecorded`, `FirstIsOwner`, `SlotCovers`, `FirstScanKept` |
| `notifications` | goroutine and 2 retry jobs, 3 attempts, 2 faults | `OutcomeIsEarned`, `Settles` under `FairSpec` |
| `stage` | bracket of 5, 2 racing calls for the matches of one path, winners named from the sides, seeds 2 and 6 (no entry of the bracket); round robin of 4 with three results, two of the four entries of one name | `WinnerPlaysOn`, `StartedKeepsSides`, `SeedsMeetLate`, `EveryPairMeetsOnce`, `TablesStable`, `BadmintonByRule` |
| `race_timing` | 2 bibs, 1 disputed chip, 3 readings, 2 overlapping runs made again and again, 2 policies, listings of 2, 1 loss | `ResultsByRules`, `NoReadingLost` |

Why the bounds are enough for the cases of interest.

* *Sale.* Three checkouts against one seat is the least that has one holding, one counting
  and one waiting for the lock while a payment and an expiry commit; two payments is the
  least that lets two CreatePayment calls race, and a late settlement meet a newer payment.
  `MaxRefunders` bounds refund calls.
* *Callbacks.* Two deliveries are a callback and its retry; with two reconciles a stale
  answer of the gateway meets a newer one.
* *Waiting room.* Two workers is the least in which one requeues what the other has just
  let through. `MaxWindows = 3` is never reached in the runs (a larger value gives the same
  states): two workers and a hook can name three rows of a participant, one of which may
  still be ACTIVE.
* *Entitlements.* Three redemptions of two uses is the least in which the last use is
  refused at the count; two calls of each of the draw's operations is the least in which
  one overlaps, or retries, the other; two entrants for one place have a winner and a
  waitlisted one, and a shuffle that differs from the list.
* *Race day.* Two scans of a ticket make an owner and a duplicate, two copies of a request
  the one that goes on after a loss and its retry. Capacity 0 closes the slot.
* *Messages.* Two jobs and the goroutine are the three senders a row can have; two faults
  and three attempts let a stale count come in at the limit.
* *Competitions.* Five entries have byes, two rounds to correct and a final; a group of four
  can have ties of two and of three, and pairings are also checked with one entry more. Two
  entries of one name are the least for which the tables' last tie-break decides nothing; the
  named winners include a top seed of another match and one that is nowhere in the bracket.
* *Timing.* A chip given to one runner and then to the other, a runner known by bib and by
  chip, a repeated reading, and a listing that is cut off; the two policies reach every status
  but PENDING_REVIEW, which takes the way of DSQ.

Symmetry is used in safety runs only. `CHECK_DEADLOCK FALSE` stands where the system
really may stop: all orders closed (OrderFlow), all requests answered (Webhook), every
call at its end (Access, Ballot), every scan drained (Gate), a notification settled
(Notifications). The waiting room, the stages and the timing never stop, because the
organizer may always act, so there deadlock is checked.

Fairness. A request that has begun goes on and ends (a Go handler has no wait but locks
and the database); time passes; the workers' tickers fire again and again, also after a
restart; a gateway's HTTP client gives up on a request in the end (`HangUp`), as every
client with a timeout does; a send has a timeout and a backoff ends. Weak fairness is
enough everywhere. Nothing a person or the gateway decides to do is fair: nobody must
check out, pay, cancel, refund, join, resume, deliver or retry. `WaitingIsAdmitted`
assumes in its premise that the queue stays running and that presale tokens stop coming
back; without the second, presale no-shows can keep FIFO joiners waiting for ever.
`Settles` rests on `MaxFaults`: statements do not fail for ever.

Configurations outside the listed runs: `MCGateLive.cfg` passes and shows, for a smaller
instance, that a queued scan is drained or fails in the end (`ScansSettle`), given that the
browser reports a connection again and again. The others find the behaviours of the next section.

## 4. Where the code and the repository's words differ

`webhook_ack` is a run: after a settlement has blocked on itself and rolled back, its
dedupe key stays, and every retry is answered as a duplicate. `PROJECT.json` (`findings`)
quotes the lines. Each configuration below states in one property what a document, a
comment or the interface promises, and finds a behaviour of the code that does otherwise.

| Configuration | Property | The code |
|---|---|---|
| `MCOrderFlowRefund` | `RefundedAtMostOnce` | two refund requests both record a refund (unguarded UPDATE, `modules/orders/service.go:520`) |
| `MCOrderFlowTickets` | `TicketsWithinCapacity` | a refund frees the seat but the ticket stays valid; `NoOversell` holds all the same, it counts what the code counts |
| `MCOrderFlowGuest` | `GuestCheckoutStores` | no guest checkout can commit: its reservation violates a foreign key |
| `MCOrderFlowConverted` | `ConvertedIsTerminal` | docs/superpowers/plans/2026-06-08-phase9-11-roadmap.md:88 calls CONVERTED terminal; `AnnounceDraw` (`modules/ballot/service.go:362`) writes WINNER, and `Withdraw` (`:557`) WITHDRAWN, by the entry's id alone, so a repeated or overlapping announcement puts the entry of a winner who has paid back to WINNER |
| `MCWebhookStored` | `AnsweredIsStored` | a body that is not JSON is acknowledged and not stored |
| `MCAdmissionQueueRequeue` | `RequeuedToTheBack` | a requeued presale token does not go to the back |
| `MCAdmissionQueuePause` | `PausedUntilResumed` | a schedule request under way undoes a Pause |
| `MCBallotDrawHash` | `HashNamesEntry` | docs/BALLOT_ENGINE.md:32 and 34 let anyone recompute a result's hash from its entry; `RunDraw` computes outcomes and hashes for the shuffled ids and stores the i-th with the i-th entry of the list ordered by id (`modules/ballot/service.go:269`), so the winners are the entries with the smallest ids whatever the seed |
| `MCRaceTimingWhole` | `WholeRunnerScored` | a run lists only what no run has processed, and the upsert replaces the row: a finish processed after its start is scored without it (docs/TIMING.md section 3: net time is from the start mat) |
| `MCRaceTimingStatuses` | `FourStatuses` | docs/TIMING.md:101-103 knows four statuses and makes a runner over the cut-off DNF (line 66: one who missed a split too); the code, like docs/concepts/competition-engine.md:28-35, has OTL and PENDING_REVIEW, gives OTL over the limit, and for a missed mandatory mat what the race's policy says |

Stated in the modules and known not to hold, without a configuration: `CodeGrantsWithinUses`
(AccessPool: a redemption refused at the count leaves its grant usable,
`modules/access/code_service.go:96`), `RetryCompletes` (BallotDraw: a RunDraw interrupted
after its seed is never completed, `modules/ballot/service.go:236`), `HeadToHeadFirst`
(Stage: the comment at `modules/competitions/scoring.go:58` puts the match between two
level sides before goal difference, the comparator after it) and `RetriedInBackground`
(Gate: a queued scan is sent again only when the browser reports a change of network).

Met while reading:

* An event without a control row is never released although its status shows RUNNING;
  `docs/workflows/checkout.md` describes an Idempotency-Key that `Checkout` does not read.
* The football and the generic table depend on the order of a Go map when three entries
  are level on every column before the head-to-head (`TablesStable` excludes that case).
* All three tables depend on that order when two entries of one display name are level to
  the end: the last comparison is of lower-cased names (`modules/competitions/scoring.go:173`,
  `:370`, `:422`, `:517`), and nothing keeps names apart (migration 00066, line 143).
  `TablesStable` and `BadmintonByRule` except such pairs (`NoTwins`, `BadmintonTwins`).
* `RecordMatchScore` stores and advances any `winnerId` it is given
  (`modules/competitions/service.go:629`; migration 00066, line 126): an entry of another
  match can play on, and two top seeds meet early. `SeedsMeetLate` is stated while every
  winner stored is a side of its match; `WinnerPlaysOn` and `StartedKeepsSides` hold all the
  same.
* A pickup need not name a slot (`modules/racepack/service.go:254`, `:321`); then it touches
  no counter. `Gate` has the pickups that name one.
* AdjudicateEntry cannot record a result: it writes NULL points into a NOT NULL column.
* `AnnounceDraw` lists APPLIED entries and then skips all but WAITLISTED ones, so nobody
  joins the waitlist; no code gives a waitlist a pool; enterprise `Emit` has no caller.
* The mails after an announcement use the request's context, which ends with the request.
* Payout requests read the balance and insert later without a lock.
* AssignNextBib does not look whether the ticket has a BIB, a manual BIB of many digits
  overflows the MAX of the next one, and the sequence of docs/concepts/bib.md is not there.
* `ProcessTiming` marks the readings of a bib whose upsert failed; readings of chips with
  no bib stay at the head of every listing of 5000; a policy that cannot be read is
  replaced by the default without a word; ranks are by gun time where docs/TIMING.md says
  net time, and a result corrected to DNF keeps its rank, since the ranking statements
  write FINISHED rows only.

## 5. Proofs

All constants are arbitrary within the named assumptions (`ASSUME ...Assumption`) of the
module; TLC evaluates these on every run. A bound such as `MaxWindows`, `MaxCopies`,
`MaxLosses` or `MaxFaults` is a parameter like any other, so the theorems hold for every
value of it. Each proof module has one lemma per action or group of actions, one step per
conjunct an action can disturb, and a last step by PTL.

**OrderFlow_proofs** (assumptions: capacities and limits are positive, users and guests
are disjoint, grants have owners, orders are finitely many). `TypeCorrect`, `SeatsAgree`,
`NeverOversold`, `ClosedForGood`, `LedgerImplemented` rest on `IInv`; `SalesAreWhole`,
`OnePaymentOnly`, `GrantsAdmitOnce`, `PaidWinnersConverted` on `SaleInv` above it; the last
says that an announcement's or withdrawal's write by id is the only way a paid winner's
entry can read anything but CONVERTED.
`NoOversell` is not inductive: a commit may exceed the capacity unless we know what the
checkout knew. So `IInv` adds who has the lock (`LockInv`: a transaction is open exactly
when its checkout has the category), that an order has a row only after its commit
(`RowInv`), and what the lock protects (`AdmissionInv`): between the two counts the first
can only have become too large, since only the checkout with the lock adds a hold, and
once admitted there is a free seat until the commit. The one step that could break this, a
payment between the counts, moves an order from `Held` to `Sold`, so it is counted twice
and never lost. The order of the two counts in the code is what makes this true: counting
the paid orders first breaks it, as the mutant `MutCounts` shows. Lemmas about the
cardinalities of `Held` and `Sold` (`SeatSteps`, `SeatsOnlyShrink`) carry the arithmetic.
`SaleInv` adds which payment and which grant belong to which order. `LimitKept` needs
`LimitInv` besides: a checkout that has passed the count of its buyer's open orders still
finds them below the limit at its commit, because nobody else can add one, or change the
limit, while it has the category (`LimitUnderLock`, `ActiveOrdersSteps`).

**Webhook_proofs**. `TypeCorrect`, `SalesArePaid`, `DuplicatesHaveOriginals`,
`FinalPaymentStays`. The invariant says who can hold a dedupe key (a delivery whose row is
stored and whose callback is known) and what a transaction still open knows of the payment:
that it is PENDING. A row once stored stays, hence every duplicate has its original.

**AdmissionQueue_proofs** (every call has a participant, the default rate is a rate).
`TypeCorrect`, `NeverStranded`, `LifecycleRespected`. Two facts are missing from the
properties themselves. `EachOnce`: no token is in the line twice, else letting it through
once would leave it in the line as ALLOWED. `HookAfterOrder`: the hook of a checkout is
under way only for a participant whose order is made, so the one step that closes a window
without requeueing its token, `ConsumeWindow`, strands nobody. The other, `ExpireOne`,
requeues an ALLOWED token in the same transaction, also when the row it had read is closed
by then. `InsertInLine` and `RemoveFromLine` are the facts about sequences.

**Gate_proofs**. `TypeCorrect`, `DrainsAreRecorded`, `FirstsOwn`, `SlotsCover`,
`FirstScansStay`. A record is only made of a ticket that has none; for a pickup because
the ticket's row stays locked from the test to the commit. So what an answer, a stored
answer or a run of the scanner says of a ticket stays true however late it is used: the
invariant states this for each of these places, and for the slot that the pickups recorded
inject into the places counted.

**Pools_proofs**, the two components that issue grants from a pool.

*AccessPool* (finitely many calls). `AccessTypeCorrect`, `PlacesCoverGrants`,
`UsesRespected`. A call owns a place from ReservePoolSlot on, first with nothing to show
for it and then with its grant, and no failure gives a place back: `Placed` never
outnumbers the places taken. For the uses: every answered redemption was counted once.

*BallotDraw* (any number of entrants, at least one place; any calls). `TypeCorrect`, `DrawsOnce`,
`DrawsWhole`, `GrantsEarned`. Only the call of RunDraw that sets the seed ever draws
(`DrawerInv`). It lists the entries while there is no row, so the rows are always a
beginning of its list, in order (`ListsInv`, `RowsInv`): ranks are distinct, and the
winners are those below the quota. DRAWN is written only behind the whole list, and every
announcement has read it (`WholeInv`), so from then on the set of winners stands still.
Winners are marked, listed and granted only from these rows (`WinnersInv`), and the pool
is made once, before any place of it can be taken (`PoollessInv`), so `PlacesInv` may
count: the grants, and the announcements that have a place and no grant yet, never
outnumber the places reserved and used. Without that second term the invariant is not
inductive, since an announcement that dies between the two keeps its place.

**Notifications_proofs**. `TypeCorrect`, `OutcomesEarned`. Every count a sender may write
is covered by the passes made (`tries`). A job counts on from the attempts it has listed
and adds its own pass. The goroutine reads the attempts only after its pass, so until it
has written, its pass is set aside (`Aside`): what it reads is covered by the others.

**Stage_proofs**, for any number of entries and calls and any matches and statuses they are
made for. `WinnersPlayOn`, `SidesKept`, `TypeCorrect`: a call holds the lock of its match's
row, so the sides it has read are the sides until it commits, and no two calls are at one
match; it writes the next match only while that is SCHEDULED, and only the side that is its
own (two matches with one successor have different sides).

`SeedsKeptApart`: the order of seeds for 2^(k+1) places puts a seed of the first half at home,
in the pair that stands for its place in the order for 2^k places (`StrongerAtHome`).
`SeedsInv` says of every player that, if it is strong enough to be expected in the next round,
it is where the order for this round's places puts it; going on keeps that, whichever side
wins. It is stated while `sidesWin`, every winner stored being a side of its match: a named
winner who is of neither side may be a strong seed of another part of the bracket. So its
opponent is of the other half, and two of the first 2^j seeds cannot meet before 2^j are left.
`PairsMeetOnce`, for groups of every size: after r rounds every team but the first has moved
on by r places (`CircleAt`); the places of two teams add up to those of opposite places in
exactly one round (`OppositeOnce`), in which nobody else has them.

Powers of 2, the seeds' order and the circle are recursive functions up to a bound. That
such a function exists for every bound, and that those of two bounds agree, is an induction;
it is stated over a set of numbers (`Inductive`), which the provers can instantiate.

`TablesAreStable` and `BadmintonIsByRule`, for groups of every size and any results. Two
entries meet once, so they cannot both have beaten the other (`BeatsOneWay`); without three
level entries, and without two of one name that are level and have not beaten each other, the
comparator is then a strict order (`BeforeIsStrict`). The sort puts each row at its place,
also where the comparator leaves a pair undecided (`SortMakesTable`), and two lists of the
same rows in one such order are equal (`TablesAgree`), so no order of Go's map shows; this
last step also covers groups of more than twelve, which sort.Slice sorts by another method.
The badminton table is split into groups level on a column, which hold the rows of one value
each (`BucketsAreRows`), and the groups are joined again (`JoinedGroups`). So it ranks by an
order built from the names up (`NameOrder`, `RallyOrder`, `GamesOrder`, `WinsOrder`), and
`WinsOrderIsTheRule` reads the cited rules off it, whatever the names. A pair stands in it
both ways only if the two share their name and every column (`OpenPairsAreTwins`); without
such a pair there is one table. Which three are level does not matter here: the next column
compares them all, and two are always left to the match they played.

**RaceTiming_proofs** (the assumptions say what the columns of a reading, a mapping and
a policy are). `TypeCorrect`, `ReadingsKept`, `ResultsRight`. The argument has two halves.
The first is about the algorithm: the code scans the readings in the order of time and
keeps in a map the last one counted at each mat, the rules speak of sets and of
earliest and latest times. `KeptCounts` shows that the scan's result is the one set that
agrees with the debounce rule, for every finite set of readings and whatever the order of
readings with one time; `FirstAndLast`, `ElapsedTime` and `ScoreByRules` then lead from
this set to the times and the status. That the recursive function behind the scan exists
and what it yields after n readings is an induction; it is done by the least n for which
it fails (`Smallest`), because the prover cannot use the library's induction theorem. The
second half is about the steps: what a run has listed stays received, a run in progress
scores bibs by the mapping it read, and a result is always such a score of readings that
one run listed together (`Scored`), so no overlap can mix two runs.

Only model-checked: liveness (TLAPS has neither fairness nor ENABLED). The type invariants of
Webhook, Gate, AccessPool, Notifications, Stage and RaceTiming are proved and are in no run
(their runs spend their time on properties that could be wrong).

## 6. Not modelled, and the plan

What could follow: payouts against the balance (a sum over every sale and refund of an
organization), BIB assignment, and the rank columns of race results.

Left out, with the reason:

* `waitlist`, `enterprise` webhooks: the branches with a protocol are unreachable (above).
* CRUD and permissions (organizations, members, roles, events, forms, teams and rosters,
  timing configuration, whitelabel): single statements with no rule between rows.
* Read-only reporting, exports, certificates, status pages.
* Authentication, rate limits, captcha: they only refuse requests, and no request must be
  made in the models.
* The parsers of timing providers and gateways' wire formats: what they yield is the input
  of the models.
* The web application, and the platform libraries (logging, audit, storage).

Much of the source is of these kinds (handlers, generated queries, views), so the map
covers the lines in which rows change under a rule and little of the rest.
