# Verifying Yitu

Yitu (`backend/src/yitu`) is a logistics platform: customers order shipments, couriers and
stations move them, operators handle exceptions, returns and a knowledge base, an assistant
takes orders in a chat, and a worker delivers events, SLA scans, notifications and document
parsing. This directory holds TLA+
models of its core, the TLC runs that check them on small instances, and TLAPS proofs of what
must hold for every instance.

- `tlc -workers 2 -config <run>.cfg <MC module>` checks a run (`PROJECT.json`, "runs").
- `tlapm <module>Proofs.tla` checks the proofs.

Paths below are relative to `backend/src/yitu/` unless they begin with `docs/` or `README`.

## 1. The system

The API is FastAPI over async SQLAlchemy and PostgreSQL at READ COMMITTED. A handler is one
transaction: it either commits as a whole or leaves nothing. Three facts of this stack make the
program hard, and the models are built around them (with a fourth for the assistant):

1. **Load, then lock.** Many handlers load a row with a plain `get`, check it, and lock it with
   `SELECT ... FOR UPDATE` later. The session's identity map does not refresh an object that it
   already holds, so the code after the lock works on what was read before it.
2. **Commit, then send.** Celery messages are sent after a commit (the relay, uploads,
   reparses) or between two (`submit` and `poll`). Redis and `task_acks_late` redeliver a
   message whose worker went away, and acknowledge one whose task raised or whose process died
   alone.
3. **Two ways to move a status.** Fulfilment goes through a transition table
   (`shipments/state_machine.py`), recovery (`returns/service.py`) assigns the status.
4. **Two transactions in one request.** The assistant's workflow saves its checkpoint after every
   node, on an autocommit connection of its own; the rows its nodes write are committed when the
   turn ends. A rollback takes back the rows and not the checkpoint.

### Inventory

| Component | State | Operations | Talks to | Correct when |
|---|---|---|---|---|
| Shipment lifecycle (`shipments/`, `tracking/`) | status, methods, bound quote; tracking events with an idempotency key | create, confirm payment, reweigh, every status move | all fulfilment services | moves are legal, a closed shipment stays closed |
| Payments (`payments/`) | payment transactions (PAYMENT, SUPPLEMENT, REFUND) | pay quote, pay supplement, refund | lifecycle, dispatch | charged once, never refunded more than paid |
| Dispatch (`dispatch/`) | courier tasks | accept, confirm pickup (with reweigh), drop-off, origin arrival | lifecycle, payments | a task has one courier and fits the status |
| Linehaul, last mile (`shipments/linehaul.py`, `credentials.py`) | legs, pickup code, proof of delivery | dispatch, arrive, start and confirm delivery, pickup code | lifecycle | legs and proofs agree with the status |
| Exceptions and holds (`exceptions/`, `shipments/control.py`) | cases with a frozen status, holds | report, assign, act, resolve, close, reassign, resume | every fulfilment call (hold check) | a hold stops the parcel and can be released |
| Recovery (`returns/`) | recovery cases | cancel, redeliver, convert, intercept, return | lifecycle, payments, dispatch | refunds and tasks are settled with the status |
| Outbox (`platform/outbox.py`, `tasks.py`, `worker.py`) | events, dead letters, queue | append, relay, consume, fail | every writer of events, Redis | one effect per event, no event lost |
| Knowledge pipeline (`knowledge/`) | documents, text, chunks; MinerU tasks | upload, submit, poll, review, publish, withdraw, reparse, delete | Celery, MinerU, object store | what is published was parsed and reviewed; a round is parsed once |
| SLA (`sla/`) | stage instances, pauses, breaches | start, pause, resume, complete, scan | lifecycle, exceptions | clocks follow the stage, one breach per stage |
| Notifications (`notifications/`) | notifications, a delivery for each channel | handle event, deliver in batches, read | outbox | a notice exactly for a completed event, sent once and in the end |
| Agent (`agent/`) | conversations, drafts, grants, checkpoints | chat, fill and quote a draft, confirm, create, delete | shipments, pricing, knowledge | nothing is created in a pass without its confirmation, and for the price quoted |
| Pricing (`pricing/`) | rules, quote snapshots | quote, reweigh, create rule | orders, agent, dispatch | the list price, by the rule of the quote for good |
| Stations (`stations/`) | stations, service areas | create, update, enable, disable, delete, match | orders | one station for a district; none goes away that a row names |
| Addresses (`addresses/`, `regions/`) | the address book | add or reuse, update, delete | orders, agent | a deleted address stays what its orders say |
| Idempotent requests (`platform/idempotency.py`) | records, advisory locks | execute, replay | every router | a key does its work once and replays the answer |
| Chunking (`knowledge/chunking.py`) | blocks of a text while it is read | gather lines, split blocks | indexing | nothing lost, lists together, sizes kept |
| Identity, audit, labels | users, audit rows | sign in | all routers | |

Hard behaviours, with the lines where they bite, are the "hazards" of `PROJECT.json`.

## 2. What is modelled, and where

| Module | Models | Abstraction |
|---|---|---|
| `ShipmentStates` | the enumerations and transition tables | none |
| `ShipmentCore` | the rows of one shipment, `transition()`, the hold check, tasks, `resume_shipment()` | money in units; who acts is left out |
| `Payments` | `pay_quote`, `pay_supplement`, `refund_payment`, `confirm-payment` | the amounts a quote may have are `Totals` |
| `Dispatch` | accept, confirm pickup with and without reweigh, drop-off, origin arrival | weights only as the price they lead to |
| `LastMile` | legs, delivery, pickup code, proofs | the code's digits; a wrong code rolls back and changes nothing |
| `ExceptionCases` | a case's life, task reassignment | severity and owners |
| `Returns` | cancel, redeliver, convert to pickup, the three steps of a return | interceptions, whose row no code reads |
| `Fulfillment` | the composition: every call on one shipment, overlapping or not; the properties | one shipment: no handler touches two |
| `EventDelivery` | what the outbox promises: an event is appended, then handled once, given up once, or lost for good | |
| `Outbox` | relays, broker, workers, crashes, backoff, dead letters | an event is its row; time is `BackoffEnds` |
| `WorkCalendar` | working time: the next opening, adding hours, hours between two times | a day has a few units; days and hours are constants |
| `Sla` | the clocks of one shipment, the calls that move them, operators, breach scans and their locks | one clock per stage, one rule per stage |
| `KnowledgePipeline` | a document from upload to publication, workers, MinerU | a text is the attempt it came from |
| `Notifications` | the handler that makes notices, delivery runs, reads, on top of `Outbox` | channels never fail, as the simulated ones |
| `AgentCore` | rows of one conversation, what a session keeps and writes | a payload is parcel, route and quote id; a quote is the revision that made it |
| `AgentGrants` | grants, creation of shipments, the form's requests | who acts; time is `Expires` |
| `Agent` | turns of the workflow node by node, the checkpoint, deletion; the properties | the model's answer is any the node can make something of |
| `Pricing` | the calculator | none |
| `Desk` | the tables an order and the administration share, the requests under way | one customer; a package is its billable weight |
| `Stations` | administration of stations and areas, `match_station` | a station is its areas and whether it is enabled |
| `Booking` | idempotent requests, quotes, orders, addresses; the properties | |
| `Chunking` | lines into blocks, blocks into fragments | a line is its class; a block is its length and its breaks |
| `MC...` | symmetry for TLC | |
| `...Proofs` | TLAPS proofs | |

### How a call becomes actions (`Fulfillment`)

A handler that locks the shipment before it reads it is one step: PostgreSQL serialises it
(`LockFirst`). A handler that loads first is two: `Begin` keeps what it loaded (`Kept`: only
what it uses later), `Finish` is the rest up to the commit on those values. `Abandon` is an
error or a client that went away; the transaction rolls back. `Serve` is the same call with
nobody in between. A replay of a stored idempotent response changes nothing and is a stutter.
Request ids are fixed per shipment, task or payment in the routers, so the tracking keys are
the pairs in `Keys`; a move whose key exists is refused by the unique index or, in
`transition()`, answered by the old event: both are modelled in `TransitionFrom`.

Init is what `create()` leaves: a priced shipment, door pickup and home delivery (it refuses
station methods), both stations set, which every later call relies on.

### The outbox

`RelayClaim` selects due, unlocked, pending rows (`FOR UPDATE SKIP LOCKED`, at most `Limit`),
`RelayPublish` sends one message, `RelayCommit` marks them published and releases them. So a
message can be received before its row is published. `LockRow` waits for the row;
`Succeed`, `Fail` and `Skip` are the consumer's transaction; `Acknowledge` comes last
(`acks_late`). `RelayFails` and `WorkerFails` (a whole worker, or its connection to the broker)
roll back and redeliver. `TaskRaises` is an exception outside the handler's savepoint, at the row
lock, in `_record_failure()` or at the commit, and `ProcessDies` a task process that dies alone:
both roll back, and Celery acknowledges the message, because `acks_late` alone does not reject
(`task_acks_on_failure_or_timeout` and `task_reject_on_worker_lost` keep their defaults). The
history variable `dropped` remembers the events that lost a message so. `EventDelivery` has a
stage for those that nobody will look at again.

### The knowledge pipeline

Requests (`Upload`, `UploadQueues`, `Reparse`) commit before they send (`Send`); either may die
in between. The submit task is one transaction, MinerU included, then `Announce` sends the
polling message. A poll reads the task id (`PollReads`), talks to MinerU without a lock
(`MinerUAnswers`), and comes back in a second transaction (`Store`) or a third
(`MarkFailed`). A MinerU task and a parsed text are named by `parse_attempts`. `rounds` (how
often the document was queued) and `losses` (messages lost for good) are history variables.

### The SLA clocks

A call of the fulfilment is `LockShipment`, one `LockClock` for each row it is about to change,
and `FinishCall` at its commit. A scan is `ScanLoads` (the overdue clocks it will look at), then
for each `ScanMarks` (the first query after the assignment flushes the mark, so it waits for the
row) and `ScanReports` (a case, unless there is one), and `ScanCommits` for the whole batch. A new
case refers to its shipment by a foreign key, so a scan waits for the call that holds the
shipment, and a call waits for a scan that has marked its clocks: `Waits` says who waits for
whom, and `CallFails` and `ScanFails` let PostgreSQL abort any one transaction of a cycle, or, up
to `MaxFailures`, one for any other reason. `used` counts, unit by unit, the time a clock ran; it
knows nothing of the day-by-day arithmetic of `WorkCalendar` that it is compared with.

### The assistant's turns

A request of the chat (`Turns`) is `TurnBegins` (does the workflow wait for a decision?),
`TurnAppends` (the message is stored, which waits for the turn before: from then on the row of the
conversation is its own), one action per node, and `TurnCommits`. Each node moves `thread`, the
checkpoint, at once; what it does to the rows stays in its session, `req[r].work`, of which
`TurnCommits` writes the columns that changed. `Dies` rolls the session back and leaves the
checkpoint where it is.

What a turn does with the workflow follows from what it saw before it waited
(`agent/runtime/graph_runner.py:64`, `:76-82`), and by then the workflow may be elsewhere. If it
did not wait, the message is an input and a pass starts at `load_context` (`Restarted`), wherever
the last one stopped. If it waited, the word is sent as a decision, or as "defer" when it is none,
and LangGraph goes on with whatever the checkpoint says: at the confirmation, at an ordinary node
where another turn died in the meantime (`create_shipment` among them), or nowhere, if the
workflow has ended. After a "defer" the message starts a pass of its own (`StartsAgain`).
`thread.resume` is the word sent and not yet used, `thread.decision` the one the confirmation
returned, which is written before the next checkpoint and so outlives the turn; `thread.asked`
is a history variable: the model asked for shipping in this pass.

A request of the form (`Forms`) loads the draft in one step and writes in another, so two requests
can mix their columns. A session holds the draft it loaded only as long as something refers to it
(SQLAlchemy's identity map is weak), so `Reads` lets a node see the row as it was or as it is now,
unless the session has changed it. Creating the shipment is two steps, the grant and its
consumption. `Decided` classifies up to two tool calls; one whose arguments do not parse has been
dropped by the stream adapter before anybody counts them.

### Orders, quotes and stations

A keyed request takes the advisory lock and looks for a record (`Replays`, `Executes`), works,
and commits rows and record together (`Records`); the reply may be lost on the way and the
customer sends the key again. An order reads its addresses, matches a station for each end
(`MatchesOrigin`, `InsertsShipment`) and commits; from its insert on, the foreign keys pin both
stations. A request of the administration is split at every statement another can come between:
load, conflict query, the areas its DELETE finds, its writes, commit. `Insertable` is the unique
constraint that waits for an uncommitted area, `Duplicate` the one that fails; `Pinned` and
`BeingDeleted` are the two sides of the foreign keys. A quote is for the districts and the
services it was asked for; `QuoteMatches` compares the package of the order with it, as `create()`
does, and neither of the two.

### Chunking

`Read...` is the loop of `chunk()` for one line, with the line's class as its input; a block is
closed by `Flushed`. The classes are what the regular expressions tell apart: a clause is looked
for in the unstripped line where a list is cut (`Parted`) and in the stripped one elsewhere, so
an indented clause number is a class of its own. `TakeBlock` forgets the document and hands over
one block, of any length, with breaks anywhere, to `CutFragment`, the loop of `_split()` under
any policy its constructor accepts.

## 3. What the runs check

| Run | Instance | Shows |
|---|---|---|
| `FulfillmentMoney` | 3 tasks, 2 totals, 3 quotes, 2 payments, no overlap | `RefundWithinPayments`, `PaidOnce`, `SettledOnClose`, `CancelledIsFinal`, `TypeOK` of a system whose calls do not overlap |
| `FulfillmentRaces` | 2 tasks, 1 case, 1 courier; a payment, a refund or a call of the last mile overtaken by any others | `HeldCaseLive`, `LinehaulHasLeg`, `StationPickupHasNoCourier`, `DeliveredHasProof`, `HoldFreezes` |
| `Notices` | 2 events, 1 relay, 2 workers, 2 channels, 2 delivery runs of 3 rows, 1 crash of any kind; fair deliveries | `EffectOnce`, `DeadLetterOnce`, `NoticeMatchesEvent`, `SentOnce`, `EventuallyDelivered` |
| `OutboxDelivery` | 2 events, 2 relays, 2 workers, 2 failures of any kind, fair | `PublishedIsUnderway`, `EventuallySettled`, and that `Outbox` implements `EventDelivery` |
| `Knowledge` | 2 workers, 3 rounds, 2 messages of a kind, 1 loss | `OneTaskPerRound`, `StoredIsCurrent`, `DecidedStands`, `NothingStranded`, `TypeOK` |
| `SlaClocks` | a stage in working hours, one in natural time; 3 units a day, every other day off; 9 points in time, 3 requests of operators, 1 scan, 1 failure | `ClockIsFair`, `ClosingStopsClocks` |
| `SlaScans` | 2 scans at once, 2 clocks, calls, one request, all deadlocks; fair | `OneCasePerBreach`, `OverdueIsReported` |
| `Agent` | 2 turns and 1 form, any 2 of these requests at once, over and over; 2 edits, 2 parcels, 1 grant | `QuotedParcel`, `CreatedOnConfirm`, `ShippingWasAsked`, `DeletedLeavesNoThread` |
| `Booking` | 2 requests of customers and 2 of the administration at once, 3 in all; 2 stations, districts, addresses, packages, base fees and kinds of service, 1 order key, 1 quote key | `OneShipmentPerKey`, `PricedForItsPackage`, `HeavierNeverCheaper`, `OneStationPerDistrict`, `StationsOfRowsExist`, `TypeOK` |
| `Chunking` | documents of 5 lines of any class, blocks of 8 characters, policies up to 5 | `NothingLost`, `ListsHoldTogether`, `FragmentsCover` |

Two runs whose names begin with `Claim` check one sentence of the documents or comments each,
and TLC finds it broken (section 5).

**Bounds.** Two tasks let an old and a new courier task coexist, three let a redelivery follow a
reassigned pickup. One request under way is enough for every stale snapshot, because all other
calls may run to completion meanwhile; the proofs do not need the bound. Three quotes allow a
reweigh up and another down. Two events, relays and workers are enough for two relays to race for
a row and for a message to overtake its row's commit. Three rounds let a poll of the first round
come back after a second was finished and a third begun. Three days of three units, the second
off, let a target, a pause and a shift each cross a night and a day of rest, and three requests
pause and resume a clock and stop it. One crash in `Notices` may be a relay, a worker, a task, a
lone process or a delivery run, and a batch of three of four rows makes runs share them out. The
broker of `OutboxDelivery` has room for one message more than there can be failures
(`MaxMessages`), so a relay never waits for room, as it never does in the code. Two edits let the
payload keep the quote of a revision that is gone. Two requests of the assistant at once
(`MaxActive`) are a turn and the one that resumes what it leaves, a turn and a form that
overtakes it, or either and the deletion; a third only repeats a pair, and the proofs need none
of these bounds. A conversation whose grants are used up is left alone or deleted (`Begins`), and
a grant expires between requests, because only `consume_grant` can tell. Three requests of the
desk are two that overlap and one before or after them, on a desk that already has stations and a
quote; a station can be emptied, deleted and asked for at once. Quotes are asked from one of the
two districts (`Origins`), which reaches both routes, because a route is the same in both
directions, and from door to door or from station to station (`Services`), the dearest and the
cheapest. Five lines hold an opening, a list, a blank line, and what follows; eight characters
and a size of five need up to eight fragments. Nothing is bounded by omission: every bound is a
constant in a guard.

`CHECK_DEADLOCK FALSE` because all these systems may rightly stop: a shipment delivered, an
event settled, a bound reached.

**Fairness of `SlaScans`.** Beat starts a scan every five minutes and a transaction that can go on
does (`WF` of `ScanLoads`, `ScanCommits`, `FinishCall`); PostgreSQL serves waiters for a lock in
turn, so one that can have the lock again and again gets it (`SF` of `ScanMarks`, `ScanReports`,
`LockClock`); and of a deadlock in which a scan takes part somebody is aborted, here at the latest
that scan. Time, operators and new calls need not go on.

**Fairness of `Notices`.** Beat starts a delivery run every five seconds and a run that has its
rows ends (`WF` of `TakeBatch` and `DeliverBatch`). Whether an event is ever handled is left
open here, and crashes may happen up to the bound.

**Fairness of `OutboxDelivery`.** Beat starts a relay every five seconds (`WF` of each
relay's steps), a worker that is up takes a message and ends its task (`WF` of `Receive` and of
its steps), and a backoff runs out. Nothing makes anybody append an event, or a crash happen.
Failures of handlers may repeat: the attempt limit, not fairness, ends them. The two other failures
can lose both messages of a batch, or one message of an event that was relayed twice.

## 4. What is proved

For any numbers of tasks, cases, couriers, requests, events, relays, workers and any bounds:

- `FulfillmentProofs`: `TypeOK`, `HeldCaseLive`, `HoldFreezes`, `DeliveredHasProof`,
  `LinehaulHasLeg`, `StationPickupHasNoCourier`, all for `Spec`, that is, with any number of
  overlapping calls on stale rows. The invariant is `TypeOK` strengthened by what a request under
  way may rely on (`Sound`): a stale status may say anything, but a task it names exists and a
  supplement it takes is positive. Each property is then inductive relative to it: holds are
  checked on locked rows, legs and proofs are written in the same step as the status, and every
  way to station pickup ends delivery tasks first. Steps are taken action by action; calls common
  to `Serve` and `Finish` are proved once, for any snapshot.
  For `SerialSpec`, where calls do not overlap: `RefundWithinPayments`, `PaidOnce`,
  `SettledOnClose`, `CancelledIsFinal`. Their invariant `Account` says why a reweigh, which may
  assign any status and refund any difference, never meets an early or a cancelled shipment: it
  needs a pickup task in a courier's hand, a task that was taken is never on offer again, so
  taking one always moves the status on, and no call leads back to the early statuses, in which
  nothing is refunded. `CalmStep` settles the calls that neither charge, refund nor take a task.
  Two theorems say how much overlap these promises bear. `CouriersMayBeOvertaken`: all four hold
  of `Spec` if the calls that are overtaken only load tasks and proofs before they lock the
  shipment (`confirm_pickup`, `start_delivery`, `confirm_delivery`). `OnlyChargersNeedTheLock`:
  refunds stay within payments and a quote is charged once if just `pay_quote`, `refund_payment`
  and the reweigh are not overtaken; every other call may commit on rows of any age. Its invariant
  is not `Account`, which a late `confirm_payment` breaks (it revives a cancelled shipment), but
  `Books`: a payment or a `refund_payment` leaves the key of `confirm_payment` behind, so the
  status that allows the next one is never reached again. The condition is sharp: TLC finds a
  refund beyond the payments with any one of the three overtaken, and a second charge with
  `pay_quote`.
- `OutboxProofs`: `TypeOK`, `EffectOnce`, `DeadLetterOnce`, `PublishedIsUnderway`, and the safety
  half of the refinement of `EventDelivery`, in which an event that is lost stays lost.
  The invariant `IInv` adds who holds which row lock: a busy worker holds its job's row exactly
  while it is in its transaction, and a relay has sent only rows it holds, all still pending.
  Without it a second consumer of a redelivered message could be inside the same row.
- `KnowledgeProofs`: all five properties of the run. Types and `OneTaskPerRound` need each other
  (an attempt is in range because its round is), so `TInv` is their conjunction with `ParsedOnce`.
  `NothingStranded` is inductive relative to it because of how `Carries` is defined: for a QUEUED
  document only submit messages count, for a PARSING one also polls that will read, or have read,
  its current attempt.

- `SlaProofs`: all three safety properties and `TypeOK`, for any calendar, stages, target, number
  of scans, failures and requests. The invariant `IInv` (cases, closing) says that scans never
  share a clock and that a scan has opened a case exactly for those of its clocks that have none
  (`Sound`): the query for an older case comes after the row lock, and nobody else can open one
  before the commit.
  `ClockIsFair` rests on what the calendar computes. A recursive function satisfies its own
  equation only if some function does, so `WorkCalendar`'s are first shown to be what a formula
  without recursion describes. The rest is an argument by the least amount, or number of days, for
  which it could fail: `AddsWorkingTime` (`add_work_hours()` lands exactly the asked number of
  working units later) and `CountsWorkingTime` (`work_hours_between()`, a sum over workdays, is
  the number of working units between two times). With them `Fair` is inductive: what counted up
  to the promise, plus the time used, is the target plus what counted up to now, or up to the pause.
- `AgentProofs`: all four properties of the run and `TypeOK`, for any number of turns, forms and
  grants, requests at once and edits. The invariant has two more parts. `Flow`: only one turn is
  past its first write (`TurnsHoldLock`), the flags in the checkpoint are those of the pass it is
  in, wherever turns stop and whichever resumes it (`FlagsOfThisPass`: they are down when the model
  is asked, and only the decision to confirm leads to `create_shipment`), and a deletion that has
  removed the checkpoint still keeps turns out (`StaysForgotten`). `Money`: a grant that was issued
  names complete fields, and a shipment under way or committed a quote that exists and fits.
  `CreatedOnConfirm` is an action property and follows from `Flow` at `create_shipment`.
- `BookingProofs`: all six properties, for any districts, stations, prices, keys and requests.
  `Inv` adds that a request is alone with its key (`WorksAlone`), that stored answers are true
  (`AnswersTrue`), that quotes are what the rule says, and a reweigh has the rule and the services
  of its source (`Quoting`), that a request's deleted and
  added areas pair up so that any order of commits leaves districts whole (`Settled`), and who may
  refer to a station that is being written (`Referring`). The lemmas on `CeilDiv` show that the
  calculator's units are the half kilograms begun and grow with the weight; `CalculationIsList`
  that it charges the list price for every pair of services.
- `NotificationsProofs`: `NoticeMatchesEvent` and `SentOnce` over the whole outbox below them; the
  steps of `Outbox` are reused through `OutboxProofs`' invariant.
- `ChunkingProofs`: `FragmentsCover`, for a block of any length, any policy and any breaks, and
  `NothingLost` and `ListsHoldTogether` for documents of any length and any lines. `ReadInv` says
  of the loop at any line what the properties say at the end: `Gathering` that the lines are in
  order in the closed blocks and the open one, each under its last heading and within its pages,
  `Listed` that a list nothing but blank lines and page markers has followed is still open, which
  is what lets the next item join it.

Assumptions are the named ones in the modules (bounds are natural numbers, the actors' sets are
disjoint) and that Init's rows are those the code creates.

**Only model-checked:** the liveness half of `DeliverySpec`, `EventuallySettled`,
`EventuallyDelivered` and `OverdueIsReported`: liveness under fairness and ENABLED are out of
the prover's reach. Every other property of the passing runs is stated by a theorem. No module
uses RECURSIVE.

## 5. Where code and documents disagree

Each of these has a run (`PROJECT.json`, "findings"):

- `ClaimReview`: a review during parsing makes a document without text publishable.
- `ClaimConsumed`: a turn of the chat consumes a grant and commits without its shipment.

Met while modelling, visible in the modules, without a run of their own:

- A refund that overlaps a cancellation refunds twice (`payments/service.py:100`;
  pricing-rules.md:64): `RefundWithinPayments` holds in `FulfillmentMoney`, and as long as the
  calls that charge or refund on loaded rows are not overtaken (section 4).
- After a refused pickup the plain `confirm_pickup` skips the supplement
  (`dispatch/service.py:69`; pricing-rules.md:62 forbids the departure).
- The old courier signs off a parcel that waits at a station, without a code
  (`shipments/credentials.py:46`; prd:173).
- An exception of the consumer's transaction outside the handler's savepoint (the database is
  lost at `platform/tasks.py:40`, the row lock, `_record_failure()` or the commit), and a task
  process that dies alone, lose a published event for good: `acks_late` acknowledges the message
  and the relay looks at pending rows only (`worker.py:47`; prd:609). So `PublishedIsUnderway` and
  `EventuallySettled` name these events and promise the rest.
- A draft that was ordered can be made ready again by a form that read it before
  (`agent/domain/drafts.py`), and a second shipment comes of it; the comment at
  `agent/domain/grants.py:123` says this is prevented.
- A tool call whose arguments are no JSON object is dropped, and what is left may be a valid
  single call (`agent/infrastructure/model_adapter.py`).
- A shipment keeps the ids of its addresses, and an address can be changed afterwards
  (`shipments/models.py:12` speaks of a snapshot).
- A turn that saw the workflow wait resumes it wherever the turn before it stopped
  (`agent/runtime/graph_runner.py:64`, `:76-82`). If that one was told to confirm and died at
  `create_shipment`, a late "cancel", or the draining of a confirmation before another message,
  creates the shipment, though a cancelled confirmation is answered with "no shipment will be
  created" (`agent/workflow/nodes/shipment_nodes.py:75`). If it had started a new pass instead, a
  late "confirm" confirms a draft whose card was never shown. So `CreatedOnConfirm` speaks of the
  decision the pass has taken, and not of the word of the turn.
- A quote for handing in and fetching at stations passes for an order from door to door, which
  then costs 400 cents less: `create()` compares weight and sizes only
  (`shipments/service.py:190`; pricing-rules.md, section 4, charges door pickup and takes the
  discount for fetching). The districts of the quote are not compared either. So
  `PricedForItsPackage` is the list price for the services of the quote.
- A quote has no end of validity; pricing-rules.md:57 promises one.
- A clause number that follows other text is cut off from its clause by a blank line
  (`knowledge/chunking.py:114` says it is kept); a clause that is indented joins the list before
  it (`knowledge/chunking.py:157`, `:159` match the line unstripped, `:113` does not), and so
  does one that introduces a list of its own (`:144` exempts it, `:141` speaks of any new
  clause); headings of one level become each other's parents when a document begins below level 1
  (`knowledge/chunking.py:102`).
- Two overlapping `pay_quote` calls with different keys both charge: the status checked under the
  lock is the one loaded before it (`payments/service.py:41`; pricing-rules.md:63). `PaidOnce`
  holds in `FulfillmentMoney`, and as long as no `pay_quote` is overtaken (section 4).
- The task of a redelivery can be accepted by nobody (`returns/service.py:256`; prd:131, prd:143).
- Recovery assigns statuses the table does not allow, e.g. PENDING_PICKUP to RETURN_APPROVED
  (`returns/service.py:295`; README.md:49 says illegal moves are refused).
- A reweigh to a lower price refunds the difference (`shipments/service.py:475`);
  pricing-rules.md:61 keeps the quote and refunds nothing.
- `refund_payment` cancels a shipment and leaves its courier task open (`payments/service.py:107`;
  prd:128 closes it).
- A reassigned pickup task can be accepted by nobody (`exceptions/service.py:284`).
- Scanning a departure twice adds a second leg (`shipments/linehaul.py:40`; prd:558).
- Payments, supplements and refunds move a held shipment's status (prd:119); `HoldFreezes` says
  exactly which statuses, and that nothing physical moves.
- An overlapping payment revives a cancelled shipment (`payments/service.py:40`).
- A reparse takes the published version offline before the new one is parsed
  (`knowledge/lifecycle.py:32`; prd:600 keeps the old one in service).
- A late failure of an old MinerU task fails a newer round (`knowledge/tasks.py:101`).
- The count of wrong pickup codes is rolled back with the refused request
  (`shipments/credentials.py:92`; prd:171 locks the code).
- Every stage's clock runs until DELIVERED (`sla/service.py:60`); sla-rules.md:39-41 ends the
  pickup when it is confirmed and the linehaul on arrival. A paused clock even survives DELIVERED,
  may be resumed and breach a shipment that has arrived.
- A resume moves the promise (`sla/service.py:256`); sla-rules.md:60 freezes it.
- A stage completed late by hand, or by the delivery, is marked breached and gets no case
  (`sla/service.py:309`; sla-rules.md:55).
- Exceptions never pause a clock: nothing calls `pause_for_source()` (sla-rules.md:32, :50).
- The seeded linehaul rule counts working hours (`demo/seed.py:114`); sla-rules.md:20 says natural
  time.
- A repeated `pause` is called idempotent (`sla/service.py:181`) and is not when it overlaps
  another.

## 6. Not modelled, and the plan

1. **Lock order**: the order in which cases and shipments are locked, as a waits-for graph;
   operators' requests on one clock that overlap (`sla/service.py:82`, `:183`).
2. **Fulfilment as an abstract shipment** (ordered, on the way, closed), as a refinement.

Hazards no property covers, besides those listed with a note in `PROJECT.json`: tasks of a
redelivery or reassignment that nobody can accept, two cases that froze different statuses and can
never be resumed together (`exceptions/service.py:345`), a refused pickup that goes on unpaid: all
known not to hold, see section 5. Two updates of one station can leave it with the areas of both
(`stations/admin_service.py:221`), and two requests can add the same address twice
(`addresses/router.py:41`): the models show both, no document forbids them. The stream of
notifications may skip one that commits late with an early time (`notifications/sse.py:34`); it has
no state of its own and no model.

Left out for good: identity and roles (every guard about who may call), read-only views, text of
notifications and labels, prompts and tools of the agent that only read, retrieval and ranking
(numeric), migrations, deployment and the frontend. The crash inside MinerU's submit transaction
bills a task that no row remembers; `parse_attempts` and so `OneTaskPerRound` speak of committed
attempts only.
