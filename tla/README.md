# TaskBrick back end: TLA+ models and proofs

The TaskBrick back end is a NestJS application: controllers call services,
services read and write one Postgres database through Prisma, a BullMQ queue in
Redis hands workflow runs to workers, and a few cron jobs start work by
themselves. Several instances of the application run against the same database
and the same queue.

Almost every handler is a sequence of awaits - read a row, check it, write by
id - and almost none of the writes is guarded by what was read. What the program
does is therefore decided by how handlers interleave, by what the database
guarantees (one statement is atomic, unique keys, foreign keys, row locks in a
transaction) and by what the queue does when a worker is slow or dies. That is
what is modelled here: handlers as processes that take one step per await.

Paths below are relative to `src/` of the repository.

## Inventory

| component | state | operations that matter | what makes it correct |
|---|---|---|---|
| workflow engine (`workflows.service.ts`, `workflow-queue.service.ts`, `workflow-run.worker.ts`) | workflows, nodes, runs, queue jobs | create, run, trigger by event, enqueue, execute, retry, cancel, edit, archive, delete | no run is forgotten or executed more often than it was asked for; idempotency keys; a run ends |
| workflow scheduler (`workflow-scheduler.service.ts`) | `lastRunAt`, slot keys | a scan every minute in every instance | one run per slot, a due workflow runs again |
| approvals (`workflows.service.ts`) | definitions, approvals, steps | create, decide, cancel, reopen | a decision rests on its steps; a decided approval stays decided |
| platform console (`platform-admin.service.ts`) | the same rows, from outside | retry and cancel runs of any tenant | what it promises to the operator |
| boards and sprints (`agile.service.ts`) | sprints, boards, columns, task placement | start and complete a sprint, move tasks, default board | one active sprint, WIP limits, no task in a completed sprint |
| authentication (`auth.service.ts`) | sessions, refresh hashes, lockout counters, one-time tokens | login, refresh, logout, revoke, verify, invite | a revoked session stays dead, the lockout bites, a token is used once |
| time tracking (`time-tracking.service.ts`) | timers, entries, timesheets | start, stop, edit, submit, approve, reject, reopen, cancel | submitted time is locked, minutes are counted once |
| meeting reminders (`meetings.service.ts`, `meeting-integrations.service.ts`) | meetings, reminders, reminder jobs with attempts | schedule, deliver, retry, cancel | a pending reminder is in somebody's hands, and is given up only after its attempts |
| public booking (`booking.service.ts`) | bookings, the meetings they make, links | list slots, book, move, cancel | no host is booked twice, limits hold, booking and meeting agree |
| webhooks (`integrations.service.ts`) | deliveries, failure counters | publish, deliver, retry | attempts counted, a delivered one stays delivered |
| billing (`billing.service.ts`) | provider events, the subscription, the tenant's status | webhook, subscription change, plan change, cancel | an event is applied once or says why not, the tenant follows its subscription |
| AI actions (`ai.service.ts`) | actions, usage | create, run, cancel | an action runs once, a cancelled one never |
| tasks, QA (`tasks.service.ts`, `qa.service.ts`) | keys, hierarchy, test runs | create, move under a parent, gate | keys unique, no cycle, the summary is current |
| the rest | administrative rows | single updates and reads | nothing that two requests race for |

Components meet in three ways: through the tables (an approval node of a
workflow inserts an approval, the console writes the engine's run rows and the
tenants' subscriptions, a booking makes a meeting), through
the queue (requests and the scheduler add jobs, workers take them), and through
direct calls of services. `PROJECT.json` lists every component with what is
modelled of it, and the hazards of the code with their lines and the properties
that watch over them.

## Modules

| module | what it is |
|---|---|
| `WorkflowRuns` | the engine: requests, queue, worker slots, and edits of workflows |
| `RunLifecycle` | what the engine promises about a run, without processes |
| `WorkflowRunsProofs` | theorems about the engine |
| `WorkflowLifecycleProofs` | theorems that count executions: the refinement of `RunLifecycle`, and the engine beside the console |
| `Approvals` | approvals, with decisions as transactions |
| `ApprovalsProofs` | theorems about approvals |
| `PlatformRuns` | `WorkflowRuns` composed with the platform console |
| `WorkflowScheduler` | the engine's cron: scans, slots and time |
| `WorkflowSchedulerProofs` | theorems about the cron |
| `Timesheets` | one user's timer, entries and timesheets, and the minutes of tasks |
| `TimesheetsProofs` | theorems about time tracking |
| `Reminders` | a meeting's reminders, their jobs and the cron that delivers them |
| `RemindersProofs` | theorems about reminders |
| `BillingEvents` | provider events, the subscription and the tenant's status |
| `BillingEventsProofs` | theorems about billing |
| `Bookings` | public booking pages: slots, bookings, their meetings |
| `BookingsProofs` | theorems about booking |
| `MCWorkflowRuns`, `MCApprovals`, `MCPlatformRuns`, `MCWorkflowScheduler`, `MCTimesheets`, `MCReminders`, `MCBillingEvents`, `MCBookings` | instances for TLC |

### WorkflowRuns

A process (`Handler`: an HTTP request, `Slot`: one of a worker's concurrent
processors) has a program counter `pc`, the run `cur` it works on and, for
requests, what it was asked (`ask`). Each action is one await of the code and
what follows it up to the next: `RunWorkflow` is the lookup, `CreateRun` the
insert, `EnqueueRun` the call of the queue, `ExecStart` ... `ExecEnd` the body of
`executeRun`, in a slot or, when the queue is unavailable, in the request.
`TriggerEvent` runs each matching workflow in turn. Edits (`CreateNode`,
`ReplaceNodes`, ...) are one step: they read only to answer 404.

`run`, `wf`, `nodes` and `kind` are the tables. A node is an id and what matters
of it: does its failure stop the run. `todo` is the snapshot of the nodes an
execution works from, so that edits and executions can disagree.

`job` and `held` are the queue: waiting, active under a lock, done, or failed for
good. `Throw` is BullMQ's answer to an exception (another attempt, or the last
one), `StalledJob` its stalled check, `LostLock` a lock that expires under a slot
that is alive. `Crash` ends any set of requests and slots at once; rows and
jobs stay. A queue call whose reply is lost is one of the outcomes of
`EnqueueRun`. `lost` and `grants` are history: runs whose last executor died
outside the queue or used up its attempts, and executions a run was granted.

What a node does (create a task, send mail, call a webhook) is its outcome only;
text, logs and audit records are left out, except where their failure changes
control (the log line's foreign keys).

### RunLifecycle

A run has a status, a number of executions owed to it and a number of cancel
requests under way. Only an owed execution writes RUNNING, COMPLETED or FAILED,
and an execution that ends leaves an open run only to another one that is owed,
unless one was dropped. `WorkflowRuns` implements it with owed = processes that
work on the run + jobs that will be delivered.

### Approvals

Creation, `cancelApproval` and `reopenApproval` are a read and a write;
`decideStep` is a read (`DecideRead`) and the three statements of its
transaction: update the step and lock it (`LockStep`), read all the steps
(`Tally`), write the approval and commit (`Settle`). At READ COMMITTED the tally
sees committed rows and its own update, which is what `Seen` says. `cancel` and
`reopen` lock the approval and then steps; a decision that holds such a step
needs the approval next, and Postgres ends one of the two: `Overrule` or
`GiveWay`. `said` remembers the decisions since the approval was opened,
`overlap` the approvals on which two requests were at work at a time.
`currentStep` only orders the list an approver sees and is left out, as are
comments, due dates and who may decide.

### PlatformRuns

Adds administrators of the console to the engine: a read and an unguarded write
of a run row, and no queue.

### WorkflowScheduler

Time is a counter; `Minute` units lie between two ticks of the cron, so that an
execution may complete, or a scan take its next step, between two ticks.
`ScanStart` reads the rows and the clock once (`enqueueDueScheduledWorkflows`),
and every later step of that scan works on this snapshot: `ScanRow` handles one
row of it (the insert is refused by a foreign key, or skipped because the
key `schedule:<workflow>:<slot>` is taken, or done), `ScanEnqueue` is
`queueOrExecuteRun`, `ScanReturn` the end of an execution that the scan had to
wait for. `Scanner` bounds the scans under way at a time, of one instance or of
several. `ScanFails` is an instance that dies in a scan or a call that throws,
`MissTick` a minute in which nothing scanned.

How a run is executed is the matter of `WorkflowRuns`. Here an execution is with
a worker, with the scan or with nobody, it ends in one step, and what matters of
it is whether it wrote `lastRunAt` (`ExecComplete`). An inline execution whose
job was stored after all is one of `WorkflowRuns`' behaviours and is not repeated
here. The workflows of `Extra` are also run and retried by users, at any time.
`Tick` keeps the delays of the program below `Patience`, which is what "in time"
can mean for the cron; it does not order anything that happens at the same
time. The look-up of the user a run acts for is left out: it finds the creator
of the workflow, whom no code deletes.

### Timesheets

One user's rows: a timer, entries and timesheets (`time-tracking.service.ts`). A
request reads and checks (`UpdateRead`, `SheetRead`, `StopRead`, ...), then writes
by id, then computes `actualMins` of the tasks it touched, each by an aggregate
(`SyncRead`) and an update (`SyncWrite`). A change of a sheet's status is one
transaction whose first statement locks the sheet's row, so it is one step.
`actual` keeps the summands of a total instead of the number: two totals that are
equal by chance do not hide a wrong one.

Who may act, periods and overlaps of a sheet with others, rates and billable
flags are left out. Three histories name the exceptions the code makes: `torn`
are entries that an edit wrote below a sheet that had been locked since the edit
was checked; `blurred` are tasks whose total no request has computed undisturbed;
`discarded` are timers that were thrown away.

### Reminders

One meeting. A request (`createMeeting` ... `retryReminderJob`) writes the
meeting or the reminder and goes on to the jobs with one upsert per reminder;
a scan of the cron reads the due jobs, marks each PROCESSING, delivers it and
records the outcome. `due` is a job's `nextAttemptAt` against the clock,
`TimePasses` makes it true. Scans overlap, in one instance or in several, and
none looks whether another has the job: `ScanState` keeps what
`processReminderJob` keeps of the row it read, the attempts among it. `Deliver`
is the outcome of mail, WhatsApp, inbox or webhook. The three ways to end badly
are steps of their own: a request that ends between its writes (`RequestDies`), a
scan that dies (`ScanDies`), and a transaction that fails after the delivery, so
that the catch block counts a failure (`SentFails`).

### BillingEvents

One tenant. `Receive` is a delivery by Stripe or Paystack; `InsertEvent` the unique
insert of its row, which makes it a duplicate or not; `FindStripe`, `FindCharge`,
`FindPaystack` or `FindInvoice`, then `WriteSub`, `WriteTenant` and `SettleEvent`
the statements that apply it. Administrators change or cancel the
subscription by the same two statements, the platform console by one of them.
An event is a record of what matters: its kind, the key its row gets, the
subscription it is about, the status it carries and whether its metadata names
the tenant. For Paystack several events may have one key, because
`paystackEventId` is the reference of what the event is about and not of the
event. `planless`, `abandoned` and `adrift` are the exceptions the code makes.

### Bookings

A page's guests and hosts (`booking.service.ts`, and `meetings.service.ts` for
what hosts do). `AskForBooking` and `ReadMeetings` are `availableSlotsForPage` up
to `busyMeetings`, `ReadCounts` the limits of `bookingCounts`, `Create` and
`Reschedule` the transaction, which looks at nothing again, with the answer. A
link is `held` or not: a write may leave the guest without one, as an error after
the transaction does. Any free host may be chosen: the routing strategies, the
load and the guest's wish only pick one of them. Hours of availability are a set
of starts; blackouts, other meetings, notice and the tenant's policy only refuse
more, as `BreakOff` may at any time. CONFIRMED and PENDING_APPROVAL are one
status, because every handler treats them alike. A day and a week are lengths of
time counted from 0; the code's are UTC days and weeks from Sunday, which are
cut the same way.

Hosts act on the meeting and never on the booking (`byHand`). `saw` is history:
the pairs of bookings of which the first was written by a request that had read
the meetings after the second was last written. The properties speak of such
pairs, because nothing in the code keeps two requests that overlap from taking
the same slot.

## Runs

| run | instance | checks |
|---|---|---|
| `workflow_requests` | 2 workflows, 2 runs, 1 key, executions inline; or 1 workflow, 2 nodes, 1 run, 1 job, 1 slot; 2 requests | `TypeOK`, `OnlyStopNodesFail`, `IdempotentKeys`, `RunsHaveWorkflow` |
| `workflow_queue` | 1 run, 2 jobs, 1 request, 2 slots, 2 attempts, 1 stalled re-queue, 1 fault, 1 retry | `NoneForgotten`, `ExecutionsGranted`, `LocksMatch`, `RunsRefineLifecycle`, `JobsSettle`, `RunsSettle` |
| `workflow_cancel` | 1 of each | `CancelledIsTerminal` is violated |
| `approvals` | 1 approval of up to 2 steps, 1 definition, 3 requests | `TypeOK`, `DecidedOnGrounds`, `StatusMatchesSteps` |
| `approvals_final` | the same, 2 requests | `DecidedIsFinal` is violated |
| `platform_retry` | 1 of each | `SiteRetryExecutes` is violated |
| `scheduler_slots` | 1 workflow that users also run, 2 scans, 3 runs, 1 edit, 1 fault, time 0..3 | `TypeOK`, `OneRunPerSlot`, `RunsSpaced` |
| `scheduler_late` | 2 workflows, 1 scan at a time, 5 runs, 1 edit, time 0..5 | `NeverLate` |
| `timesheets` | 2 requests, 2 entries, 1 sheet, 1 task, 2 timers | `TypeOK`, `SheetsAgree`, `TimersEndOnce`, `ActualMinutes` |
| `reminders` | 1 reminder, 2 scans, 1 request, 3 edits, 1 fault; 2 attempts of at most 3 | `TypeOK`, `AttemptsBounded`, `GivenUpLate`, `NoneForgotten`, `JobsSettle` |
| `billing_events` | 2 handlers, 4 events with 3 keys, 1 subscription id, 1 edit, 1 fault | `TypeOK`, `AppliedOnce`, `Accounted`, `TenantFollows`, `EventsSettle` |
| `bookings` | 2 bookings, 2 requests, 2 hosts, 1 page, 3 slots, a buffer of 1 before each, 1 booking a day of 2 slots, 1 edit | `TypeOK`, `NoDoubleBooking`, `LimitKept`, `RowsAgree` |

Bounds. Two requests suffice for every check-then-act race on one row, and the
two workflows of `workflow_requests` make an event fan out and let the deletion of
one meet runs of the other. There `NodesOrRuns` cuts the search in two halves that share
the code but not their questions: with a single workflow and run, two nodes let a list be reordered
and let an execution stop at either of them, and the second request deletes the
workflow under the execution. In `workflow_queue` two slots and two jobs are needed
for a job that is handed on while its first executor still runs, and for a retry
that overlaps it; one fault is a crash at any point, a database error at any
point, a lost reply or a lost lock, and the attempts and the stalled counter both
reach their limits. In `approvals` the third request lets a reopening meet two
decisions that overlap; two steps with the three kinds of templates (two
required, one of them optional, a single optional one) reach each verdict. One
approval is enough: requests on different approvals touch no common row.
In `scheduler_slots` two scans start in the same minute or in
two successive ones while a run completes between their steps, intervals of 2
and 3 minutes (a config of 0 becomes the hour, one of 9 the day) make slots that
begin before and after a completion, and the fault kills a scan, loses its tick
or leaves its run without a job. In `scheduler_late` a row that is skipped or
refused meets a row after it in the same scan, four minutes are two intervals of
the slower workflow, and by the fifth a workflow that ran every minute, and whose
interval was then doubled, is past the slots whose numbers its runs had used; delays are nought there, since they only add
to the bound, and faults are left to the missed scans that deletions cause.
In `timesheets` two requests overlap in every pair of operations, two entries let
one be moved to a sheet while the other leaves it, and the second timer begins
after the first has ended; entries of one and the same length suffice, since
`actual` keeps who the summands are. In `reminders` two scans take the same job, two
attempts make a failure be retried and then given up, and the limit of three is
reached with a retry by hand. In `billing_events` the four events are the kinds
that differ (Stripe's subscription and invoice, Paystack's charge and
subscription, the last two with one key), and two handlers are two deliveries, or
a delivery and a request. In `bookings` the second request books or moves between
the reading and the writing of the first; the second host is open in the first
slot only and has no bookings of its own but those that move to it
(`SecondHostLater`), which keeps the instance in reach of TLC.
Deadlock is checked where a state without a step would be a process that waits
for another. It is not in the scheduler runs, whose time ends at `Horizon`, nor
where the bounded supply of requests, faults or rows ends while nothing is left
to do (`reminders`, `billing_events`, `bookings`). Requests are interchangeable and so are
workflows, which the safety runs use as symmetry; the runs with liveness do not.

Fairness. In `WorkflowRuns` (`Fairness`, used by `workflow_queue`) a handler
or slot that has begun goes on: Node's event loop runs each continuation, the
database answers or fails, and calls of other services end: webhooks are aborted
after ten seconds (`integrations.service.ts:962`), calls of meeting providers after
twenty (`meeting-integrations.service.ts:1133`). Mail has no such limit in the code
(`mail.service.ts:67` and `:91`): that it ends, if only by the provider or the
socket closing, is an assumption, here and in `Reminders`. Workers poll
the queue and the stalled check runs on BullMQ's timer. Nothing is assumed about
requests, edits, cancels or faults: nobody has to send one. In `Reminders` a
request that has begun goes on, the cron of each instance fires every minute
(`ScanStart`) and a scan goes on to its end, and the time of a job comes. In
`BillingEvents` a handler goes on, and the providers deliver as long as an event
is not answered, as both document for their webhooks; that every handler may be
busy when one arrives is why this is fairness of the delivery to any of them.

### What the violations show

- `workflow_cancel`: a run that is cancelled while a worker has its job becomes
  RUNNING and then COMPLETED; `cancelRun` removes no job and `executeRun` looks at
  no status.
- `approvals_final`: a decision that passed its guards before a cancel writes the
  approval afterwards, and a CANCELLED approval is PENDING again.
- `platform_retry`: the console's retry leaves the run PENDING with nobody to
  execute it.

`StatusMatchesSteps` speaks of requests that do not overlap for a reason: two
approvers who decide different steps at the same time each read the other's step
as PENDING, and the approval stays PENDING although all its steps are approved,
until somebody cancels or reopens it.

`NeverLate` has an exception that the code makes: `lastRunAt` is written by every
completed run, so users who run a scheduled workflow themselves postpone its
schedule (`Extra`). And its bound can be a long one. A slot is the number of the
interval since the epoch: when the interval of a workflow is made longer, the
numbers fall, and the new slots can have numbers that old runs hold. The insert is
then taken for a duplicate and skipped without a word until the numbers are past
the old ones (`UsedUntil`); `NeverLate` says that the workflow runs as soon after
that as it otherwise would after its last run, and `scheduler_late` fails without
that part of the bound.

### What the exceptions in the properties stand for

Each exception was put there by a counterexample, and each is what the code does.

- `SheetsAgree` (`torn`): `updateEntry` and the attachment of entries check the
  sheet and write by id. An entry that is edited while its sheet is submitted or
  approved becomes DRAFT below a locked sheet, although
  `docs/BACKEND_IMPLEMENTATION_PHASES.md:744` says that submitted and approved
  time is locked.
- `ActualMinutes` (`blurred`): rejected time does not count, but rejecting and
  reopening a sheet recompute nothing; two requests that overlap may write their
  totals in the wrong order.
- `NoneForgotten` of the reminders (`stuck`, `lapsed`): a scan that dies, or whose
  reminder is deleted, in the middle of a delivery leaves the job PROCESSING,
  which no scan selects. A job with ten attempts can be queued again by hand and
  is never selected. Closing a meeting cancels the jobs, also those of follow-ups
  of a completed one, and `restoreMeeting` queues none again (`closed`).
- `Accounted`: a delivery that fails is answered as received, and its row stays
  FAILED, or RECEIVED when the instance died; no code applies it again. A
  Paystack event whose key another one has is answered as a duplicate. A Stripe
  event whose plan is not known is PROCESSED with nothing applied (`planless`).
- `TenantFollows` (`adrift`): the two statements of two requests interleave, and the
  console writes a subscription without its tenant. An event about an older
  subscription id overwrites the current one.
- `NoDoubleBooking` and `LimitKept` (`saw`): two requests that overlap take the same
  slot, or exceed the limit. A booking that is moved meets its own meeting and its
  own row in the counts: a move to a time nearby, or within a day that is full, is
  refused.
- `RowsAgree` (`byHand`, `revived`): a host who cancels or moves a meeting leaves
  the booking CONFIRMED at its old time, which goes on to count in the limits; a
  guest who moves and cancels at the same time can have a live booking with a
  cancelled meeting. No code approves a booking that is PENDING_APPROVAL. The host
  a booking had before it was moved to another stays an attendee of the meeting,
  and counts as busy.

## Theorems

All proofs are for arbitrary constants: any sets of workflows, keys, requests,
slots, approvals, steps, templates, and any bounds. The assumptions are those
named in the modules (`NilAssumption`, `BoundsAssumption`, ...): special values
are not members of the sets they stand outside of, bounds are naturals, and at
least one attempt is made. `ProcAssumption` also says that the requests and the
slots are finitely many at a time, without which executions cannot be counted.

`WorkflowRunsProofs`. The inductive invariant is `Base`: types, references
(a process that works on a run has one, a queued job has a run and an attempt
left) and `LocksMatch`. The last is needed for the first: that a slot whose lock
is gone no longer counts the job's attempts is what keeps `tries` in its range.
From it follow

- `TypeCorrect`, `LocksAlwaysMatch`;
- `KeysAreIdempotent` and `RunsAlwaysHaveWorkflow`, by the two guarantees of the
  database at `CreateRun`;
- `NoneEverForgotten`: whoever gives up a run hands it on, or it is in `lost`.
  Each action either leaves the run with its worker or moves it to a job.

This last theorem is about the tenants' own API: the console breaks it
(`platform_retry`).

`OnlyStopNodesEverFail` needs more, because an execution works from a snapshot of
nodes that edits move, replace and delete. `Listed` says that a node's row is
listed once, by one workflow, and is there; `NodesStayGone` that no edit brings
a row back. With `Known` - what processes and jobs refer to has been inserted,
so a run that is gone was deleted and not yet to come - a snapshot can only have
lost nodes since it was read, and a log line is refused for no other reason.

`WorkflowLifecycleProofs`. A step is compared with `RunLifecycle` run by run: for
each run, what it does to the status, to the executions owed, to the cancels
under way and to `lost`, and that no other run is touched (`LifecycleStep`).
`Implemented` puts these together to a step of the abstract specification, and
every action is shown to make such a step and to grant what it adds (`PaidFor`).
Most move one process and one job: `Counted` gives the two
cardinalities from the one process and job that changed. A crash takes any set
of processes at once; there the jobs that return to the queue are counted by the
bijection with the slots that had locked them, which `LocksMatch` makes one-to-one.
Three facts of the engine enter: `LocksMatch`; `Blank`, that a row not inserted
has been granted nothing; and, for the end of an execution only, `OpenCarried`, the
invariant behind `NoneEverForgotten`. From these follow

- `EngineImplementsLifecycle`, the refinement, and `ExecutionsAlwaysGranted`;
- `LifecycleForgetsNone`, the promise of `RunLifecycle` itself, from its steps alone;
- `EngineSurvivesConsole`: beside administrators who write runs from outside, the
  types, the locks, the keys, the workflow of each run, the reasons for a failure
  and the count of executions still hold. The console changes the status of a row
  that exists and nothing else, and none of these depends on who carries an open
  run. `OpenCarried` does, so the refinement and `NoneForgotten` are not among them.

`ApprovalsProofs`. `Grounds` is the inductive invariant for
`ApprovalTypes` and `DecisionsOnGrounds`: it says that a decided step, and a
verdict that is computed but not written, rest on `said`. It is inductive only
because a reopening and a decision that has locked its step cannot both
succeed: the proof of `ReopenGrounds` needs `Overrule`. `Agreement` adds, for
approvals without overlapping requests, that what a request has read still holds
when it writes, from which `StatusesMatchSteps` follows.

`WorkflowSchedulerProofs`. The inductive invariant is `TypeOK` and `History`:
a scan's clock is not ahead and its run exists (`Held`), what is left of its
snapshot was due when it began (`Waiting`), `lastRunAt` is no earlier than any
completion (`Past`), and the two properties themselves, `Distinct` and `Spaced`.
`Waiting` is what makes a decision on a snapshot stay right: a run that
completes later does not lie before the scan's clock. Most steps only end scans,
take rows from them or pass runs on; `SteadyHistory` treats them once (`Steady`,
`Shrinking`, `Onward`), and only the start of a scan, an insert and a completion
need an argument of their own. From it follow `SchedulerTypes`, `SlotsAreUnique`
and `RunsAreSpaced`.

`RunsAreNeverLate` adds two invariants. `Prompt` is what `Patience` means for the
pieces: a scan and an execution end within it, so `lastRunAt` lies at most
`Patience` after the last run, and a workflow is due again an interval and
`Patience` after it, with a key that is free once the slots of its runs are over
(`Due`). `Counted` is about every minute since then: either
a scan of that minute still has the workflow's row to come, or the minute is one
of those counted in `missed`. A scan takes a row from its list only by
inserting a run, which begins the count anew, or by skipping it because the key
is taken; `KeyIsFree` shows by the arithmetic of slots that it is not taken when
the workflow is due in this sense. Scans that die, break off or
never start each add one minute to both sides. At the end, a workflow that is
later than the bound has more than `missed` ticks behind it (`ManyTicks`) that no
scan can still be at work on, which contradicts `Counted`.

`TimesheetsProofs`. `Inv` adds to the types what a request has in hand (`Asked`: one
that writes knows its row), that rows not in use come from no timer (`Blank`), and
for `ActualMinutes` that a task that is not blurred is owed its total by one
request at most, which has read the right one, or has it (`Settled`). `SheetsAgree` and `TimersEndOnce` are inductive with these. The
lemmas treat the few kinds of steps once - a request that only reads
(`QuietStep`), that comes to owe totals (`OweStep`), that writes one
(`RecountStep`), that makes an entry (`NewEntryStep`) - and each operation is
shown to be of its kind.

`RemindersProofs`. `Care` relates each scan to the job it has in hand (`Held`: the
attempts it read are not more than the job's), requests to their reminders
(`Asked`), the state of a job to the state of its reminder (`Told`) and every
pending reminder to a job or a request (`Queued`). That `Held` says "not more"
is what makes the counts from stale reads harmless for `GivenUpLate`. `AttemptsBounded`
is inductive with `Care`: each scan may add one attempt to a job it has selected,
and a job is selected only below the limit; the proof counts the scans that are
about to (`Taking`) with the theorems on cardinalities.

`BillingEventsProofs`. `Sound`: a handler that applies an event has its row
(`Handled`), no two work on one key (`Alone`), an event was applied once at most and
then the row is its own (`Counted`), a row that is PROCESSED was applied or has no
plan (`Settled`), and every answered event has a row (`Filed`). The unique key enters
at `InsertEvent` alone. `Aligned` says that unless the two are adrift, whoever owes
the tenant its status is alone and knows the subscription's; `TenantFollows` needs
it.

`BookingsProofs`. `Inv` says of each request under way (`Knows`) that the booking
it opened is there and on its page (`Own`), that its slot keeps clear of every
live booking of its host but those written since it looked (`Apart`), and that the
limit has room, those apart (`Room`). Steps of others only add to what was
written since, or take bookings away; when the request writes, `Apart` and `Room`
become `NoDoubleBooking` and `LimitKept` (`WritesClear`, `WritesLimit`). `Rows` and
`RowsAgree` are needed because the request looks at meetings, and the properties
are about bookings. `LimitKept` is about every set of bookings with one another in
view: adding one to such a set is where `Room` is used.

Every invariant that the runs check, and the refinement, is a theorem. Only
model-checked is liveness: `JobsSettle` of the queue and of the reminders,
`RunsSettle` and `EventsSettle`. They rest on fairness, that is on which actions are
ENABLED, which is out of the prover's reach. The three properties that the code
violates have counterexamples, and nothing is proved of them.

## Not modelled

- Boards and sprints, tasks and quality assurance: each handler reads, checks and
  writes once, without a lock, and they share no protocol. The checks that two
  requests pass at the same time (a second active sprint, a WIP limit, a cycle of
  parents) are listed as hazards; a model would restate them.
- Authentication and identity security: rows of sessions, attempts and one-time
  tokens, each read, checked and written by id; what decides is bcrypt, JWT, the
  clock and the identity providers.
- Of time tracking: skills, allocations, availability, reports, and the edits of
  a sheet's period. Of meetings: calendars, the set-up of booking pages, agenda,
  attendance, notes, AI summaries. Of billing: amounts, plans, seats, usage,
  invoices but for their row, checkout sessions. Of the console: its reads and its
  single updates.
- Webhook deliveries and AI actions: one insert, one call of a service outside and
  one update each.
- The rest of the components keep administrative records, read by queries and
  written by single statements. SMTP, storage, calendars, payment and model
  providers lie outside the program.
