# Verification of agentys-oss

TLA+ models, TLC runs and TLAPS proofs for the background services of the Agentys backend (`src/app`): the queues and schedulers that act on a user's mail after the request that asked for it has returned. One API process runs all of them as threads over one SQLite (or Postgres) database; the desktop client (Tauri), the mobile client (Expo) and the MCP bridge talk to it over HTTP and WebSocket.

Contents: [components](#components), [modules](#modules), [runs](#runs), [fairness](#fairness), [proofs](#proofs), [disagreements found](#disagreements-found), [limits](#what-is-not-modelled), [plan](#plan).

## Components

For each: the state it keeps, its operations, who it interacts with, what is hard about it, and what makes it correct. `PROJECT.json` lists every component, also those without shared state.

**Bulk jobs** (`services/bulk_jobs`: `worker.py`, `repository.py`, `scheduler.py`, `rate_limiter.py`; `api/routes_bulk_jobs.py`).
State: tables `bulk_jobs` (status, three counters) and `bulk_job_items` (state, attempts); a worker singleton with a dispatcher thread and one queue thread per active account; one token bucket per account.
Operations: create, pause, resume, cancel, retry-failed, dismiss; claim, execute, record, finalize; boot recovery, shutdown; a daily auto-deletion tick that creates jobs.
Hard: handlers and threads commit in any order; finalize reads a snapshot outside a transaction and writes later; a result and the job's verdict are two commits; provider errors, throttling, failed commits, crashes.
Correct when: the counters are the items, an item is executed by one thread, attempts stay within the budget, results and user decisions are not overwritten, the verdict is honest, and every active job ends. *Modelled: BulkJobs, Ledger.* The scheduler, the bucket's arithmetic and the optimistic folder update of the route are not.

**Scheduled e-mails** (`services/scheduled_email_store.py`, `scheduled_email_scheduler.py`, `api/scheduled_emails.py`).
State: table `scheduled_emails` (status, send_at, payload, attempts, updated_at); the batch the scheduler thread has in hand.
Operations: schedule, edit, cancel, send now, purge of an account; poll, claim, look up, dispatch, record; recovery at start.
Hard: the provider's acceptance and the row's update cannot be one transaction; rows are used after they were read; a send-now request runs beside the scheduler; adapters swallow exceptions; crash between any two steps.
Correct when: no message leaves twice, a row has one sender, outcomes are truthful and final, due messages are settled. *Modelled: ScheduledSend, Outbox.*

**Draft job queue** (`infrastructure/draft_job_queue.py`, the `/process` and `/cancel-process` handlers and `_process_email_draft_job` of `api/routes_emails.py`).
State: a bounded queue, the jobs known by e-mail, semaphores and counters per account, a registry of cancellation events.
Operations: register an event, enqueue (duplicate, refused, admitted, put), cancel; take, acquire a permit, count, draft, forget, release.
Hard: the queue is checked under a lock and filled outside it; workers block on permits while holding a job; events outlive jobs.
Correct when: an e-mail has at most one job, limits hold, accepted jobs are served, a cancel concerns the job it was meant for. *Modelled: DraftQueue (in-process backend), Desk.* The Redis backend (`application/draft_worker_job.py`, `workers/draft_worker.py`) has an admission script, TTLs and an external worker, and is not modelled.

**Sync jobs** (`services/sync_jobs.py`).
State: table `sync_jobs` (status, scope, limit, lease owner and age, attempts, back-off), quota windows per account and per project shard, an executor.
Operations: enqueue (create, merge, take back, replace), dispatch (read candidates, reserve quota, claim or defer), run (start, record), back-off, a ticker.
Hard: a request looks and writes in two statements; several dispatchers, threads and processes on one table; workers that outlast their lease; restarts; a quota shared across accounts.
Correct when: a scope has one active job, nobody takes a job from a worker in time, a completed job did what was asked of it, no window is overbooked, every job ends. *Modelled: SyncJobs.*

**Sync service** (`services/sync_service.py`): two models.
*Who syncs what.* State: the reservations under `_sync_lock`, the queue of pushes, the authentication back-off, the threads. Operations: push, trigger, poll, claim, sync one account, drain, declare stale, deactivate. Hard: a thread declared stale cannot be stopped and comes back; a push arrives while its account is busy. Correct when: reservations that stand are apart and released by their owner only, a push is not forgotten, only an account that failed N times in a row is deactivated. *Modelled: SyncService.*
*One sync of an account.* State: the provider's history, the rows, the checkpoint (`last_history_id`, `last_sync_at`), the session with its savepoints. Operations: read the history or fall back to a fetch, store, apply removals, commit, update the checkpoint. Hard: any error rolls the session back and falls back; the checkpoint must not pass what is not stored; replies are sent by a commit hook. Correct when: events behind the checkpoint are mirrored or known to be lost, old mail is not answered. *Modelled: DeltaSync* (history, fallback, savepoints, checkpoint, replies; not the one-time backfills, the SENT pull, label changes, contacts and the cache limit).

**Auto-reply** (`services/auto_reply.py`): the senders already answered, in memory. *Partly, in DeltaSync*: when the sync answers a mail and whom it remembers; not the time window, the filters and the daemon's path.

**Quick steps** (`quicksteps`: `auto_trigger.py`, `engine.py`, `audit.py`, `idempotency.py`, `handlers/reply.py`).
State: the audit log, the stored reports of manual runs, the evaluations under way.
Operations: an evaluation of all rules per arrival, change or reply; a sweep of the inbox; the chain of a rule; its audit row; a manual run under an Idempotency-Key.
Hard: the look into the log and the row in it are a whole chain of provider calls apart; a reply starts the next evaluation; queries and rows may fail silently.
Correct when: a rule that is marked as fired ran whole, a failed batch query does not let the sweep run everything again, a retry gets the first outcome, chains that reply do not go on for ever. *Modelled: QuickSteps* (rules for received mail; not the rules for sent mail, the conditions and the other handlers).

**Offline action queue** (`services/action_queue.py`) and **circuit breaker** (`infrastructure/circuit_breaker.py`): dead code, see [below](#what-is-not-modelled).

**Rate limiter, retry, cache, cost control, pending drafts, onboarding**: small utilities around one lock each, or counters and files with one writer. Not modelled.

**Adapters, agents, HTTP and OAuth plumbing, clients**: network I/O, prompts and user interfaces. What the callers see of an adapter (outcome classes, an exception turned into `None`) is part of the callers' models.

Interactions: handlers and service threads meet only in database rows and in the few in-memory registries named above. Two pairs of components touch. SyncService decides which threads sync an account and DeltaSync is what one of them does: SyncService promises that two of them overlap only after a reservation was given up as stale (`SyncsApart`), which is why `Workers` of DeltaSync is one thread in the run and in its theorems about losses, and what it means for the mirror when it is two is said [below](#disagreements-found). A mail that DeltaSync stores is an arrival of QuickSteps (`Change`), of which QuickSteps assumes nothing. The others share no row and no registry, so that each module is complete for its own state. Where a component calls the provider, the model has a nondeterministic outcome; where a session commits or rolls back as a whole (`db/database.py`), the model has one action.

## Modules

| Module | Models | Extends |
| --- | --- | --- |
| `BulkJobs` | bulk-job tables, handlers, account threads, worker life cycle | |
| `Ledger` | what BulkJobs promises (abstract specification) | |
| `BulkJobsProofs` | its theorems; that it implements `Ledger` | `BulkJobs` |
| `ScheduledSend` | scheduled rows, handlers, scheduler, send-now, recovery | |
| `Outbox` | what ScheduledSend promises (abstract specification) | |
| `ScheduledSendProofs`, `OutboxProofs` | its invariants; that it implements `Outbox` | `ScheduledSend`, `ScheduledSendProofs` |
| `DraftQueue` | in-process draft queue, its requests and workers | |
| `Desk` | what DraftQueue promises (abstract specification) | |
| `DraftQueueProofs` | its theorems; that it implements `Desk` | `DraftQueue` |
| `SyncJobs` | the table of sync jobs, requests, dispatchers, leases, quota windows, workers | |
| `SyncJobsProofs` | its theorems | `SyncJobs` |
| `SyncService` | reservations, pushes, threads, back-off and deactivation of accounts | |
| `SyncServiceProofs` | its theorems | `SyncService` |
| `DeltaSync` | one account's sync: history, fallback, savepoints, checkpoint, replies | |
| `DeltaSyncProofs` | its theorems | `DeltaSync` |
| `QuickSteps` | evaluations, sweep, chains, audit rows, manual runs | |
| `QuickStepsProofs` | its theorems | `QuickSteps` |
| `MC...` (one per component) | ids, ownership functions and symmetry of TLC's instances | the component |

Definitions marked `Slip:` are altered forms of the definition that follows them, the way a plausible mistake would alter it. No next-state relation uses them; each property is known to fail when its definition is replaced by its slip, which shows that the property watches that code.

### BulkJobs and Ledger

| State | Code |
| --- | --- |
| `status`, `count` | `bulk_jobs.status`, `succeeded_count`/`failed_count`/`skipped_count` |
| `item`, `attempts` | `bulk_job_items.state`, `attempts` |
| `phase`, `queues`, `stopping` | the worker singleton, its registry of queue threads, the `_stop` event of each thread |
| `pc`, `held`, `tries`, `note` | where a queue thread is; its `ClaimedItem`; the outcome or verdict it carries |
| `shared`, `overtaken` | history: items a boot put back while a thread was at work on them; jobs claimed from while another thread had their verdict ready |

Handlers (`CreateJob`, `RequestPause`, `RequestResume`, `RequestCancel`, `RetryFailed`, `DeleteJob`) are one transaction each, with the guard of their UPDATE. A thread does `Claim`, `CheckParent`, `Execute`, one of the recording actions, `Settle` (the unlocked snapshot of `finalize_job_if_drained`) and `Finalize` (its UPDATE); those are the points where it commits, reads, or lets others run. Provider outcomes are named after what the worker does with them: `doomed` stands for the fatal and authentication errors that fail the rest of the job, `starved` for an empty bucket. Abstracted: time, back-off, progress events, the parameters of an operation, and the roll-back of the optimistic folder update when an item fails (it writes the e-mail's row, which no property here reads).

`Faults` switches failed commits (`LoseResult`), failed recoveries of a boot, dying threads and crashes on. The claim is one UPDATE ... RETURNING, which SQLite makes atomic; the model has it so.

Two workers' threads may serve one account: `stop` gives up its joins after their timeout and leaves "queues left alive" behind, a tick of the dispatcher may register one more queue after `stop` has taken the list of them (`LateSpawn`), and `Boot` starts with an empty registry and asks nobody. It also returns to pending whatever is in progress, in the hands of a living thread or not. `shared` remembers those items, and `overtaken` the jobs that a thread of one worker claimed from while a thread of the other had their verdict ready; the properties say what holds outside of the two, and that nothing else takes it away. Not modelled: a tick that outlasts the join of the dispatcher and the next boot, and goes on in the old worker.

`Ledger` is the promise, in the user's terms: a job is submitted, its items get their results, and it gets a verdict, a cancel or a dismissal. The promise ends, with `void`, for a job in which two workers' threads met (`Sound`). The refinement mapping (`Told`, `Result`, `Promise`) hides threads, claims, attempts, pauses and boots: `queued`, `running` and `paused` are all "open", and so are `pending` and `in_progress`. It speaks of the items where `VerdictIsHonest` speaks of the counters, and says besides that no result is written after a verdict other than a cancel. `ResultsAreFinal` and `TerminalIsLeftByUser` say in BulkJobs' own terms what part of it means; they name the handlers and are proved too.

### ScheduledSend and Outbox

| State | Code |
| --- | --- |
| `status`, `due`, `payload`, `attempts`, `old` | the row: status, `send_at <= now`, edits of the payload, attempts, `updated_at` past the recovery threshold |
| `delivered` | how often the provider sent the message (kept by the provider, not by the program) |
| `alive` | the process |
| `pc`, `batch`, `seen`, `turn`, `work`, `mail`, `verdict` | per worker: the rows it read and how they were then, the account it serves, the rows it claimed, the one it sends, what it will record |

A worker is the scheduler thread or a send-now request; both run `_send_for_account`. `Lookup` is `_resolve_previous_attempt`: the Gmail adapter answers an HttpError with "not found", so that a lookup may miss a message that left; `missed` remembers how many copies the last such lookup missed. A message it finds (`found`) is recorded inside the `try` that handles the errors of the provider, so that a failing write there turns into a failure or a retry (`Misrecord`); any other failing write ends the tick (`AbortTick`). `Dispatch` has four outcomes: sent, sent with the answer lost (adapters return `None`), refused, unreachable (raised before anything left). `Mark` keeps the code's asymmetry: `mark_sent` and `mark_failed` do not look at the status, `revert_claim` does. `Start` includes the recovery.

`Outbox` is the promise: a message is submitted, leaves at most once, gets one outcome (`sent` only if it left) after which it does not leave, and is forgotten with its account. The refinement mapping (`Fate`, `Promise`) hides claims, retries and recoveries: `pending` and `sending` are both "open".

### DraftQueue and Desk

| State | Code |
| --- | --- |
| `rpc`, `answer`, `event` | where a request is, `submission.status`, the `threading.Event` it registered or found |
| `registry`, `set` | `_cancel_registry`; the events that are set |
| `jobs`, `queue` | `_jobs_by_key`, `_queue` |
| `wpc`, `job`, `permits`, `active` | workers, `_account_semaphores`, `_active_by_account` |
| `result` | what became of a request's job |

An event is named by the request that created it, so sharing an event is visible. Admission and `put_nowait` are two actions, and so are taking a permit and counting the job, and forgetting the job and giving the permit back: other threads run between them. In `Put`, a refused job's key is dropped in the same action as the failed put; until then the key was visible anyway, as it still is between the two statements. The exceptions of a job do not leave it, so a worker never dies.

`Desk` is the promise: a job is laid on the desk of its e-mail while the desk is empty and the account has room, is accepted or refused, gets one outcome if it was accepted, and is cleared away after it. Requests told "full" or "duplicate" get nothing, and "cancelled" needs somebody who asked. The mapping hides the queue, workers, permits and events. Two things it does not promise, because the code does not: that the cancel was meant for this request and not for an earlier one (`asked` remembers e-mails), and that the job a duplicate is told about is accepted in the end (`Put` may still refuse it).

### SyncJobs

| State | Code |
| --- | --- |
| `jobs` | rows of `sync_jobs`; `age` is 0 in the lease, 1 past it, 2 past the stale threshold; `backoff` that `backoff_until` lies ahead |
| `enq`, `disp` | the transactions of `enqueue_sync_job` and `_dispatch_ready_sync_jobs`: what each has read and locked |
| `runs` | the `_run_sync_job` submitted for each lease owner |
| `accountUnits`, `shardUnits` | `units_reserved` of the current windows |

A transaction is a Read step that takes its row and advisory locks and a Write step that commits. The model is the code on PostgreSQL. On SQLite the advisory lock is a no-op, and the slip `EnqueueReadUnlocked` is the code there; no index of the table is unique, so that two requests that both look first may both insert, and `OneActivePerScope` is not claimed there. `DispatchAbort` is the deadlock of two dispatchers that lock the windows of two shards in opposite order. Simplified: any dispatcher may run at any time, and only the ticker is fair; `unread_only` merges like the limit; rows without a lease owner that old versions left are not there.

### SyncService

| State | Code |
| --- | --- |
| `full`, `active` | `_active_full_sync_generation`, `_active_account_sync_generations` |
| `old` | which of them were made `_STALE_SYNC_SECONDS` ago |
| `pending` | `_pending_account_sync_ids` |
| `threads` | the loop, the pushes' threads, a user's `trigger_sync`; with the accounts they still have to sync |
| `failures`, `waiting`, `enabled` | `_auth_backoff`, its `next_retry`, `Account.is_active` |
| `ahead` | the accounts of which `next_retry` lies past the `now` that a thread took before its loop |

A provider call that hangs is a thread at `hung`; only such a thread's reservation gets old, for a call that returns in ten minutes is not declared stale. Its reservation is given up by whoever looks next (`Status`, a push, the loop), and the thread may wake up and go on. Left out: callbacks, the eviction of expired entries, reconnection by the user, the legacy path behind a flag. One manual sync is under way at a time. A sync that fails for the last time writes the back-off, commits the deactivation (which may fail and is swallowed) and pops the back-off in three steps (`AuthFailed`, `Deactivate`, `Forget`).

### DeltaSync

| State | Code |
| --- | --- |
| `log` | the provider's history of arrivals and removals |
| `rows`, `cp`, `at` | the account's e-mails, `last_history_id`, `last_sync_at` |
| `job` | per worker: where it is, what it fetched, its uncommitted inserts and removals, `session.info` |
| `remembered`, `replied` | `_REPLIED_SENDERS`; who was in fact answered |
| `gap`, `old` | history: events that were passed over in a named way; mail that was there at the first sync |

Faults are named after what the code does with them: `expired` and `broken` history, `transient` answers (429, 500, 503) that look like "no change", `unreadable` messages that are passed over, a failing `insert` whose savepoint is rolled back, a failing `store` or `commit` that rolls the session back, a failing `removal`, swallowed so that the row stays while the checkpoint moves on, and an `aborted` transaction after one (PostgreSQL: the later statements fail as silently, and the commit rolls the whole batch back without an error), a `locked` database whose handler reports success, and a `crash`.

### QuickSteps

| State | Code |
| --- | --- |
| `wanted`, `work` | evaluations that were started as threads; the mails and rules each still has to look at |
| `run` | the chain each thread is in, how far it is and which actions it did |
| `known`, `batched` | `fired_pairs` of a sweep and whether its query worked |
| `audited` | pairs with a row `source = "auto"`, success |
| `stored` | `quick_step_executions` under each key |

Conditions are free: any pair that has not fired may match or not (`Skip`, `Fire`). A failing query (`_step_fired_on_email`, the store of reports) counts as "not found", and a lost audit row goes unnoticed, as in the code; each costs a mishap.

## Runs

`CHECK_DEADLOCK FALSE` stands where the system may really come to rest: every message settled, every job dismissed or every request answered, and users free to do nothing more.

| Run | Instance | Shows |
| --- | --- | --- |
| `bulk_jobs` | one job of two items, one account, two interchangeable threads which two workers may leave alive at once, 2 attempts, faults, one stop or crash; 1,871,660 states | types; counters = items; exclusive claims; attempts within budget; honest verdicts; BulkJobs implements Ledger, and with it: final results, and what is settled is reopened by users only |
| `bulk_live` | one job, two items, one thread, 2 attempts, no faults; 35,048 states | every active job ends when users and throttling pause, across a clean restart |
| `send_faults` | two messages of one account (interchangeable), scheduler and one click, 2 attempts, crashes, failing writes, lookups that may miss; 409,008 states | types; no second copy without a lookup that missed the first; one sender; ScheduledSend implements Outbox, and with it: honest and final outcomes |
| `send_live` | two messages of two accounts, one edit each, 3 attempts, no faults, no clicks, lookups that may miss; 85,773 states | due messages are settled; no message is tried more often than allowed |
| `draft_queue` | three requests, two of them for one e-mail, two workers, queue of 1, one permit | one job per e-mail; limits and counters; DraftQueue implements Desk; accepted jobs are served; 36,276 states |
| `sync_jobs` | three requests: two with growing limits for one inbox, one for another account of the same shard; ticker and a second dispatcher, 4 leases, one mishap; 735,474 states | types; one active job per scope; leases protect workers in time; a completion covers the requests merged before the run |
| `sync_live` | two jobs of two accounts, a window with room for one of them, 2 attempts, one mishap; 71,093 states | no window overbooked; every job ends |
| `sync_service` | two accounts, one slot, two calls, one hanging call, two failures of any kind, deactivation after 2; 521,407 states | types; reservations apart and released by their owner; pushes remembered and served; deactivation earned |
| `delta_sync` | two mails that come and go, one worker, one mail per fetch, two faults of any of eleven kinds; 112,318 states | types; losses are known; old mail is not answered; the checkpoint advances |
| `quick_steps` | one mail that arrives and changes once, a rule that replies and stands twice in the sweep's list, one evaluation beside the sweep, two requests under one key, one mishap; 187,685 states | types; what is marked fired ran whole; how often a pair can run; the sweep honours the rows; retries are replayed; chains that reply come to an end |
| `qs_refire`, `delta_reply` | the smallest instance that shows it | a documented promise that fails, see [below](#disagreements-found) |

Why these bounds are enough for what they show:

- Of the two items of a job one is in progress while the other is skipped, failed in cascade, retried, or in the hands of the other thread; one restart gives the second worker, whose threads are as many as the first one's. Threads of different accounts touch disjoint rows. Which of two jobs the claim prefers is left to the theorems, which hold for any number of jobs; none of the properties depends on it.
- `ITEM_MAX_ATTEMPTS` and `MAX_SEND_ATTEMPTS` (3 in the code) are 2: first, last and exceeded attempts all occur. `send_live` uses 3.
- Two messages of one account make a batch in which one row is settled while the other is claimed, and let a failed write strand several. A click beside the scheduler gives the two readers of one row; a third would find the row claimed like the second. `CrashBound` lets the process crash until a message was claimed twice: the crash after a delivery and the crash in the retry. `EditBound` is 0 where payloads do not matter and 1 where a stale payload is looked for. `send_live` has no click, for with one it has more than 980,000 states; one message with two clicks and no edits (50,451 states, safety only) reaches the bound of `AttemptsCapped`, one attempt more for each click, and no more.
- A queue of one place and two workers with one permit reach every refusal but the account's: two requests at the last place, both workers holding a job of one account, a request for an e-mail whose job is leaving. A fourth request (715,000 states, safety only) adds the refusal by account and finds nothing else.
- Three requests reach every plan of `enqueue_sync_job`: a merge into a queued, waiting or running job, a take-back, a replacement, and a creation beside another scope's. Quotas are set so that one of two jobs fits, which is the case that a dispatch has to add up. One mishap is a restart, an abort, or a worker that comes back after its lease.
- One slot and two accounts make every push find its account busy, the slot taken, or a full sync under way; the hanging call is declared stale while another thread takes its place, and comes back. Six generations suffice: a new number differs from all in use.
- `LIMIT` 1 with two mails makes a fetch truncate. Two faults let a transient answer be followed by an expired history, which is the loss that no single fault causes.
- In QuickSteps the sweep and one evaluation are the two threads that meet at a pair; with the rule once in the list, a second evaluation (3.29 million states, safety only) and a second mail without requests (166,222 states) show nothing else. `CAP` 2 lets the sweep come to the second copy of its rule after it ran the first. `MaxWanted` 2 lets evaluations wait, one of them started by a reply, while the one that replied is under way. A second rule (799,935 states, with `MaxWanted` 1) changes nothing.
- Symmetry (`SameMails`, `Interchangeable`) is used with safety and action properties only.

The theorems do not depend on any of these bounds, apart from the one worker of DeltaSync.

## Fairness

Users owe the system nothing: no handler is fair, and neither is any fault.

- BulkJobs: weak fairness of each thread's steps, of the dispatcher's spawn and of the boot. The thread loop and the dispatcher poll without end, and a stopped backend is started again. `ActiveJobsSettle` and `DrainedJobsFinish` further assume that users, shutdowns, faults and throttling eventually stop (`Quiet`), since any of them can postpone the end for ever.
- ScheduledSend: weak fairness of each worker's steps, of `Age` (time passes) and of `Start`. Nothing makes a message due: `DueIsSettled` speaks of those that are, and a postponement by the user counts as settled.
- DraftQueue: weak fairness of each worker, and of a request once it has arrived. Semaphores and the queue have no fair order, and none is needed: a worker waiting for a permit is enabled again whenever a job of the account ends, and there are finitely many jobs.

- SyncJobs: weak fairness of transactions that have begun, of the ticker's sweep, of workers, and of time (`Age`, `BackoffElapses`, `NewWindow`). Which request, worker or job goes first is left open: the fairness is of the existential. A window that is always too small for a job would starve it; the instance's windows hold any one job.
- SyncService: weak fairness of the threads of each account, of the loop's, of the user's, of the loop's `Tick`, and of `Age`. `QueueIsServed` excepts a loop whose own call hangs for ever: the full sync then holds the loop, and nothing else polls the queue.
- DeltaSync: weak fairness of each worker, for the loop comes round. Arrivals and removals are not fair.
- QuickSteps: weak fairness of evaluations that were started and of the steps of each evaluator. `Settles` holds because failures are bounded: a chain [reply, other] whose second action fails for ever replies again at each evaluation its own reply starts.

## Proofs

Each theorem holds for every value of the constants that the modules' assumptions allow: ownership functions are total, limits positive, and the sets that are counted finite. TLC evaluates the assumptions on every run.

**BulkJobs**, without a hypothesis. `CountersCorrect`, `ClaimCorrect`, `AttemptsBounded`, `VerdictCorrect`, `ResultsCorrect`, `TerminalCorrect`, `TypeCorrect`, and `BulkJobsImplementLedger`. The properties are not inductive by themselves: that a result counts once rests on the item being in progress when the thread records it, hence on exclusive claims. The claim makes them so whatever number of threads an account has, because it takes pending items only and nobody returns an item to pending but its own thread or a boot; what a boot takes from a thread is in `shared`. The invariant of `Invariance` (`IInv`) collects: rows exist as long as their job (`RowsFollowJobs`); what a busy thread holds (`BusyThreadHoldsItem`), and that the attempts it read are the item's (`AttemptsKnown`); that a job under work is not finalized (`WorkedOnIsOpen`); that a verdict in flight between `Settle` and `Finalize` still agrees with the counters (`VerdictReady`), as no other thread works on the job (`NoWorkUnderVerdict`) unless it was `overtaken`. Counter steps use the cardinality facts of the library.

The refinement needs nearly all of it. Steps are sorted by what they do to items and jobs (`StepCases`): handlers are Ledger's actions one by one (`UserLedger`), a recording thread is `Settle` because its item is in progress and its job has no verdict (`ResolvesSettles`), the update of a finalizing thread is `Decide` because the verdict it carries is still honest and the counters are the items (`FinalizeDecides`), and claims, put-backs and boots are not seen.

**ScheduledSend**. Two invariants, neither with a hypothesis. `Sender` is inductive as it is: types, one sender per row, who remembers what after a crash, and that a verdict `sent` is reached with a delivered message only. From it follow `OneSenderHolds`, `SentCorrect`, `OutcomeStays` and `SettledStays`. `Delivery` adds where the knowledge of a delivery is: its row is settled, or is out of everybody's reach until the next start, or its worker is about to record it, or everyone who has read the row knows that it was tried and will look it up first (`Known`). So a worker comes to `Dispatch` with a message that never left, or from a lookup that missed every copy of it (`DispatchIsFirst`). From it follow `DeliveryInvariant`, `DeliveredOnce` (`NoCopyUnsought`; where lookups tell the truth, `missed` is 0 and a message leaves once) and the refinement `SendImplementsOutbox`: the step proof sends each action to `Submit`, `Leave`, `Miss`, `Decide`, `Purge` or a stutter.

`AttemptsCorrect` assumes that nothing crashes (`~Faults`), as it must: a crash before the verdict costs an attempt that nobody judges. The number of attempts alone is not inductive, because a worker judges by the number it read. `Capped` counts the attempts together with the workers that have read the row and find two attempts left (`Readers`): a claim by one of them moves it from the one count to the other, a claim by any other worker ends the row, and nobody enters `Readers` unless the row has attempts to spare.

**DraftQueue**. `QueueInvariant`: `Placed` says that the owner of a key is a request about to put its job, or waits at exactly one place of the queue, or is with exactly one worker that has not forgotten it; `Balanced` that permits, counters and the account's keys are the cardinalities they stand for. `RegistryCorrect` and `LimitsCorrect` follow; `LimitsHold` alone is not inductive, for a worker gives back a permit of the account its job belongs to, and that it has a job is part of `Placed`.

`DraftQueueImplementsDesk` adds to it what has been reported (`DeskInvariant`): by where a job is, what its request was told and whether it has an outcome (`AnswersReported`, `QueueReported`, `WorkersReported`), and that an event belongs to the e-mail it is registered for, however it was shared (`EventsNamed`). `Finish` clears the desk after an outcome because a worker gets past `leaving` with one only; a job found cancelled was asked about because its event carries the e-mail's name.

**SyncJobs**. `SyncJobsInvariant`: locks are apart (`LocksApart`); what a request read under its locks still holds when it writes (`PlanKept`), and a dispatcher's candidates are still ready (`TakeKept`); only active jobs have owners (`Owned`); a worker in time holds its lease, and its job is running with age 0 (`LeaseKept`); the limit of a request is covered by its job as long as that is active, and by the snapshot of the run that will complete it (`Covered`, `Snapshot`). `OneActiveCorrect` follows from the first two: at the moment of the insert there is no active job, although the look was a statement before. `LeaseCorrect` and `CompletionCorrect` follow from the rest. Nothing is assumed about quotas, concurrency or the number of dispatchers.

`QuotaCorrect` is about sums. The counter of a window is what a dispatch finds there plus the units of the jobs it grants (`Counters`, `CountersNext`). Grants are decided in the order of the candidates, each against what the grants before it leave; so the last of a set of grants that share a window fits beside all the others (`LastOf`, `FitTogether`), and the counter after the dispatch is within the limit (`GrantFits`). That a sum over a finite set exists, is one number, and grows by what is added (`SumsExist`, `SumsAgree`, `SumAdds`) is an induction over data, which the provers cannot take from the library; here it is done by least counterexample, with the well-foundedness of `<` on the naturals applied to sets that are named. `SyncAssumption` has for it that the rows are numbered by natural numbers, in the order of `created_at` by which candidates are sorted, and that there are finitely many.

**SyncService**. `SyncInvariant`: every reservation, and every thread's copy of one, has a number of its own (`Unique`); only a thread that has taken up its account can lose it to age (`Begun`); as long as no call hangs, failures and streak agree, and a thread about to deactivate an account has N of them (`Timely`). `SyncsApart`, `PushIsRemembered` and `DeactivationIsEarned` follow. `OthersKeepTheirs` is the same argument for the release: the number in hand is compared with the registered one, and equal numbers are the same reservation. That the drain starts no more threads than the cap allows is a lemma on cardinalities (`LowestFits`, by an injection).

**DeltaSync**. `DeltaTypes` holds for any number of workers. `DeltaInvariant`, `LossesCorrect` and `AnswersCorrect` assume one worker, and need it: TLC refutes both properties with two. The invariant says of each event up to the one fetched that it was passed over for a named reason, lies behind the checkpoint, or will be mirrored by the commit to come (`Planned`, `Handled`).

**QuickSteps**. `QuickInvariant`: how far a chain is and which actions it did (`Chains`), so that a chain recorded without a failure did all of them; that an evaluation at work has rules and a mail (`Loaded`), and the sweep pairs of its own whose rows it knows unless its query failed (`SweepWork`, `SweepRows`); that an answered key has a report (`Kept`). `FiredCorrect`, `SweepCorrect` and `ReplayCorrect` follow.

`RerunsCorrect` counts, and assumes nothing of the lists. An evaluation that has begun a pair is blocked for it, by its chain until the row is written and by the row afterwards; it begins the pair again only after a mishap has unblocked it (`BlockedStays`). The sweep is the exception that needs care: its batch does not have the rows it writes itself, so a rule that stands in its list twice is run twice. But it comes to each place of its list once; the place at which it began the pair is taken until it asks for the rows anew (`SweepMoves`, `TakenStays`). So the runs of a pair are at most the blocked threads and the taken places (`Begins`), and as many threads and places again per mishap (`Counted`). That is the bound of `RerunsBounded`: an evaluation thread or a place in the sweep's list each run a rule at most once per mishap, and once without.

Checked by TLC only: everything under fairness (`ActiveJobsSettle`, `DueIsSettled`, `AcceptedIsServed`, `JobsEnd`, `QueueIsServed`, `CheckpointAdvances`, `Settles`), which needs ENABLED; and all violations, which are behaviours of one instance.

## Disagreements found

Two runs TLC ends with a counterexample:

- `qs_refire`: `handlers/reply.py:124` says that the audit log prevents a pair from firing more than once across arrival, mark-read and reply. The look comes before the chain and the row after it: two evaluations under way at once both run the rule, without any fault (`auto_trigger.py:1083`).
- `delta_reply`: the docstring at `sync_service.py:158` says that replies fire only after a successful commit and are dropped on rollback. The `after_commit` hook also runs when a savepoint is released, so that the reply to one mail leaves when the next mail of the batch is inserted; a rollback then takes the row away (`sync_service.py:184`).

Seen in the models without a run of their own. The properties named are defined in the modules, and each can be put into a configuration to see its counterexample.

- BulkJobs: a boot does not wait for the threads of the worker before it, and its recovery takes the item of a living thread for an orphan. The comment calls that safe "because every supported op is idempotent" (`worker.py:813`); the provider's side is, but the item is executed and counted twice, and a verdict may be wrong (with the exemption of `shared` dropped, `ClaimIsExclusive` and `CountersMatchItems` fail); a throttled or transient call in flight at a cancel puts its item back to pending in the cancelled job (`CancelledHasNoPending`); a retry between the snapshot and the update of `finalize_job_if_drained` leaves a finished job with pending items (`FinalizedIsDrained`); a crash after the last result and before the verdict leaves the job running, and no boot finalizes it (`DrainedJobsFinish`); `retry_failed` resumes a paused job and lowers `failed_count`.
- ScheduledSend: a crash after the delivery and a lookup answered by an HttpError send the message twice (`NoCopyUnsought` allows this second copy and no other); recovery runs at start only and for old rows, so that a row can stay in `sending` (`SendingResolves`); an edit accepted between the poll and the claim is not sent (`SendsCurrentPayload`), and a postponed message leaves at the old time; send-now requests with old rows exceed `MAX_SEND_ATTEMPTS`, by one attempt each at most (`AttemptsCapped`); a cancelled message may have left in an attempt whose record was lost.
- DraftQueue: a cancel that comes while the draft is being written stays in the registry, and the next request for the e-mail starts out cancelled (`StartsUncancelled`).
- SyncJobs: a run that came back late and finds its job in the queue under its own lease completes it (`RecordsOnlyUnderLease`, `sync_jobs.py:698`); two dispatchers together exceed the concurrency (`WithinCap`, `sync_jobs.py:402`); a wider request merged into a running job is completed with the narrower limit of the run; taking back an expired lease has no limit of attempts; a replaced stale job loses the limits merged into it and its place; an error of the dispatch after the commit of a request reaches the HTTP caller.
- SyncService: an account is deactivated after failures of which only the last was permanent (`OnlyRevokedDeactivates`, `sync_service.py:476`); a failed load of the accounts uses up a push; `trigger_sync` may answer True with nothing started; a full sync that hangs holds the loop; the drain takes accounts by id and not in their order.
- DeltaSync: what `gap` allows is lost behind the checkpoint (`NothingIsSkipped`, `gmail_adapter.py:2820`): any insert error is swallowed as a duplicate while the checkpoint moves on; a transient answer moves `last_sync_at`, so that a fallback skips the time before it; events between fetch and `get_current_history_id`; mails over the limit; unreadable mails; removals under the fallback; a removal whose error is swallowed (`sync_service.py:1352`), and, where the error aborts the transaction (PostgreSQL), every other row of that batch. After "database is locked", `update_sync_time` has rolled back and reports success. Two workers on one account, which a stale reservation allows, lose mail in further ways and answer old mail.
- QuickSteps: `auto_trigger.py:1245` says that the log guarantees that a rule which already fired on an e-mail is never re-applied (`SweepNeverReapplies`). The sweep asks the log once, for up to 300 mails, and then runs chains for minutes (`auto_trigger.py:1284`): a rule that an arrival runs meanwhile is run again, with one evaluation, one rule and no fault. (Rows that were there when the sweep began are honoured: `SweepHonoursRows`.) The same promise fails for the sweep alone when a rule is twice in the list (`RuleTwice`): `PUT /quicksteps/order` stores a repeated id as a second copy (`api/quicksteps.py:108`), and `validate_collection` in `schema.py`, which would reject it, has no caller. The rule runs once for each copy and no more often (`RerunsBounded`). Further, a double click while the first call is under way executes twice, though the docstring says that it is deduplicated for 60 seconds; an error of the dedup query means "has not fired", though the docstring calls it failure-closed; `record_execution` swallows its exceptions, so that the engine's branch for a failed audit row is dead.

## What is not modelled

Inside the modelled components: wall-clock time (due, old and idle are states, not numbers), wording, events to the clients, the legacy import of scheduled messages, SQLite's busy timeout, and the Redis backend of the draft queue. In ScheduledSend, ids are never reused. A user who schedules again a message that was reported failed creates a new message.

Inside the newer models, what each leaves out is said with its state table. Hazards that no model reaches: the back-off of a bulk job sleeps inside a SQLite write transaction and its worker writes `settings_json` through a second connection (`worker.py:650`, `588`); the auto-deletion scheduler checks and enqueues in two transactions, remembers the day before the tick has succeeded, and its two kinds of purge share one job type, so that one suppresses the other while it is active (`scheduler.py:178`); a PATCH of a scheduled message is two transactions (`scheduled_emails.py:436`); a refused draft request unregisters an event that another request shares (`routes_emails.py:6856`).

Whole components: see the list above and `PROJECT.json`.

- Offline action queue: nothing calls `queue_action`, and `process_all_pending_actions` imports `get_provider_for_account`, which `providers/factory.py` does not define. Circuit breaker: nothing calls it. There is no behaviour to check.
- Prompts, adapters, clients, route plumbing: no state that two actors share. What an adapter does with an error is in the callers' models.
- Utilities around one lock (rate limiter, cache, retry), cost arithmetic, onboarding: sequential, and within reach of unit tests.
- The Redis backend of the draft queue: its admission is one script on the server, an optional deployment.

## Plan

In the order in which it would add most:

1. `DraftRedis`: the admission script, TTLs and release of the shared backend, against `Desk`, the promise that `DraftQueue` implements.
2. `OptimisticFolder`: the folder change made before a bulk job runs and undone for its failed items, composed with `BulkJobs`, and the auto-deletion tick that creates its jobs.
3. The rest of one sync: the one-time backfills and the SENT pull, which write the same rows as `DeltaSync` without the checkpoint.
4. Abstract specifications of the rest: a mirror that `DeltaSync` implements up to the named losses, and for `SyncJobs` a board of requests and what was done for them.
