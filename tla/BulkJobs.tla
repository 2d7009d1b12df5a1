------------------------------ MODULE BulkJobs ------------------------------
(***************************************************************************)
(* The bulk-action queue of app/services/bulk_jobs: the rows of bulk_jobs  *)
(* and bulk_job_items, the HTTP handlers that pause, resume, cancel, retry *)
(* and dismiss a job, and one account-queue thread per account that claims *)
(* an item, calls the mail provider and records the result.  Every action  *)
(* is one committed transaction, one unlocked read, or one provider call.  *)
(***************************************************************************)
EXTENDS Integers, FiniteSets

CONSTANTS
    Jobs,               \* bulk job ids; the ULIDs grow with creation time
    Items,              \* bulk_job_items.id, an autoincrement key
    JobOf,              \* the job of each item
    Accounts,           \* mail accounts
    AccountOf,          \* the account of each job
    Threads,            \* identities for account-queue threads
    Serves,             \* the account of each thread
    ITEM_MAX_ATTEMPTS,  \* provider errors after which an item is failed
    Faults,             \* may a commit fail, a thread die, the process crash?
    MaxStops,           \* bound: how often the worker is stopped or crashes
    None                \* the "no item" of an idle thread

ASSUME IdsAssumption ==
    /\ Jobs \subseteq Nat /\ Items \subseteq Nat
    /\ IsFiniteSet(Items) /\ IsFiniteSet(Jobs)
    /\ None \notin Items
ASSUME OwnerAssumption ==
    /\ JobOf \in [Items -> Jobs]
    /\ AccountOf \in [Jobs -> Accounts]
    /\ Serves \in [Threads -> Accounts]
ASSUME AttemptsAssumption == ITEM_MAX_ATTEMPTS \in Nat \ {0}
ASSUME SwitchAssumption == Faults \in BOOLEAN /\ MaxStops \in Nat

VARIABLES
    status,    \* bulk_jobs.status ("absent": not created, "deleted": dismissed)
    count,     \* bulk_jobs.succeeded_count, failed_count, skipped_count
    item,      \* bulk_job_items.state ("none": there is no row)
    attempts,  \* bulk_job_items.attempts
    phase,     \* the worker singleton: running, stopped, or process dead
    stops,     \* counted up to MaxStops
    queues,    \* the live threads in the registry of the current worker
    stopping,  \* threads whose _stop event is set
    pc,        \* what each account-queue thread does next
    held,      \* ClaimedItem.item_id of each thread
    tries,     \* ClaimedItem.attempts, read at the claim
    note,      \* provider outcome, then the verdict of finalize's snapshot
    shared,    \* history: items put back to pending while a thread was at work on them
    overtaken  \* history: jobs claimed from while another thread had their verdict ready

jobVars == <<status, count>>
itemVars == <<item, attempts>>
workerVars == <<phase, stops, queues, stopping>>
threadVars == <<pc, held, tries, note>>
history == <<shared, overtaken>>
vars == <<status, count, item, attempts, phase, stops, queues, stopping, pc, held, tries,
          note, shared, overtaken>>

-----------------------------------------------------------------------------
(* Values of the columns (app/db/models/bulk_job.py). *)

Terminal == {"completed", "failed", "cancelled"}
Unfinished == {"queued", "running", "paused"}
Status == Terminal \cup Unfinished \cup {"absent", "deleted"}
Resolved == {"succeeded", "failed", "skipped"}
Open == {"pending", "in_progress"}

\* _OpOutcome, by what the worker does with it.  "doomed" stands for
\* fatal_for_job, auth_failed and a provider that cannot be built.
Outcomes == {"ok", "gone", "throttled", "starved", "doomed", "rejected", "transient"}

PCs == {"off", "poll", "check", "requeue", "skip", "exec", "record", "settle", "finalize"}

JobTypes == status \in [Jobs -> Status]
CountTypes == count \in [Jobs -> [Resolved -> Nat]]
RowTypes ==
    /\ item \in [Items -> Resolved \cup Open \cup {"none"}]
    /\ attempts \in [Items -> Nat]
WorkerTypes ==
    /\ phase \in {"running", "stopped", "dead"}
    /\ stops \in 0..MaxStops
    /\ queues \in SUBSET Threads
    /\ stopping \in SUBSET Threads
ThreadTypes ==
    /\ pc \in [Threads -> PCs]
    /\ held \in [Threads -> Items \cup {None}]
    /\ tries \in [Threads -> Nat]
    /\ note \in [Threads -> Outcomes \cup {"completed", "failed", "none"}]
HistoryTypes == shared \in SUBSET Items /\ overtaken \in SUBSET Jobs
TypeOK == JobTypes /\ CountTypes /\ RowTypes /\ WorkerTypes /\ ThreadTypes /\ HistoryTypes

-----------------------------------------------------------------------------
(* Queries and statements of BulkJobRepository. *)

ItemsOf(j) == {i \in Items : JobOf[i] = j}
In(j, s) == {i \in ItemsOf(j) : item[i] = s}
Exists(j) == status[j] \notin {"absent", "deleted"}
Drained(j) == \A i \in ItemsOf(j) : item[i] \notin Open

\* UPDATE ... SET state = s for the items M of job j, and the counter of s
\* goes up by as many, whatever state the items were in.  A statement on a
\* dismissed job changes no row.
Resolve(M, j, s) ==
    /\ item' = [i \in Items |-> IF i \in M /\ Exists(j) THEN s ELSE item[i]]
    /\ count' = IF Exists(j)
                THEN [count EXCEPT ![j][s] = @ + Cardinality(M)]
                ELSE count

\* requeue_item_for_retry: back to pending, whatever the job's status.
Requeue(i, bump) ==
    /\ item' = IF Exists(JobOf[i]) THEN [item EXCEPT ![i] = "pending"] ELSE item
    /\ attempts' = IF Exists(JobOf[i])
                   THEN [attempts EXCEPT ![i] = @ + bump] ELSE attempts

\* Items the claim may pick once queued jobs with work are running.
Claimable(a) == {i \in Items : /\ AccountOf[JobOf[i]] = a
                               /\ status[JobOf[i]] \in {"queued", "running"}
                               /\ item[i] = "pending"}

\* ORDER BY job.created_at, item.id
Before(i, k) == \/ JobOf[i] < JobOf[k]
                \/ JobOf[i] = JobOf[k] /\ i <= k

\* Slip: the rule before the fix, `failed_count == target_total`.
VerdictAllFailed(j) == IF count[j]["failed"] = Cardinality(ItemsOf(j))
                       THEN "failed" ELSE "completed"

\* The status finalize_job_if_drained computes from its snapshot.
Verdict(j) == IF count[j]["failed"] > 0 /\ count[j]["succeeded"] = 0
              THEN "failed" ELSE "completed"

Init ==
    /\ status = [j \in Jobs |-> "absent"]
    /\ count = [j \in Jobs |-> [s \in Resolved |-> 0]]
    /\ item = [i \in Items |-> "none"]
    /\ attempts = [i \in Items |-> 0]
    /\ phase = "running"
    /\ stops = 0
    /\ queues = {}
    /\ stopping = {}
    /\ pc = [t \in Threads |-> "off"]
    /\ held = [t \in Threads |-> None]
    /\ tries = [t \in Threads |-> 0]
    /\ note = [t \in Threads |-> "none"]
    /\ shared = {}
    /\ overtaken = {}

-----------------------------------------------------------------------------
(* HTTP handlers.  They run while the process lives. *)

\* enqueue_job, create_job: a queued job with one pending item per message.
CreateJob(j) ==
    /\ phase # "dead"
    /\ status[j] = "absent"
    /\ \A k \in Jobs : k < j => status[k] # "absent"
    /\ status' = [status EXCEPT ![j] = "queued"]
    /\ item' = [i \in Items |-> IF JobOf[i] = j THEN "pending" ELSE item[i]]
    /\ UNCHANGED <<count, attempts, workerVars, threadVars, history>>

RequestPause(j) ==
    /\ phase # "dead"
    /\ status[j] \in {"queued", "running"}
    /\ status' = [status EXCEPT ![j] = "paused"]
    /\ UNCHANGED <<count, itemVars, workerVars, threadVars, history>>

RequestResume(j) ==
    /\ phase # "dead"
    /\ status[j] = "paused"
    /\ status' = [status EXCEPT ![j] = "queued"]
    /\ UNCHANGED <<count, itemVars, workerVars, threadVars, history>>

\* Slip: the item in progress is skipped too.
RequestCancelAll(j) ==
    /\ phase # "dead"
    /\ status[j] \in Unfinished
    /\ status' = [status EXCEPT ![j] = "cancelled"]
    /\ Resolve({i \in ItemsOf(j) : item[i] \in Open}, j, "skipped")
    /\ UNCHANGED <<attempts, workerVars, threadVars, history>>

\* The pending items are skipped and counted; an item in progress is left to
\* the thread that holds it.
RequestCancel(j) ==
    /\ phase # "dead"
    /\ status[j] \in Unfinished
    /\ status' = [status EXCEPT ![j] = "cancelled"]
    /\ Resolve(In(j, "pending"), j, "skipped")
    /\ UNCHANGED <<attempts, workerVars, threadVars, history>>

\* Slip: target_total is subtracted instead of the row count, with no floor.
RetryFailedTotal(j) ==
    LET failed == In(j, "failed") IN
    /\ phase # "dead"
    /\ Exists(j) /\ failed # {}
    /\ item' = [i \in Items |-> IF i \in failed THEN "pending" ELSE item[i]]
    /\ attempts' = [i \in Items |-> IF i \in failed THEN 0 ELSE attempts[i]]
    /\ status' = [status EXCEPT ![j] = "queued"]
    /\ count' = [count EXCEPT ![j]["failed"] = @ - Cardinality(ItemsOf(j))]
    /\ UNCHANGED <<workerVars, threadVars, history>>

\* Every failed item goes back to pending and the job back to queued, from
\* whatever status it had.  failed_count is floored at 0 (SQL's MAX(0, x)).
RetryFailed(j) ==
    LET failed == In(j, "failed")
        left == count[j]["failed"] - Cardinality(failed)
    IN  /\ phase # "dead"
        /\ Exists(j) /\ failed # {}
        /\ item' = [i \in Items |-> IF i \in failed THEN "pending" ELSE item[i]]
        /\ attempts' = [i \in Items |-> IF i \in failed THEN 0 ELSE attempts[i]]
        /\ status' = [status EXCEPT ![j] = "queued"]
        /\ count' = [count EXCEPT ![j]["failed"] = IF left > 0 THEN left ELSE 0]
        /\ UNCHANGED <<workerVars, threadVars, history>>

\* delete_job and vacuum_old_terminal_jobs: the items cascade.
DeleteJob(j) ==
    /\ phase # "dead"
    /\ status[j] \in Terminal
    /\ status' = [status EXCEPT ![j] = "deleted"]
    /\ item' = [i \in Items |-> IF JobOf[i] = j THEN "none" ELSE item[i]]
    /\ count' = [count EXCEPT ![j] = [s \in Resolved |-> 0]]
    /\ UNCHANGED <<attempts, workerVars, threadVars, history>>

-----------------------------------------------------------------------------
(* The account-queue thread. *)

\* The thread is done with its item and goes on at `where`.
Release(t, where) ==
    /\ pc' = [pc EXCEPT ![t] = where]
    /\ held' = [held EXCEPT ![t] = None]
    /\ tries' = [tries EXCEPT ![t] = 0]
    /\ note' = [note EXCEPT ![t] = "none"]

\* Slip: only running jobs make an account active.
SpawnForRunning(t) ==
    /\ phase = "running" /\ pc[t] = "off"
    /\ \A u \in queues : Serves[u] # Serves[t]
    /\ \E j \in Jobs : AccountOf[j] = Serves[t] /\ status[j] = "running"
    /\ pc' = [pc EXCEPT ![t] = "poll"]
    /\ queues' = queues \cup {t}
    /\ UNCHANGED <<jobVars, itemVars, phase, stops, stopping, held, tries, note, history>>

\* _spawn_queues_for_active_accounts: one live thread per account in the registry of
\* the worker, which knows nothing of the threads an earlier worker left.
Register(t) ==
    /\ pc[t] = "off"
    /\ \A u \in queues : Serves[u] # Serves[t]
    /\ \E j \in Jobs : AccountOf[j] = Serves[t] /\ status[j] \in {"queued", "running"}
    /\ pc' = [pc EXCEPT ![t] = "poll"]
    /\ queues' = queues \cup {t}
    /\ UNCHANGED <<jobVars, itemVars, phase, stops, stopping, held, tries, note, history>>

Spawn(t) == phase = "running" /\ Register(t)

\* The dispatcher was in its tick when stop() took the list of queues: nobody tells
\* this thread to stop.
LateSpawn(t) == phase = "stopped" /\ Register(t)

\* Jobs of which a thread has the verdict ready.
Judged(J) == {j \in J : \E u \in Threads : pc[u] = "finalize" /\ JobOf[held[u]] = j}

\* Slip: items left in progress are taken up too.
ClaimStuck(t) ==
    LET ready == {i \in Items : /\ AccountOf[JobOf[i]] = Serves[t]
                                /\ status[JobOf[i]] \in {"queued", "running"}
                                /\ item[i] \in Open}
    IN  /\ pc[t] = "poll" /\ t \notin stopping
        /\ \E i \in ready :
            /\ \A k \in ready : Before(i, k)
            /\ item' = [item EXCEPT ![i] = "in_progress"]
            /\ held' = [held EXCEPT ![t] = i]
            /\ tries' = [tries EXCEPT ![t] = attempts[i]]
            /\ overtaken' = overtaken \cup Judged({JobOf[i]})
        /\ status' = [j \in Jobs |-> IF status[j] = "queued" /\ \E k \in ready : JobOf[k] = j
                                     THEN "running" ELSE status[j]]
        /\ pc' = [pc EXCEPT ![t] = "check"]
        /\ UNCHANGED <<count, attempts, workerVars, note, shared>>

\* claim_next_pending_for_account and its commit: queued jobs with work become
\* running, and the oldest pending item of a running job becomes in progress.
Claim(t) ==
    LET ready == Claimable(Serves[t]) IN
    /\ pc[t] = "poll" /\ t \notin stopping
    /\ \E i \in ready :
        /\ \A k \in ready : Before(i, k)
        /\ item' = [item EXCEPT ![i] = "in_progress"]
        /\ held' = [held EXCEPT ![t] = i]
        /\ tries' = [tries EXCEPT ![t] = attempts[i]]
        /\ overtaken' = overtaken \cup Judged({JobOf[i]})
    /\ status' = [j \in Jobs |-> IF status[j] = "queued" /\ \E k \in ready : JobOf[k] = j
                                 THEN "running" ELSE status[j]]
    /\ pc' = [pc EXCEPT ![t] = "check"]
    /\ UNCHANGED <<count, attempts, workerVars, note, shared>>

\* The thread has ended and is in no registry.
Gone(t) == stopping' = stopping \ {t} /\ queues' = queues \ {t}

\* The loop ends: nothing to claim for the idle timeout, or _stop is set.
Exit(t) ==
    /\ pc[t] = "poll"
    /\ t \in stopping \/ Claimable(Serves[t]) = {}
    /\ pc' = [pc EXCEPT ![t] = "off"]
    /\ Gone(t)
    /\ UNCHANGED <<jobVars, itemVars, phase, stops, held, tries, note, history>>

\* get_job_status after the claim: the user may have paused or cancelled.
CheckParent(t) ==
    LET parent == status[JobOf[held[t]]] IN
    /\ pc[t] = "check"
    /\ pc' = [pc EXCEPT ![t] = CASE parent = "paused" -> "requeue"
                                 [] parent \in Terminal -> "skip"
                                 [] OTHER -> "exec"]
    /\ UNCHANGED <<jobVars, itemVars, workerVars, held, tries, note, history>>

RequeuePaused(t) ==
    /\ pc[t] = "requeue"
    /\ Requeue(held[t], 0)
    /\ Release(t, "poll")
    /\ UNCHANGED <<jobVars, workerVars, history>>

SkipInactive(t) ==
    /\ pc[t] = "skip"
    /\ Resolve({held[t]}, JobOf[held[t]], "skipped")
    /\ pc' = [pc EXCEPT ![t] = "settle"]
    /\ tries' = [tries EXCEPT ![t] = 0]
    /\ UNCHANGED <<status, attempts, workerVars, held, note, history>>

\* The token bucket and the provider call; the outcome is known to the thread
\* only.
Execute(t, o) ==
    /\ pc[t] = "exec"
    /\ note' = [note EXCEPT ![t] = o]
    /\ pc' = [pc EXCEPT ![t] = "record"]
    /\ UNCHANGED <<jobVars, itemVars, workerVars, held, tries, history>>

\* An empty bucket returns to the loop; every other outcome tries to finalize.
Recorded(t) ==
    /\ pc[t] = "record"
    /\ \/ /\ note[t] = "starved"
          /\ Release(t, "poll")
       \/ /\ note[t] # "starved"
          /\ pc' = [pc EXCEPT ![t] = "settle"]
          /\ tries' = [tries EXCEPT ![t] = 0]
          /\ note' = [note EXCEPT ![t] = "none"]
          /\ UNCHANGED held
    /\ UNCHANGED <<status, workerVars, history>>

MarkSucceeded(t) ==
    /\ note[t] = "ok"
    /\ Recorded(t)
    /\ Resolve({held[t]}, JobOf[held[t]], "succeeded")
    /\ UNCHANGED attempts

MarkSkipped(t) ==
    /\ note[t] = "gone"
    /\ Recorded(t)
    /\ Resolve({held[t]}, JobOf[held[t]], "skipped")
    /\ UNCHANGED attempts

\* A provider throttle or an empty bucket does not spend the retry budget.
RequeueThrottled(t) ==
    /\ note[t] \in {"throttled", "starved"}
    /\ Recorded(t)
    /\ Requeue(held[t], 0)
    /\ UNCHANGED count

\* Slip: every item of the job is failed, not only the pending ones.
FailWholeJob(t) ==
    LET j == JobOf[held[t]] IN
    /\ note[t] = "doomed"
    /\ Recorded(t)
    /\ Resolve(ItemsOf(j), j, "failed")
    /\ UNCHANGED attempts

\* mark_item_failed and fail_remaining_pending in one transaction.
FailJob(t) ==
    LET j == JobOf[held[t]] IN
    /\ note[t] = "doomed"
    /\ Recorded(t)
    /\ Resolve({held[t]} \cup In(j, "pending"), j, "failed")
    /\ UNCHANGED attempts

\* Slip: one attempt too many.
GivesUpLate(t) == note[t] = "rejected" \/ tries[t] + 1 > ITEM_MAX_ATTEMPTS

GivesUp(t) == note[t] = "rejected" \/ tries[t] + 1 >= ITEM_MAX_ATTEMPTS

MarkFailed(t) ==
    /\ note[t] \in {"rejected", "transient"} /\ GivesUp(t)
    /\ Recorded(t)
    /\ Resolve({held[t]}, JobOf[held[t]], "failed")
    /\ UNCHANGED attempts

RequeueTransient(t) ==
    /\ note[t] = "transient" /\ ~GivesUp(t)
    /\ Recorded(t)
    /\ Requeue(held[t], 1)
    /\ UNCHANGED count

\* finalize_job_if_drained, its SELECT: outside any transaction.
Settle(t) ==
    LET j == JobOf[held[t]] IN
    /\ pc[t] = "settle"
    /\ \/ /\ status[j] \notin Unfinished \/ ~Drained(j)
          /\ Release(t, "poll")
       \/ /\ status[j] \in Unfinished /\ Drained(j)
          /\ pc' = [pc EXCEPT ![t] = "finalize"]
          /\ note' = [note EXCEPT ![t] = Verdict(j)]
          /\ UNCHANGED <<held, tries>>
    /\ UNCHANGED <<jobVars, itemVars, workerVars, history>>

\* Slip: the update trusts the snapshot.
FinalizeBlindly(t) ==
    /\ pc[t] = "finalize"
    /\ status' = [status EXCEPT ![JobOf[held[t]]] = note[t]]
    /\ Release(t, "poll")
    /\ UNCHANGED <<count, itemVars, workerVars, history>>

\* Its UPDATE, guarded by the status alone, and the commit.
Finalize(t) ==
    LET j == JobOf[held[t]] IN
    /\ pc[t] = "finalize"
    /\ status' = IF status[j] \in Unfinished
                 THEN [status EXCEPT ![j] = note[t]] ELSE status
    /\ Release(t, "poll")
    /\ UNCHANGED <<count, itemVars, workerVars, history>>

-----------------------------------------------------------------------------
(* Failures and the worker's life cycle. *)

\* The commit of a result, or of a verdict, fails and is rolled back; the loop goes on.
LoseResult(t) ==
    /\ Faults
    /\ \/ Recorded(t) /\ note[t] # "starved"
       \/ pc[t] = "finalize" /\ Release(t, "poll") /\ UNCHANGED <<status, workerVars, history>>
    /\ UNCHANGED <<count, itemVars>>

\* A statement raises ("database is locked"): the session rolls back and the
\* thread ends; the dispatcher will spawn another.
ThreadDies(t) ==
    /\ Faults
    /\ pc[t] \notin {"off", "poll"}
    /\ Release(t, "off")
    /\ Gone(t)
    /\ UNCHANGED <<jobVars, itemVars, phase, stops, history>>

Crash ==
    /\ Faults
    /\ phase # "dead" /\ stops < MaxStops
    /\ phase' = "dead" /\ stops' = stops + 1
    /\ queues' = {} /\ stopping' = {}
    /\ pc' = [t \in Threads |-> "off"]
    /\ held' = [t \in Threads |-> None]
    /\ tries' = [t \in Threads |-> 0]
    /\ note' = [t \in Threads |-> "none"]
    /\ UNCHANGED <<jobVars, itemVars, history>>

\* shutdown_worker: every queue is told to stop; the joins may time out.
Shutdown ==
    /\ phase = "running" /\ stops < MaxStops
    /\ phase' = "stopped" /\ stops' = stops + 1
    /\ stopping' = stopping \cup queues
    /\ UNCHANGED <<jobVars, itemVars, queues, threadVars, history>>

Working == {"check", "requeue", "skip", "exec", "record"}

\* init_worker, start: recover_orphaned_in_progress, which may fail, then the dispatcher
\* with an empty registry.  It does not ask whether threads of the last worker are alive.
Boot ==
    /\ phase # "running"
    /\ phase' = "running" /\ queues' = {}
    /\ \/ LET orphans == {i \in Items : item[i] = "in_progress"} IN
          /\ item' = [i \in Items |-> IF i \in orphans THEN "pending" ELSE item[i]]
          /\ shared' = shared \cup {i \in orphans : \E t \in Threads : pc[t] \in Working /\ held[t] = i}
       \/ Faults /\ UNCHANGED <<item, shared>>
    /\ UNCHANGED <<jobVars, attempts, stops, stopping, threadVars, overtaken>>

-----------------------------------------------------------------------------
UserStep ==
    \E j \in Jobs : \/ CreateJob(j) \/ RequestPause(j) \/ RequestResume(j)
                    \/ RequestCancel(j) \/ RetryFailed(j) \/ DeleteJob(j)

Record(t) == \/ MarkSucceeded(t) \/ MarkSkipped(t) \/ RequeueThrottled(t)
             \/ FailJob(t) \/ MarkFailed(t) \/ RequeueTransient(t)

ThreadStep(t) ==
    \/ Claim(t) \/ Exit(t) \/ CheckParent(t) \/ RequeuePaused(t) \/ SkipInactive(t)
    \/ \E o \in Outcomes : Execute(t, o)
    \/ Record(t) \/ Settle(t) \/ Finalize(t)

FaultStep == Crash \/ \E t \in Threads : LoseResult(t) \/ ThreadDies(t)

Next ==
    \/ UserStep
    \/ \E t \in Threads : Spawn(t) \/ LateSpawn(t) \/ ThreadStep(t)
    \/ FaultStep
    \/ Shutdown
    \/ Boot

Spec == Init /\ [][Next]_vars

\* The threads and the dispatcher keep running, and a stopped or crashed
\* backend is started again.  Users owe the system nothing.
Fairness ==
    /\ \A t \in Threads : WF_vars(ThreadStep(t))
    /\ \A t \in Threads : WF_vars(Spawn(t))
    /\ WF_vars(Boot)

FairSpec == Spec /\ Fairness
-----------------------------------------------------------------------------
(* Properties. *)

\* Jobs of which no item was put back under a thread's hands, and those whose verdict
\* was not overtaken either.
Unshared(j) == \A i \in shared : JobOf[i] # j
Sound(j) == Unshared(j) /\ j \notin overtaken

\* The three counters of a job are the numbers of its items in the three resolved
\* states: through cancels, cascades, retries, lost commits, crashes, dismissals and
\* two generations of threads no result is counted twice or forgotten, unless a boot
\* put an item back that a thread was still at work on.  The progress bar and the
\* verdict of finalize_job_if_drained are computed from them.
CountersMatchItems ==
    \A j \in Jobs : Unshared(j) =>
        \A s \in Resolved : count[j][s] = Cardinality(In(j, s))

\* The claim is exclusive ("a race that would let two workers pop the same row",
\* claim_next_pending_for_account) among however many threads two workers have left an
\* account: an item that a thread holds is in progress, unless its job is dismissed,
\* and no other thread holds it.  The one way round it is a boot, whose recovery
\* takes the item of a living thread for an orphan.
ClaimIsExclusive ==
    \A t \in Threads : pc[t] \in Working /\ held[t] \notin shared =>
        /\ item[held[t]] \in {"in_progress", "none"}
        /\ \A u \in Threads \ {t} : pc[u] \in Working => held[u] # held[t]

\* An item is never claimed with its retry budget spent: the attempt that reaches
\* ITEM_MAX_ATTEMPTS fails it, and neither a pause, a throttle nor a restart lets it
\* have one more (the comment "bug #9" of the worker), unless two threads try it.
AttemptsWithinBudget ==
    \A i \in Items \ shared : item[i] \in Open => attempts[i] < ITEM_MAX_ATTEMPTS

\* The colour the user sees is honest: a failed job has no success, and a completed
\* one has a success or no failure (the rule and its comment in
\* finalize_job_if_drained), although the verdict is computed from a snapshot that
\* handlers and the threads of another worker may overtake.
VerdictIsHonest ==
    \A j \in Jobs : Sound(j) =>
        /\ status[j] = "failed" => count[j]["succeeded"] = 0
        /\ status[j] = "completed" => count[j]["failed"] = 0 \/ count[j]["succeeded"] > 0

\* A result is final: an item that succeeded or was skipped keeps that state until its
\* job is dismissed, and a failed one leaves it only for another attempt the user asks
\* for.
ResultsAreFinal ==
    [][\A i \in Items \ shared :
        /\ item[i] \in {"succeeded", "skipped"} => item'[i] \in {item[i], "none"}
        /\ item[i] = "failed" => \/ item'[i] \in {"failed", "none"}
                                \/ RetryFailed(JobOf[i])]_vars

\* A job the user has cancelled stays cancelled, even when the cancel falls
\* between the snapshot and the update of finalize_job_if_drained; only the
\* user's retry or dismissal takes it out of a terminal status.
TerminalIsLeftByUser ==
    [][\A j \in Jobs : status[j] \in Terminal =>
        status'[j] = status[j] \/ RetryFailed(j) \/ DeleteJob(j)]_vars

\* All of this together, seen from outside: whatever is claimed, put back, lost or
\* recovered, jobs and items go the way Ledger promises.  A result is given once,
\* none comes after the verdict, and the verdict agrees with the items themselves.
\* The promise ends for a job where two workers' threads met in it.
Told(j) == IF ~Sound(j) THEN "void"
           ELSE CASE status[j] \in Unfinished -> "open"
                  [] status[j] = "deleted" -> "gone"
                  [] OTHER -> status[j]
Result(i) == IF ~Sound(JobOf[i]) THEN "none" ELSE IF item[i] \in Open THEN "open" ELSE item[i]
Promise == INSTANCE Ledger WITH told <- [j \in Jobs |-> Told(j)],
                                result <- [i \in Items |-> Result(i)]
ImplementsLedger == Promise!Spec

\* Once users leave the queue alone and the provider stops throttling, every
\* active job reaches the end (or was paused or dismissed).
Disturbance ==
    \/ UserStep \/ Shutdown \/ FaultStep
    \/ \E t \in Threads : Execute(t, "throttled") \/ Execute(t, "starved")
Quiet == <>[][~Disturbance]_vars
ActiveJobsSettle ==
    Quiet => \A j \in Jobs : status[j] \in {"queued", "running"}
                                ~> status[j] \notin {"queued", "running"}

\* finalize_job_if_drained: "If no items remain pending or in_progress, mark
\* the job completed/failed": a running job with no item left is finalized.
DrainedJobsFinish ==
    Quiet => \A j \in Jobs : (status[j] = "running" /\ Drained(j))
                                ~> (status[j] # "running" \/ ~Drained(j))

\* request_cancel: "Mark job cancelled and skip every remaining pending item";
\* what is in progress "finish[es] naturally".
CancelledHasNoPending ==
    \A j \in Jobs : status[j] = "cancelled" => In(j, "pending") = {}

\* finalize_job_if_drained, the other way round: a job marked completed or
\* failed has no item pending or in progress.
FinalizedIsDrained ==
    \A j \in Jobs : status[j] \in {"completed", "failed"} => Drained(j)
=============================================================================
