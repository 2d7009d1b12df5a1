------------------------------ MODULE SyncJobs ------------------------------
(***************************************************************************)
(* The provider-sync queue (services/sync_jobs.py) on PostgreSQL, several  *)
(* threads or processes on one table.  enqueue_sync_job creates a job or   *)
(* merges the request into the active job of the account and folder; a     *)
(* dispatcher claims ready jobs with a lease and submits workers; a worker *)
(* records its outcome only while it still owns the lease.  Each database  *)
(* transaction is a Read step that takes its row locks and a Write step    *)
(* that commits and releases them.                                         *)
(***************************************************************************)
EXTENDS Integers, FiniteSets, FiniteSetsExt

CONSTANTS
    Requests,       \* calls of enqueue_sync_job
    Scopes,         \* pairs of an account and a folder
    ScopeOf,        \* the scope a request asks for
    LimitOf,        \* safe_limit of a request
    Accounts, AccountOf,    \* the account of a scope
    Shards, ShardOf,        \* _gmail_project_scope_key of an account
    Gmail,                  \* the accounts whose provider is gmail
    ACCOUNT_UNITS, SHARD_UNITS, \* quota of a window
    Dispatchers,    \* threads that may be in _dispatch_ready_sync_jobs
    Ticker,         \* the one of them that is the SyncJobTicker
    CONCURRENCY,    \* _max_dispatch_concurrency
    MAX_ATTEMPTS,   \* _MAX_ATTEMPTS
    JobIds,         \* bound: rows, numbered in the order of created_at
    Leases,         \* bound: lease owners (uuids)
    MaxMishaps,     \* bound: restarts, aborts, and workers that outlast a lease
    None

ASSUME SyncAssumption ==
    /\ ScopeOf \in [Requests -> Scopes] /\ LimitOf \in [Requests -> Nat]
    /\ AccountOf \in [Scopes -> Accounts] /\ ShardOf \in [Accounts -> Shards]
    /\ JobIds \subseteq Nat /\ IsFiniteSet(JobIds)
    /\ None \notin JobIds /\ None \notin Leases /\ None \notin Scopes
    /\ Ticker \in Dispatchers
ASSUME SyncLimits ==
    /\ MAX_ATTEMPTS \in Nat \ {0} /\ CONCURRENCY \in Nat \ {0}
    /\ ACCOUNT_UNITS \in Nat /\ SHARD_UNITS \in Nat
    /\ MaxMishaps \in Nat

VARIABLES
    jobs,       \* the table sync_jobs
    enq,        \* the transaction of each enqueue_sync_job
    disp,       \* the candidates each dispatcher has locked
    runs,       \* the _run_sync_job submitted for each lease
    accountUnits, shardUnits,   \* units_reserved in the current window
    mishaps                     \* counted up to their bound

quotaVars == <<accountUnits, shardUnits>>
vars == <<jobs, enq, disp, runs, quotaVars, mishaps>>

-----------------------------------------------------------------------------
Active == {"queued", "running", "retry_waiting"}
Plans == {"create", "replace", "requeue", "merge"}

\* age: 0, or 1 past the lease, or 2 past _STALE_SYNC_JOB_SECONDS, counted from
\* started_at, or from created_at before the first start.  backoff: backoff_until
\* lies ahead.  synced: the limit of the run that completed the job.
Job == [status: Active \cup {"none", "completed", "failed"}, scope: Scopes \cup {None},
        limit: Nat, owner: Leases \cup {None}, attempts: Nat, age: 0..2,
        backoff: BOOLEAN, synced: Nat]
Enqueue == [pc: {"new", "read", "done"}, plan: Plans \cup {None},
            job: JobIds \cup {None}, before: BOOLEAN]
Run == [pc: {"unused", "submitted", "syncing", "done"}, job: JobIds \cup {None},
        limit: Nat, late: BOOLEAN]

TypeOK ==
    /\ jobs \in [JobIds -> Job]
    /\ \A j \in JobIds :
        /\ jobs[j].status = "running" => jobs[j].owner # None
        /\ jobs[j].status # "none" => jobs[j].scope # None
    /\ enq \in [Requests -> Enqueue]
    /\ disp \in [Dispatchers -> SUBSET JobIds]
    /\ runs \in [Leases -> Run]
    /\ accountUnits \in [Accounts -> Nat] /\ shardUnits \in [Shards -> Nat]
    /\ mishaps \in 0..MaxMishaps

Init ==
    /\ jobs = [j \in JobIds |-> [status |-> "none", scope |-> None, limit |-> 0,
                 owner |-> None, attempts |-> 0, age |-> 0, backoff |-> FALSE, synced |-> 0]]
    /\ enq = [r \in Requests |-> [pc |-> "new", plan |-> None, job |-> None, before |-> FALSE]]
    /\ disp = [d \in Dispatchers |-> {}]
    /\ runs = [l \in Leases |-> [pc |-> "unused", job |-> None, limit |-> 0, late |-> FALSE]]
    /\ accountUnits = [a \in Accounts |-> 0] /\ shardUnits = [s \in Shards |-> 0]
    /\ mishaps = 0

IsActive(j) == jobs[j].status \in Active
LeaseExpired(j) == jobs[j].age >= 1
Stale(j) == jobs[j].age = 2

\* Rows a transaction in progress has locked, and the scopes whose advisory
\* lock one holds.
LockedByEnqueue == {enq[r].job : r \in {q \in Requests : enq[q].pc = "read"}}
LockedByDispatch == UNION {disp[d] : d \in Dispatchers}
Locked(j) == j \in LockedByEnqueue \cup LockedByDispatch
ScopeLocked(s) == \E q \in Requests : enq[q].pc = "read" /\ ScopeOf[q] = s

-----------------------------------------------------------------------------
(* enqueue_sync_job *)

\* The newest active job of the scope.
IsExisting(j, s) ==
    /\ jobs[j].scope = s /\ IsActive(j)
    /\ \A k \in JobIds : jobs[k].scope = s /\ IsActive(k) => k <= j

\* Slip: a running job is taken back whether or not its lease has expired.
EagerPlan(j) ==
    LET row == jobs[j] IN
    CASE row.status = "retry_waiting" -> IF row.backoff THEN "merge" ELSE "requeue"
      [] row.status = "running" -> "requeue"
      [] row.owner = None /\ Stale(j) -> "replace"
      [] OTHER -> "merge"

\* What to do with the existing job.
PlanFor(j) ==
    LET row == jobs[j] IN
    CASE row.status = "retry_waiting" -> IF row.backoff THEN "merge" ELSE "requeue"
      [] row.status = "running" /\ row.owner # None /\ LeaseExpired(j) -> "requeue"
      [] row.owner = None /\ Stale(j) -> "replace"
      [] OTHER -> "merge"

\* Slip: the advisory lock is not taken, as on a database that has none.
EnqueueReadUnlocked(r) ==
    LET s == ScopeOf[r] IN
    /\ enq[r].pc = "new"
    /\ \/ /\ \A j \in JobIds : ~IsExisting(j, s)
          /\ enq' = [enq EXCEPT ![r].pc = "read", ![r].plan = "create"]
       \/ \E j \in JobIds :
          /\ IsExisting(j, s)
          /\ ~Locked(j)
          /\ enq' = [enq EXCEPT ![r].pc = "read", ![r].plan = PlanFor(j), ![r].job = j]
    /\ UNCHANGED <<jobs, disp, runs, quotaVars, mishaps>>

\* pg_advisory_xact_lock on the scope, then SELECT ... FOR UPDATE.
EnqueueRead(r) ==
    LET s == ScopeOf[r] IN
    /\ enq[r].pc = "new"
    /\ ~ScopeLocked(s)
    /\ \/ /\ \A j \in JobIds : ~IsExisting(j, s)
          /\ enq' = [enq EXCEPT ![r].pc = "read", ![r].plan = "create"]
       \/ \E j \in JobIds :
          /\ IsExisting(j, s)
          /\ ~Locked(j)
          /\ enq' = [enq EXCEPT ![r].pc = "read", ![r].plan = PlanFor(j), ![r].job = j]
    /\ UNCHANGED <<jobs, disp, runs, quotaVars, mishaps>>

\* The row of a new job; created_at is now.
NewRow(r) ==
    [status |-> "queued", scope |-> ScopeOf[r], limit |-> LimitOf[r], owner |-> None,
     attempts |-> 0, age |-> 0, backoff |-> FALSE, synced |-> 0]
IsNext(j) == jobs[j].status = "none" /\ \A k \in JobIds : jobs[k].status = "none" => j <= k

\* No active job.
Create(r) ==
    /\ enq[r].pc = "read" /\ enq[r].plan = "create"
    /\ \E j \in JobIds :
        /\ IsNext(j)
        /\ jobs' = [jobs EXCEPT ![j] = NewRow(r)]
        /\ enq' = [enq EXCEPT ![r] = [pc |-> "done", plan |-> None, job |-> j, before |-> TRUE]]
    /\ UNCHANGED <<disp, runs, quotaVars, mishaps>>

\* A job that nobody has worked on for too long is failed and replaced.
Replace(r) ==
    /\ enq[r].pc = "read" /\ enq[r].plan = "replace"
    /\ \E j \in JobIds :
        /\ IsNext(j)
        /\ jobs' = [jobs EXCEPT ![enq[r].job].status = "failed", ![j] = NewRow(r)]
        /\ enq' = [enq EXCEPT ![r] = [pc |-> "done", plan |-> None, job |-> j, before |-> TRUE]]
    /\ UNCHANGED <<disp, runs, quotaVars, mishaps>>

Wider(r) == IF LimitOf[r] > jobs[enq[r].job].limit THEN LimitOf[r] ELSE jobs[enq[r].job].limit

\* Slip: the lease is taken away but the job is not put back.
RequeueHalf(r) ==
    LET j == enq[r].job IN
    /\ enq[r].pc = "read" /\ enq[r].plan = "requeue"
    /\ jobs' = [jobs EXCEPT ![j].backoff = FALSE, ![j].limit = Wider(r), ![j].owner = None]
    /\ enq' = [enq EXCEPT ![r].pc = "done", ![r].plan = None, ![r].before = TRUE]
    /\ UNCHANGED <<disp, runs, quotaVars, mishaps>>

\* Backoff elapsed, or the lease expired: back to the queue with the wider limit.
\* Only the second takes the lease away.
Requeue(r) ==
    LET j == enq[r].job IN
    /\ enq[r].pc = "read" /\ enq[r].plan = "requeue"
    /\ jobs' = [jobs EXCEPT ![j].status = "queued", ![j].backoff = FALSE, ![j].limit = Wider(r),
                            ![j].owner = IF jobs[j].status = "running" THEN None ELSE @]
    /\ enq' = [enq EXCEPT ![r].pc = "done", ![r].plan = None, ![r].before = TRUE]
    /\ UNCHANGED <<disp, runs, quotaVars, mishaps>>

\* Merged into the job as it is.
Merge(r) ==
    LET j == enq[r].job IN
    /\ enq[r].pc = "read" /\ enq[r].plan = "merge"
    /\ jobs' = [jobs EXCEPT ![j].limit = Wider(r)]
    /\ enq' = [enq EXCEPT ![r].pc = "done", ![r].plan = None,
                          ![r].before = (jobs[j].status # "running")]
    /\ UNCHANGED <<disp, runs, quotaVars, mishaps>>

-----------------------------------------------------------------------------
(* _dispatch_ready_sync_jobs: by the ticker, after an enqueue, after a run. *)

RunningUnderLease == {j \in JobIds : jobs[j].status = "running" /\ ~LeaseExpired(j)}
Slots == CONCURRENCY - Cardinality(RunningUnderLease)

\* Slip: a job left running by a dead worker is never a candidate.
ReadyButRunning(j) ==
    /\ ~Locked(j)
    /\ \/ jobs[j].status = "queued"
       \/ jobs[j].status = "retry_waiting" /\ ~jobs[j].backoff

\* FOR UPDATE SKIP LOCKED
Ready(j) ==
    /\ ~Locked(j)
    /\ \/ jobs[j].status = "queued"
       \/ jobs[j].status = "retry_waiting" /\ ~jobs[j].backoff
       \/ jobs[j].status = "running" /\ LeaseExpired(j)

Rank(j) == CASE jobs[j].status = "queued" -> 1
             [] jobs[j].status = "retry_waiting" -> 2
             [] OTHER -> 3
Before(i, j) == Rank(i) < Rank(j) \/ (Rank(i) = Rank(j) /\ i < j)

\* _ready_sync_job_candidates: the first of them, as many as there are slots.
Candidates(n) ==
    {j \in JobIds : Ready(j)
        /\ Cardinality({i \in JobIds : Ready(i) /\ Before(i, j)}) < n}

DispatchRead(d) ==
    /\ disp[d] = {}
    /\ Slots > 0
    /\ disp' = [disp EXCEPT ![d] = Candidates(Slots)]
    /\ UNCHANGED <<jobs, enq, runs, quotaVars, mishaps>>

\* _estimate_sync_job_provider_units
AccountOfJob(j) == AccountOf[jobs[j].scope]
Units(j) == IF AccountOfJob(j) \in Gmail THEN 5 + 20 * jobs[j].limit ELSE 0
UnitsOf(S) == MapThenSumSet(Units, S)

\* _reserve_gmail_quota, when the jobs of S have been granted before j.
Fits(j, S) ==
    LET a == AccountOfJob(j)
        inAccount(k) == AccountOfJob(k) = a
        inShard(k) == ShardOf[AccountOfJob(k)] = ShardOf[a] IN
    \/ Units(j) = 0
    \/ /\ shardUnits[ShardOf[a]] + UnitsOf({k \in S : inShard(k)}) + Units(j) <= SHARD_UNITS
       /\ accountUnits[a] + UnitsOf({k \in S : inAccount(k)}) + Units(j) <= ACCOUNT_UNITS

\* Slip: only what was reserved before this dispatch counts.
GrantedAtOnce(d, G) == G = {j \in disp[d] : Fits(j, {})}

\* G are the candidates that get their quota, each after those before it.
Granted(d, G) == \A j \in disp[d] : j \in G <=> Fits(j, {i \in G : Before(i, j)})

Fresh == {l \in Leases : runs[l].pc = "unused"}
Owners(G) == {own \in [G -> Fresh] : \A i, j \in G : own[i] = own[j] => i = j}

\* The candidates in G are claimed, the others deferred for the quota; after the
\* commit the workers are submitted.
Claim(d, G) ==
    LET own == CHOOSE f \in Owners(G) : TRUE IN
    /\ Owners(G) # {}
    /\ jobs' = [j \in JobIds |->
         IF j \in G
         THEN [jobs[j] EXCEPT !.status = "running", !.owner = own[j], !.age = 0,
                              !.attempts = @ + 1, !.backoff = FALSE]
         ELSE IF j \in disp[d]
         THEN [jobs[j] EXCEPT !.status = "retry_waiting", !.backoff = TRUE]
         ELSE jobs[j]]
    /\ runs' = [l \in Leases |->
         IF \E j \in G : own[j] = l
         THEN [pc |-> "submitted", job |-> CHOOSE j \in G : own[j] = l, limit |-> 0, late |-> FALSE]
         ELSE runs[l]]
    /\ accountUnits' = [a \in Accounts |->
         accountUnits[a] + UnitsOf({j \in G : AccountOfJob(j) = a})]
    /\ shardUnits' = [s \in Shards |->
         shardUnits[s] + UnitsOf({j \in G : ShardOf[AccountOfJob(j)] = s})]
    /\ disp' = [disp EXCEPT ![d] = {}]
    /\ UNCHANGED <<enq, mishaps>>

DispatchWrite(d) ==
    /\ disp[d] # {}
    /\ \E G \in SUBSET disp[d] : Granted(d, G) /\ Claim(d, G)

\* The transaction is rolled back: two dispatchers that lock the windows of two
\* project shards in opposite order are a deadlock that the database resolves.
DispatchAbort(d) ==
    /\ disp[d] # {}
    /\ \E e \in Dispatchers \ {d} : disp[e] # {}
    /\ mishaps < MaxMishaps
    /\ mishaps' = mishaps + 1
    /\ disp' = [disp EXCEPT ![d] = {}]
    /\ UNCHANGED <<jobs, enq, runs, quotaVars>>

-----------------------------------------------------------------------------
(* _run_sync_job *)

Holds(l) == jobs[runs[l].job].owner = l

\* Under the row lock: goes on if the lease is still its own, and takes its
\* snapshot of the job.
Start(l) ==
    LET row == jobs[runs[l].job] IN
    /\ runs[l].pc = "submitted"
    /\ ~Locked(runs[l].job)
    /\ runs' = [runs EXCEPT ![l].pc =
                   IF row.status = "running" /\ Holds(l) /\ row.age = 0 THEN "syncing" ELSE "done",
                            ![l].limit = row.limit]
    /\ UNCHANGED <<jobs, enq, disp, quotaVars, mishaps>>

\* Slip: the lease is not looked at again.
SyncedAnyway(l) ==
    /\ runs[l].pc = "syncing"
    /\ ~Locked(runs[l].job)
    /\ jobs' = [jobs EXCEPT ![runs[l].job].status = "completed", ![runs[l].job].owner = None,
                            ![runs[l].job].backoff = FALSE, ![runs[l].job].synced = runs[l].limit]
    /\ runs' = [runs EXCEPT ![l].pc = "done"]
    /\ UNCHANGED <<enq, disp, quotaVars, mishaps>>

\* The provider sync succeeded: recorded if the lease is still its own.
Synced(l) ==
    LET j == runs[l].job IN
    /\ runs[l].pc = "syncing"
    /\ ~Locked(j)
    /\ jobs' = IF Holds(l)
               THEN [jobs EXCEPT ![j].status = "completed", ![j].owner = None,
                                 ![j].backoff = FALSE, ![j].synced = runs[l].limit]
               ELSE jobs
    /\ runs' = [runs EXCEPT ![l].pc = "done"]
    /\ UNCHANGED <<enq, disp, quotaVars, mishaps>>

\* It failed: retry_waiting while there are attempts left.
Failed(l) ==
    LET j == runs[l].job
        again == jobs[j].attempts < MAX_ATTEMPTS IN
    /\ runs[l].pc = "syncing"
    /\ ~Locked(j)
    /\ jobs' = IF Holds(l)
               THEN [jobs EXCEPT ![j].owner = None, ![j].backoff = again,
                                 ![j].status = IF again THEN "retry_waiting" ELSE "failed"]
               ELSE jobs
    /\ runs' = [runs EXCEPT ![l].pc = "done"]
    /\ UNCHANGED <<enq, disp, quotaVars, mishaps>>

-----------------------------------------------------------------------------
(* Time and faults. *)

Live(l) == runs[l].pc \in {"submitted", "syncing"}
Outlasts(j) == jobs[j].age = 0 /\ jobs[j].owner # None /\ Live(jobs[j].owner)

\* A job gets older; a worker may outlast its lease.
Age(j) ==
    /\ IsActive(j) /\ jobs[j].age < 2
    /\ jobs' = [jobs EXCEPT ![j].age = @ + 1]
    /\ IF Outlasts(j)
       THEN /\ mishaps < MaxMishaps
            /\ mishaps' = mishaps + 1
            /\ runs' = [runs EXCEPT ![jobs[j].owner].late = TRUE]
       ELSE UNCHANGED <<mishaps, runs>>
    /\ UNCHANGED <<enq, disp, quotaVars>>

BackoffElapses(j) ==
    /\ jobs[j].backoff
    /\ jobs' = [jobs EXCEPT ![j].backoff = FALSE]
    /\ UNCHANGED <<enq, disp, runs, quotaVars, mishaps>>

\* Next minute: _quota_window_start moves on.
NewWindow ==
    /\ \E a \in Accounts : accountUnits[a] > 0
    /\ accountUnits' = [a \in Accounts |-> 0] /\ shardUnits' = [s \in Shards |-> 0]
    /\ UNCHANGED <<jobs, enq, disp, runs, mishaps>>

\* Restart: transactions are rolled back, submitted work is gone, rows stay.
Crash ==
    /\ mishaps < MaxMishaps
    /\ mishaps' = mishaps + 1
    /\ enq' = [r \in Requests |->
         IF enq[r].pc = "read"
         THEN [pc |-> "done", plan |-> None, job |-> None, before |-> FALSE] ELSE enq[r]]
    /\ disp' = [d \in Dispatchers |-> {}]
    /\ runs' = [l \in Leases |-> IF Live(l) THEN [runs[l] EXCEPT !.pc = "done"] ELSE runs[l]]
    /\ UNCHANGED <<jobs, quotaVars>>

-----------------------------------------------------------------------------
EnqueueWrite(r) == Create(r) \/ Replace(r) \/ Requeue(r) \/ Merge(r)
RunStep(l) == Start(l) \/ Synced(l) \/ Failed(l)

Next ==
    \/ \E r \in Requests : EnqueueRead(r) \/ EnqueueWrite(r)
    \/ \E d \in Dispatchers : DispatchRead(d) \/ DispatchWrite(d) \/ DispatchAbort(d)
    \/ \E l \in Leases : RunStep(l)
    \/ \E j \in JobIds : Age(j) \/ BackoffElapses(j)
    \/ NewWindow
    \/ Crash

Spec == Init /\ [][Next]_vars

\* Transactions and workers go on, time passes, and the ticker sweeps.  Which of
\* them goes first is left open.
FairSpec ==
    /\ Spec
    /\ WF_vars(\E r \in Requests : EnqueueWrite(r))
    /\ WF_vars(\E d \in Dispatchers : DispatchWrite(d))
    /\ WF_vars(DispatchRead(Ticker))
    /\ WF_vars(\E l \in Leases : RunStep(l))
    /\ WF_vars(\E j \in JobIds : Age(j))
    /\ WF_vars(\E j \in JobIds : BackoffElapses(j))
    /\ WF_vars(NewWindow)

-----------------------------------------------------------------------------
(* Properties. *)

\* "At most one active job per (account_id, folder) is allowed", although the
\* row is looked for and created in different statements.
OneActivePerScope ==
    \A i, j \in JobIds :
        IsActive(i) /\ IsActive(j) /\ jobs[i].scope = jobs[j].scope => i = j

\* As long as a worker has not outlasted its lease, the job it syncs is running
\* under that lease: no request, dispatcher or other worker takes it away.
LeaseProtectsWorker ==
    \A l \in Leases :
        runs[l].pc = "syncing" /\ ~runs[l].late =>
            Holds(l) /\ jobs[runs[l].job].status = "running"

\* What a run completes is no less than what was asked for before its start: a
\* run that lost its lease does not complete the job of a wider request.
CompletionCoversRequests ==
    [][\A j \in JobIds :
          jobs[j].status = "running" /\ jobs'[j].status = "completed" =>
              \A r \in Requests :
                  enq[r].job = j /\ enq[r].pc = "done" /\ enq[r].before =>
                      LimitOf[r] <= jobs'[j].synced]_vars

\* No window of an account or of a project shard is overbooked, also when jobs of
\* one dispatch share it.
WithinQuota ==
    /\ \A a \in Accounts : accountUnits[a] <= ACCOUNT_UNITS
    /\ \A s \in Shards : shardUnits[s] <= SHARD_UNITS

\* Every job is completed or failed in the end, whatever the crashes, thanks to
\* the leases and the ticker.
JobsEnd == \A j \in JobIds : IsActive(j) ~> ~IsActive(j)

\* "The DB state update is the only thing we MUST skip when we no longer own the
\* lease": what is back in the queue is not completed by a run.
RecordsOnlyUnderLease ==
    [][\A j \in JobIds :
          jobs[j].status \in {"queued", "retry_waiting"} => jobs'[j].status # "completed"]_vars

\* "Claim ready jobs up to the global cap".
WithinCap == Cardinality(RunningUnderLease) <= CONCURRENCY
=============================================================================
