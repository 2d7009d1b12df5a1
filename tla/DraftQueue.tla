----------------------------- MODULE DraftQueue -----------------------------
(***************************************************************************)
(* The in-process draft queue (DraftJobQueue) and the requests around it:  *)
(* POST /process registers a cancellation event, enqueues a job for the    *)
(* e-mail and answers; a fixed pool of workers runs the jobs, so many of   *)
(* an account at a time; POST /cancel-process sets the event that is       *)
(* registered for the e-mail.  Every action is one critical section.       *)
(***************************************************************************)
EXTENDS Integers, Sequences, FiniteSets

CONSTANTS
    Requests,               \* requests to process; each brings at most one job
    Keys,                   \* e-mails, the _job_key of a request
    KeyOf,                  \* the e-mail of each request
    Accounts,
    AccountOf,              \* the account of each e-mail
    Workers,                \* max_workers threads
    QUEUE_MAX,              \* queue_max
    PER_ACCOUNT_MAX,        \* per_account_max: jobs of an account at a time
    PER_ACCOUNT_QUEUE_MAX,  \* per_account_queue_max: jobs of an account known
    None

ASSUME DraftAssumption ==
    /\ KeyOf \in [Requests -> Keys] /\ AccountOf \in [Keys -> Accounts]
    /\ IsFiniteSet(Keys) /\ IsFiniteSet(Workers)
    /\ None \notin Requests
ASSUME LimitsAssumption ==
    /\ QUEUE_MAX \in Nat \ {0} /\ PER_ACCOUNT_MAX \in Nat \ {0}
    /\ PER_ACCOUNT_QUEUE_MAX \in Nat /\ PER_ACCOUNT_MAX <= PER_ACCOUNT_QUEUE_MAX

VARIABLES
    rpc,        \* where each request is
    answer,     \* submission.status
    event,      \* the event a request holds, named by the request that made it
    registry,   \* _cancel_registry
    set,        \* events that are set
    jobs,       \* _jobs_by_key: the request that brought the job
    queue,      \* _queue
    wpc,        \* where each worker is
    job,        \* the job of a worker
    permits,    \* _account_semaphores
    active,     \* _active_by_account
    result      \* what became of a request's job

requestVars == <<rpc, answer, event>>
cancelVars == <<registry, set>>
workerVars == <<wpc, job, permits, active, result>>
vars == <<requestVars, cancelVars, jobs, queue, workerVars>>

-----------------------------------------------------------------------------
PCs == {"idle", "waiting", "acquired", "started", "drafting", "leaving", "done", "released"}

TypeOK ==
    /\ rpc \in [Requests -> {"new", "registered", "put", "rejected", "answered"}]
    /\ answer \in [Requests -> {"none", "enqueued", "duplicate", "full"}]
    /\ event \in [Requests -> Requests \cup {None}]
    /\ registry \in [Keys -> Requests \cup {None}]
    /\ set \subseteq Requests
    /\ jobs \in [Keys -> Requests \cup {None}]
    /\ queue \in Seq(Requests) /\ Len(queue) <= QUEUE_MAX
    /\ wpc \in [Workers -> PCs]
    /\ job \in [Workers -> Requests \cup {None}]
    /\ permits \in [Accounts -> 0..PER_ACCOUNT_MAX]
    /\ active \in [Accounts -> Nat]
    /\ result \in [Requests -> {"none", "drafted", "cancelled"}]

Init ==
    /\ rpc = [r \in Requests |-> "new"]
    /\ answer = [r \in Requests |-> "none"]
    /\ event = [r \in Requests |-> None]
    /\ registry = [k \in Keys |-> None]
    /\ set = {}
    /\ jobs = [k \in Keys |-> None]
    /\ queue = <<>>
    /\ wpc = [w \in Workers |-> "idle"]
    /\ job = [w \in Workers |-> None]
    /\ permits = [a \in Accounts |-> PER_ACCOUNT_MAX]
    /\ active = [a \in Accounts |-> 0]
    /\ result = [r \in Requests |-> "none"]

-----------------------------------------------------------------------------
(* Requests. *)

Owner(r) == AccountOf[KeyOf[r]]
Full == Len(queue) >= QUEUE_MAX

\* _account_job_count
AccountJobs(a) == Cardinality({k \in Keys : AccountOf[k] = a /\ jobs[k] # None})

\* _register_cancel_event: the event of the e-mail, a new one if there is none.
Register(r) ==
    LET k == KeyOf[r] IN
    /\ rpc[r] = "new"
    /\ rpc' = [rpc EXCEPT ![r] = "registered"]
    /\ event' = [event EXCEPT ![r] = IF registry[k] = None THEN r ELSE registry[k]]
    /\ registry' = [registry EXCEPT ![k] = event'[r]]
    /\ UNCHANGED <<answer, set, jobs, queue, workerVars>>

Duplicate(r) ==
    /\ rpc[r] = "registered"
    /\ jobs[KeyOf[r]] # None
    /\ rpc' = [rpc EXCEPT ![r] = "answered"]
    /\ answer' = [answer EXCEPT ![r] = "duplicate"]
    /\ UNCHANGED <<event, cancelVars, jobs, queue, workerVars>>

Refuse(r) ==
    /\ rpc[r] = "registered"
    /\ jobs[KeyOf[r]] = None
    /\ AccountJobs(Owner(r)) >= PER_ACCOUNT_QUEUE_MAX \/ Full
    /\ rpc' = [rpc EXCEPT ![r] = "rejected"]
    /\ answer' = [answer EXCEPT ![r] = "full"]
    /\ UNCHANGED <<event, cancelVars, jobs, queue, workerVars>>

\* Slip: a second job for an e-mail that has one.
AdmitAgain(r) ==
    /\ rpc[r] = "registered"
    /\ AccountJobs(Owner(r)) < PER_ACCOUNT_QUEUE_MAX /\ ~Full
    /\ rpc' = [rpc EXCEPT ![r] = "put"]
    /\ jobs' = [jobs EXCEPT ![KeyOf[r]] = r]
    /\ UNCHANGED <<answer, event, cancelVars, queue, workerVars>>

Admit(r) ==
    /\ rpc[r] = "registered"
    /\ jobs[KeyOf[r]] = None
    /\ AccountJobs(Owner(r)) < PER_ACCOUNT_QUEUE_MAX /\ ~Full
    /\ rpc' = [rpc EXCEPT ![r] = "put"]
    /\ jobs' = [jobs EXCEPT ![KeyOf[r]] = r]
    /\ UNCHANGED <<answer, event, cancelVars, queue, workerVars>>

\* Slip: the queue takes whatever was admitted.
PutAnyway(r) ==
    /\ rpc[r] = "put"
    /\ queue' = Append(queue, r)
    /\ rpc' = [rpc EXCEPT ![r] = "answered"]
    /\ answer' = [answer EXCEPT ![r] = "enqueued"]
    /\ UNCHANGED <<event, cancelVars, jobs, workerVars>>

\* Slip: queue.Full is overlooked.
PutQuietly(r) ==
    /\ rpc[r] = "put"
    /\ queue' = IF Full THEN queue ELSE Append(queue, r)
    /\ rpc' = [rpc EXCEPT ![r] = "answered"]
    /\ answer' = [answer EXCEPT ![r] = "enqueued"]
    /\ UNCHANGED <<event, cancelVars, jobs, workerVars>>

\* put_nowait, outside the lock: the queue may have filled up since.
Put(r) ==
    /\ rpc[r] = "put"
    /\ IF Full
       THEN /\ jobs' = [jobs EXCEPT ![KeyOf[r]] = None]
            /\ rpc' = [rpc EXCEPT ![r] = "rejected"]
            /\ answer' = [answer EXCEPT ![r] = "full"]
            /\ UNCHANGED queue
       ELSE /\ queue' = Append(queue, r)
            /\ rpc' = [rpc EXCEPT ![r] = "answered"]
            /\ answer' = [answer EXCEPT ![r] = "enqueued"]
            /\ UNCHANGED jobs
    /\ UNCHANGED <<event, cancelVars, workerVars>>

\* A request that was refused unregisters the event of its e-mail.
Unregister(r) ==
    /\ rpc[r] = "rejected"
    /\ rpc' = [rpc EXCEPT ![r] = "answered"]
    /\ registry' = [registry EXCEPT ![KeyOf[r]] = None]
    /\ UNCHANGED <<answer, event, set, jobs, queue, workerVars>>

\* POST /cancel-process
CancelProcess(k) ==
    /\ registry[k] # None
    /\ set' = set \cup {registry[k]}
    /\ UNCHANGED <<requestVars, registry, jobs, queue, workerVars>>

-----------------------------------------------------------------------------
(* Workers. *)

At(w, from, to) == wpc[w] = from /\ wpc' = [wpc EXCEPT ![w] = to]

Take(w) ==
    /\ At(w, "idle", "waiting")
    /\ queue # <<>>
    /\ job' = [job EXCEPT ![w] = Head(queue)]
    /\ queue' = Tail(queue)
    /\ UNCHANGED <<requestVars, cancelVars, jobs, permits, active, result>>

\* Slip: a permit is taken that is not there.
AcquireAnyway(w) ==
    LET a == Owner(job[w]) IN
    /\ At(w, "waiting", "acquired")
    /\ permits' = [permits EXCEPT ![a] = IF @ > 0 THEN @ - 1 ELSE 0]
    /\ UNCHANGED <<requestVars, cancelVars, jobs, queue, job, active, result>>

\* semaphore.acquire: the worker waits for a permit of the account.
Acquire(w) ==
    LET a == Owner(job[w]) IN
    /\ At(w, "waiting", "acquired")
    /\ permits[a] > 0
    /\ permits' = [permits EXCEPT ![a] = @ - 1]
    /\ UNCHANGED <<requestVars, cancelVars, jobs, queue, job, active, result>>

\* The job is counted.
Start(w) ==
    /\ At(w, "acquired", "started")
    /\ active' = [active EXCEPT ![Owner(job[w])] = @ + 1]
    /\ UNCHANGED <<requestVars, cancelVars, jobs, queue, job, permits, result>>

\* Slip: the event is looked up again, and may have been unregistered since.
CheckCancelledByKey(w) ==
    LET named == registry[KeyOf[job[w]]] IN
    /\ \/ /\ At(w, "started", "leaving")
          /\ named \in set \cup {None}
          /\ registry' = [registry EXCEPT ![KeyOf[job[w]]] = None]
          /\ result' = [result EXCEPT ![job[w]] = "cancelled"]
       \/ /\ At(w, "started", "drafting")
          /\ named \notin set \cup {None}
          /\ UNCHANGED <<registry, result>>
    /\ UNCHANGED <<requestVars, set, jobs, queue, job, permits, active>>

\* The job looks at its event once, before any work.
CheckCancelled(w) ==
    /\ \/ /\ At(w, "started", "leaving")
          /\ event[job[w]] \in set
          /\ registry' = [registry EXCEPT ![KeyOf[job[w]]] = None]
          /\ result' = [result EXCEPT ![job[w]] = "cancelled"]
       \/ /\ At(w, "started", "drafting")
          /\ event[job[w]] \notin set
          /\ UNCHANGED <<registry, result>>
    /\ UNCHANGED <<requestVars, set, jobs, queue, job, permits, active>>

\* The draft, or a draft_error: exceptions do not leave the job.
Draft(w) ==
    /\ At(w, "drafting", "leaving")
    /\ result' = [result EXCEPT ![job[w]] = "drafted"]
    /\ UNCHANGED <<requestVars, cancelVars, jobs, queue, job, permits, active>>

\* _process_email_draft_job, finally
Leave(w) ==
    /\ At(w, "leaving", "done")
    /\ registry' = [registry EXCEPT ![KeyOf[job[w]]] = None]
    /\ UNCHANGED <<requestVars, set, jobs, queue, job, permits, active, result>>

\* _worker_loop, finally: the job is forgotten under the lock ...
Finish(w) ==
    /\ At(w, "done", "released")
    /\ jobs' = [jobs EXCEPT ![KeyOf[job[w]]] = None]
    /\ active' = [active EXCEPT ![Owner(job[w])] = IF @ > 0 THEN @ - 1 ELSE 0]
    /\ UNCHANGED <<requestVars, cancelVars, queue, job, permits, result>>

\* ... and its permit is given back after it.
Release(w) ==
    /\ At(w, "released", "idle")
    /\ permits' = [permits EXCEPT ![Owner(job[w])] = @ + 1]
    /\ job' = [job EXCEPT ![w] = None]
    /\ UNCHANGED <<requestVars, cancelVars, jobs, queue, active, result>>

-----------------------------------------------------------------------------
RequestStep(r) ==
    Register(r) \/ Duplicate(r) \/ Refuse(r) \/ Admit(r) \/ Put(r) \/ Unregister(r)

WorkerStep(w) ==
    \/ Take(w) \/ Acquire(w) \/ Start(w) \/ CheckCancelled(w)
    \/ Draft(w) \/ Leave(w) \/ Finish(w) \/ Release(w)

Next ==
    \/ \E r \in Requests : RequestStep(r)
    \/ \E k \in Keys : CancelProcess(k)
    \/ \E w \in Workers : WorkerStep(w)

Spec == Init /\ [][Next]_vars

\* A request that has arrived goes on, and so does every worker.
FairSpec ==
    /\ Spec
    /\ \A r \in Requests : WF_vars(Duplicate(r) \/ Refuse(r) \/ Admit(r) \/ Put(r) \/ Unregister(r))
    /\ \A w \in Workers : WF_vars(WorkerStep(w))

-----------------------------------------------------------------------------
(* Properties. *)

InFlight(r) ==
    \/ rpc[r] = "put"
    \/ \E i \in 1..Len(queue) : queue[i] = r
    \/ \E w \in Workers : job[w] = r /\ wpc[w] # "released"

\* _jobs_by_key is what is really in flight: an e-mail has one job at most
\* between its admission and its release, also when put_nowait finds the queue
\* full after the check or a request comes while a worker leaves.
RegistryMatchesJobs ==
    \A k \in Keys :
        {r \in Requests : KeyOf[r] = k /\ InFlight(r)}
            = IF jobs[k] = None THEN {} ELSE {jobs[k]}

\* No account has more jobs at work, or known, than it may; the semaphore and
\* the counter of the health endpoint agree with the workers, although the job
\* is forgotten before its permit is given back; and no job is worked on twice.
Holders(a) == {w \in Workers : wpc[w] \notin {"idle", "waiting"} /\ Owner(job[w]) = a}
Counted(a) == {w \in Holders(a) : wpc[w] \notin {"acquired", "released"}}
LimitsHold ==
    /\ \A a \in Accounts :
        /\ Cardinality(Holders(a)) <= PER_ACCOUNT_MAX
        /\ permits[a] = PER_ACCOUNT_MAX - Cardinality(Holders(a))
        /\ active[a] = Cardinality(Counted(a))
        /\ AccountJobs(a) <= PER_ACCOUNT_QUEUE_MAX
    /\ \A v, w \in Workers : v # w /\ job[v] = job[w] => job[v] = None

\* Seen from outside, the queue goes the way Desk promises, whatever requests,
\* workers and cancels meet: no accepted job is forgotten without an outcome, none
\* has two, nothing is drafted that was refused or a duplicate, and a job is
\* cancelled only if somebody asked for it.  Events are named by the request that
\* made them, which is a request for the same e-mail.
Promise == INSTANCE Desk WITH desk <- jobs, told <- answer, outcome <- result,
                              asked <- {KeyOf[e] : e \in set}
ImplementsDesk == Promise!Spec

\* An accepted job is served, also when every worker holds a job of one account
\* and waits for its permit.
AcceptedIsServed ==
    \A r \in Requests : answer[r] = "enqueued" ~> result[r] # "none"

\* "Register a cancellation event so the caller can abort this task": a request
\* does not start out cancelled because a cancel came too late for the job that
\* is already being drafted.
TooLate(e) ==
    \E r \in Requests : event[r] = e /\ \E w \in Workers : job[w] = r /\ wpc[w] = "drafting"

StartsUncancelled ==
    [][\A r \in Requests :
          rpc[r] = "new" /\ rpc'[r] = "registered" =>
              ~(event'[r] \in set /\ TooLate(event'[r]))]_vars
=============================================================================
