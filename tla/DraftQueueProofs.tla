-------------------------- MODULE DraftQueueProofs --------------------------
(***************************************************************************)
(* Proofs about DraftQueue, for every set of requests, e-mails, accounts   *)
(* and workers and every limit.  Placed says where the request that owns a *)
(* key of _jobs_by_key is: admitted and not put yet, at one place of the   *)
(* queue, or with one worker until Finish.  Balanced says what permits and *)
(* counters stand for.                                                     *)
(***************************************************************************)
EXTENDS DraftQueue, FiniteSetTheorems, TLAPS

\* A job that waits in the queue is the job of its e-mail, and waits once.
QueuePlaced ==
    /\ \A i \in 1..Len(queue) :
        /\ rpc[queue[i]] = "answered" /\ jobs[KeyOf[queue[i]]] = queue[i]
        /\ \A w \in Workers : job[w] # queue[i]
    /\ \A i, j \in 1..Len(queue) : queue[i] = queue[j] => i = j

\* A worker that is not idle has a job of its own, which is the job of its
\* e-mail until the worker forgets it.
WorkerPlaced ==
    \A w \in Workers :
        /\ job[w] = None <=> wpc[w] = "idle"
        /\ job[w] # None =>
            /\ rpc[job[w]] = "answered"
            /\ wpc[w] # "released" <=> jobs[KeyOf[job[w]]] = job[w]
            /\ \A v \in Workers \ {w} : job[v] # job[w]

\* A request about to put its job owns the key of its e-mail.
PutPlaced == \A r \in Requests : rpc[r] = "put" => jobs[KeyOf[r]] = r

\* A key is owned by a job in flight.
KeysPlaced == \A k \in Keys : jobs[k] # None => KeyOf[jobs[k]] = k /\ InFlight(jobs[k])

Placed == QueuePlaced /\ WorkerPlaced /\ PutPlaced /\ KeysPlaced

\* Permits, counters and the keys of an account.
Balanced ==
    \A a \in Accounts :
        /\ permits[a] = PER_ACCOUNT_MAX - Cardinality(Holders(a))
        /\ active[a] = Cardinality(Counted(a))
        /\ AccountJobs(a) <= PER_ACCOUNT_QUEUE_MAX

Inv == TypeOK /\ Placed /\ Balanced

-----------------------------------------------------------------------------
(* Types. *)

\* The initial state satisfies the invariant: nothing is in flight.
LEMMA InvInit == Init => Inv
PROOF
<1> SUFFICES ASSUME Init PROVE Inv
  OBVIOUS
<1>1. TypeOK
  BY DraftAssumption, LimitsAssumption DEF Init, TypeOK, PCs
<1>2. Placed
  BY DraftAssumption
  DEF Init, Placed, QueuePlaced, WorkerPlaced, PutPlaced, KeysPlaced, InFlight
<1>3. Balanced
  <2>1. ASSUME NEW a \in Accounts
        PROVE  /\ Cardinality(Holders(a)) = 0 /\ Cardinality(Counted(a)) = 0
               /\ AccountJobs(a) = 0
    <3>1. /\ Holders(a) = {} /\ Counted(a) = {}
          /\ {k \in Keys : AccountOf[k] = a /\ jobs[k] # None} = {}
      BY DEF Init, Holders, Counted
    <3> QED
      BY <3>1, FS_EmptySet DEF AccountJobs
  <2> QED
    BY <2>1, LimitsAssumption DEF Balanced, Init
<1> QED
  BY <1>1, <1>2, <1>3 DEF Inv

\* A worker that is not idle has a job.
LEMMA BusyHasJob ==
    ASSUME TypeOK, WorkerPlaced, NEW w \in Workers, wpc[w] # "idle"
    PROVE  /\ job[w] \in Requests /\ job[w] # None
           /\ KeyOf[job[w]] \in Keys /\ Owner(job[w]) \in Accounts
  BY DraftAssumption DEF TypeOK, WorkerPlaced, Owner

\* Every step of a request keeps the types.
LEMMA RequestTypes ==
    ASSUME Inv, NEW r \in Requests, RequestStep(r) PROVE TypeOK'
PROOF
<1> USE DEF Inv, cancelVars, workerVars
<1>1. CASE Register(r)
  BY <1>1, DraftAssumption DEF Register, TypeOK
<1>2. CASE Duplicate(r)
  BY <1>2 DEF Duplicate, TypeOK
<1>3. CASE Refuse(r)
  BY <1>3 DEF Refuse, TypeOK
<1>4. CASE Admit(r)
  BY <1>4, DraftAssumption DEF Admit, TypeOK
<1>5. CASE Put(r)
  <2>1. queue' \in Seq(Requests) /\ Len(queue') <= QUEUE_MAX
    <3>1. CASE Full
      BY <1>5, <3>1 DEF Put, TypeOK
    <3>2. CASE ~Full
      <4>1. queue' = Append(queue, r) /\ Len(queue) < QUEUE_MAX
        BY <1>5, <3>2, LimitsAssumption DEF Put, TypeOK, Full
      <4> QED
        BY <4>1, LimitsAssumption DEF TypeOK
    <3> QED
      BY <3>1, <3>2
  <2>2. jobs' \in [Keys -> Requests \cup {None}]
    BY <1>5, DraftAssumption DEF Put, TypeOK
  <2>3. /\ rpc' \in [Requests -> {"new", "registered", "put", "rejected", "answered"}]
        /\ answer' \in [Requests -> {"none", "enqueued", "duplicate", "full"}]
    BY <1>5 DEF Put, TypeOK
  <2> QED
    BY <1>5, <2>1, <2>2, <2>3 DEF Put, TypeOK
<1>6. CASE Unregister(r)
  BY <1>6, DraftAssumption DEF Unregister, TypeOK
<1> QED
  BY <1>1, <1>2, <1>3, <1>4, <1>5, <1>6 DEF RequestStep

\* Every step of a worker keeps the types.  A permit is given back by a worker
\* that holds one.
LEMMA WorkerTypes ==
    ASSUME Inv, NEW w \in Workers, WorkerStep(w) PROVE TypeOK'
PROOF
<1> USE DEF Inv, Placed, requestVars, cancelVars, At
<1>1. CASE Take(w)
  <2>1. Head(queue) \in Requests /\ Tail(queue) \in Seq(Requests) /\ Len(Tail(queue)) <= QUEUE_MAX
    BY <1>1, LimitsAssumption DEF Take, TypeOK
  <2> QED
    BY <1>1, <2>1 DEF Take, TypeOK, PCs
<1>2. CASE Acquire(w)
  BY <1>2, BusyHasJob, LimitsAssumption DEF Acquire, TypeOK, PCs
<1>3. CASE Start(w)
  BY <1>3, BusyHasJob DEF Start, TypeOK, PCs
<1>4. CASE CheckCancelled(w)
  BY <1>4, BusyHasJob DEF CheckCancelled, TypeOK, PCs
<1>5. CASE Draft(w)
  BY <1>5, BusyHasJob DEF Draft, TypeOK, PCs
<1>6. CASE Leave(w)
  BY <1>6, BusyHasJob DEF Leave, TypeOK, PCs
<1>7. CASE Finish(w)
  BY <1>7, BusyHasJob DEF Finish, TypeOK, PCs
<1>8. CASE Release(w)
  <2> DEFINE a == Owner(job[w])
  <2>1. a \in Accounts /\ w \in Holders(a)
    BY <1>8, BusyHasJob DEF Release, Holders
  <2>2. IsFiniteSet(Holders(a))
    BY DraftAssumption, FS_Subset DEF Holders
  <2>3. Cardinality(Holders(a)) > 0
    BY <2>1, <2>2, FS_EmptySet, FS_CardinalityType
  <2>4. permits[a] + 1 \in 0..PER_ACCOUNT_MAX
    BY <2>1, <2>2, <2>3, FS_CardinalityType, LimitsAssumption DEF Balanced, TypeOK
  <2> QED
    BY <1>8, <2>1, <2>4 DEF Release, TypeOK, PCs
<1> QED
  BY <1>1, <1>2, <1>3, <1>4, <1>5, <1>6, <1>7, <1>8 DEF WorkerStep

-----------------------------------------------------------------------------
(* Where the owner of a key is. *)

\* A step of a request that neither owns a key nor takes one moves no job.
LEMMA RequestFrame ==
    ASSUME TypeOK, Placed, NEW r \in Requests, NEW x,
           rpc[r] \notin {"put", "answered"}, x # "put",
           rpc' = [rpc EXCEPT ![r] = x], UNCHANGED <<jobs, queue, job, wpc>>
    PROVE  Placed'
PROOF
<1>1. QueuePlaced'
  BY DEF Placed, QueuePlaced, TypeOK
<1>2. WorkerPlaced'
  BY DraftAssumption DEF Placed, WorkerPlaced, TypeOK
<1>3. PutPlaced'
  BY DEF Placed, PutPlaced, TypeOK
<1>4. KeysPlaced'
  BY DEF Placed, PutPlaced, KeysPlaced, InFlight, TypeOK
<1> QED
  BY <1>1, <1>2, <1>3, <1>4 DEF Placed

\* A worker that keeps its job, between Take and Finish, moves none.
LEMMA WorkerFrame ==
    ASSUME TypeOK, Placed, NEW w \in Workers, NEW x,
           wpc[w] \notin {"idle", "released"}, x \notin {"idle", "released"},
           wpc' = [wpc EXCEPT ![w] = x], UNCHANGED <<rpc, jobs, queue, job>>
    PROVE  Placed'
PROOF
<1>1. QueuePlaced'
  BY DEF Placed, QueuePlaced
<1>2. WorkerPlaced'
  BY DEF Placed, WorkerPlaced, TypeOK
<1>3. PutPlaced'
  BY DEF Placed, PutPlaced
<1>4. KeysPlaced'
  BY DEF Placed, KeysPlaced, InFlight, TypeOK
<1> QED
  BY <1>1, <1>2, <1>3, <1>4 DEF Placed

\* An admitted request owns the key of its e-mail, which nobody owned.
LEMMA AdmitPlaced ==
    ASSUME TypeOK, Placed, NEW r \in Requests, Admit(r) PROVE Placed'
PROOF
<1> USE DEF Admit, workerVars
<1>1. QueuePlaced'
  BY DraftAssumption DEF Placed, QueuePlaced, TypeOK
<1>2. WorkerPlaced'
  BY DraftAssumption DEF Placed, WorkerPlaced, TypeOK
<1>3. PutPlaced'
  BY DraftAssumption DEF Placed, PutPlaced, TypeOK
<1>4. KeysPlaced'
  <2> SUFFICES ASSUME NEW k \in Keys, jobs'[k] # None
               PROVE  KeyOf[jobs'[k]] = k /\ InFlight(jobs[k])'
    BY DEF KeysPlaced
  <2>1. CASE k = KeyOf[r]
    BY <2>1, DraftAssumption DEF InFlight, TypeOK
  <2>2. CASE k # KeyOf[r]
    <3>1. jobs'[k] = jobs[k] /\ KeyOf[jobs[k]] = k /\ InFlight(jobs[k]) /\ jobs[k] # r
      BY <2>2, DraftAssumption DEF Placed, KeysPlaced, TypeOK
    <3> QED
      BY <3>1 DEF InFlight, TypeOK
  <2> QED
    BY <2>1, <2>2
<1> QED
  BY <1>1, <1>2, <1>3, <1>4 DEF Placed

\* A job that finds the queue full leaves no key behind.
LEMMA PutRefused ==
    ASSUME TypeOK, Placed, NEW r \in Requests, Put(r), Full PROVE Placed'
PROOF
<1>1. /\ jobs' = [jobs EXCEPT ![KeyOf[r]] = None] /\ rpc' = [rpc EXCEPT ![r] = "rejected"]
      /\ UNCHANGED <<queue, job, wpc>>
  BY DEF Put, workerVars
<1>2. jobs[KeyOf[r]] = r /\ KeyOf[r] \in Keys /\ rpc[r] = "put"
  BY DraftAssumption DEF Put, Placed, PutPlaced
<1>3. \A i \in 1..Len(queue) : queue[i] \in Requests /\ queue[i] # r /\ KeyOf[queue[i]] # KeyOf[r]
  <2> SUFFICES ASSUME NEW i \in 1..Len(queue)
               PROVE  queue[i] \in Requests /\ queue[i] # r /\ KeyOf[queue[i]] # KeyOf[r]
    OBVIOUS
  <2>1. queue[i] \in Requests
    BY DEF TypeOK
  <2>2. rpc[queue[i]] = "answered" /\ jobs[KeyOf[queue[i]]] = queue[i]
    BY DEF Placed, QueuePlaced
  <2> QED
    BY <1>2, <2>1, <2>2
<1>4. QueuePlaced'
  BY <1>1, <1>2, <1>3, DraftAssumption DEF Placed, QueuePlaced, TypeOK
<1>5. WorkerPlaced'
  <2> SUFFICES ASSUME NEW w \in Workers
               PROVE  /\ job[w] = None <=> wpc[w] = "idle"
                      /\ job[w] # None =>
                          /\ rpc'[job[w]] = "answered"
                          /\ wpc[w] # "released" <=> jobs'[KeyOf[job[w]]] = job[w]
                          /\ \A v \in Workers \ {w} : job[v] # job[w]
    BY <1>1 DEF WorkerPlaced
  <2>1. CASE job[w] = None
    BY <2>1 DEF Placed, WorkerPlaced
  <2>2. CASE job[w] # None
    <3>1. job[w] \in Requests /\ rpc[job[w]] = "answered" /\ job[w] # r /\ KeyOf[job[w]] \in Keys
      BY <1>2, <2>2, DraftAssumption DEF Placed, WorkerPlaced, TypeOK
    <3>2. jobs'[KeyOf[job[w]]] = job[w] <=> jobs[KeyOf[job[w]]] = job[w]
      BY <1>1, <1>2, <2>2, <3>1 DEF TypeOK
    <3> QED
      BY <1>1, <2>2, <3>1, <3>2 DEF Placed, WorkerPlaced, TypeOK
  <2> QED
    BY <2>1, <2>2
<1>6. PutPlaced'
  <2> SUFFICES ASSUME NEW q \in Requests, rpc'[q] = "put" PROVE jobs'[KeyOf[q]] = q
    BY DEF PutPlaced
  <2>1. q # r /\ jobs[KeyOf[q]] = q /\ KeyOf[q] \in Keys
    BY <1>1, DraftAssumption DEF Placed, PutPlaced, TypeOK
  <2> QED
    BY <1>1, <1>2, <2>1 DEF TypeOK
<1>7. KeysPlaced'
  <2> SUFFICES ASSUME NEW k \in Keys, jobs'[k] # None
               PROVE  KeyOf[jobs'[k]] = k /\ InFlight(jobs[k])'
    BY DEF KeysPlaced
  <2>1. k # KeyOf[r] /\ jobs'[k] = jobs[k]
    BY <1>1, <1>2 DEF TypeOK
  <2>2. KeyOf[jobs[k]] = k /\ InFlight(jobs[k]) /\ jobs[k] # r
    BY <2>1 DEF Placed, KeysPlaced
  <2> QED
    BY <1>1, <2>1, <2>2 DEF InFlight, TypeOK
<1> QED
  BY <1>4, <1>5, <1>6, <1>7 DEF Placed

\* A job that is put waits at the end of the queue and nowhere else.
LEMMA PutTaken ==
    ASSUME TypeOK, Placed, NEW r \in Requests, Put(r), ~Full PROVE Placed'
PROOF
<1> USE DEF Put, workerVars
<1>1. queue \in Seq(Requests) /\ queue' = Append(queue, r)
  BY DEF TypeOK
<1>2. /\ Len(queue') = Len(queue) + 1 /\ queue'[Len(queue) + 1] = r
      /\ \A i \in 1..Len(queue) : queue'[i] = queue[i]
  BY <1>1
<1>3. QueuePlaced'
  <2>1. ASSUME NEW i \in 1..Len(queue)
        PROVE  /\ rpc'[queue[i]] = "answered" /\ jobs[KeyOf[queue[i]]] = queue[i]
               /\ queue[i] # r /\ \A w \in Workers : job[w] # queue[i]
    BY <1>1 DEF Placed, QueuePlaced, TypeOK
  <2>2. rpc'[r] = "answered" /\ jobs[KeyOf[r]] = r /\ \A w \in Workers : job[w] # r
    <3>1. rpc[r] = "put" /\ rpc'[r] = "answered"
      BY DEF TypeOK
    <3>2. ASSUME NEW w \in Workers, job[w] = r PROVE FALSE
      BY <3>1, <3>2, DraftAssumption DEF Placed, WorkerPlaced
    <3> QED
      BY <3>1, <3>2 DEF Placed, PutPlaced
  <2>3. \A i \in 1..Len(queue') :
          /\ rpc'[queue'[i]] = "answered" /\ jobs'[KeyOf[queue'[i]]] = queue'[i]
          /\ \A w \in Workers : job'[w] # queue'[i]
    BY <1>1, <1>2, <2>1, <2>2
  <2>4. \A i, j \in 1..Len(queue') : queue'[i] = queue'[j] => i = j
    BY <1>1, <1>2, <2>1 DEF Placed, QueuePlaced
  <2> QED
    BY <2>3, <2>4 DEF QueuePlaced
<1>4. WorkerPlaced'
  BY DEF Placed, WorkerPlaced, TypeOK
<1>5. PutPlaced'
  BY DEF Placed, PutPlaced, TypeOK
<1>6. KeysPlaced'
  <2> SUFFICES ASSUME NEW k \in Keys, jobs[k] # None
               PROVE  KeyOf[jobs[k]] = k /\ InFlight(jobs[k])'
    BY DEF KeysPlaced
  <2>1. KeyOf[jobs[k]] = k /\ InFlight(jobs[k])
    BY DEF Placed, KeysPlaced
  <2>2. CASE jobs[k] = r
    BY <1>1, <1>2, <2>1, <2>2 DEF InFlight
  <2>3. CASE jobs[k] # r
    BY <1>1, <1>2, <2>1, <2>3 DEF InFlight, TypeOK
  <2> QED
    BY <2>2, <2>3
<1> QED
  BY <1>3, <1>4, <1>5, <1>6 DEF Placed

\* The job at the head of the queue moves to the worker.
LEMMA TakePlaced ==
    ASSUME TypeOK, Placed, NEW w \in Workers, Take(w) PROVE Placed'
PROOF
<1> USE DEF Take, At, requestVars
<1> DEFINE h == Head(queue)
<1>1. /\ queue \in Seq(Requests) /\ Len(queue) > 0
      /\ h = queue[1] /\ h \in Requests
      /\ Len(queue') = Len(queue) - 1
      /\ \A i \in 1..Len(queue') : queue'[i] = queue[i + 1]
  BY DEF TypeOK
<1>2. job' = [job EXCEPT ![w] = h] /\ job \in [Workers -> Requests \cup {None}]
  BY DEF TypeOK
<1>3. rpc[h] = "answered" /\ jobs[KeyOf[h]] = h /\ \A v \in Workers : job[v] # h
  BY <1>1 DEF Placed, QueuePlaced
<1>4. QueuePlaced'
  <2>1. ASSUME NEW i \in 1..Len(queue')
        PROVE  /\ rpc[queue'[i]] = "answered" /\ jobs[KeyOf[queue'[i]]] = queue'[i]
               /\ queue'[i] # h /\ \A v \in Workers : job[v] # queue'[i]
    <3>1. i + 1 \in 1..Len(queue) /\ i + 1 # 1 /\ 1 \in 1..Len(queue) /\ queue'[i] = queue[i + 1]
      BY <1>1
    <3> QED
      BY <1>1, <3>1 DEF Placed, QueuePlaced
  <2>2. \A i, j \in 1..Len(queue') : queue'[i] = queue'[j] => i = j
    <3> SUFFICES ASSUME NEW i \in 1..Len(queue'), NEW j \in 1..Len(queue'), queue'[i] = queue'[j]
                 PROVE  i = j
      OBVIOUS
    <3>1. i + 1 \in 1..Len(queue) /\ j + 1 \in 1..Len(queue) /\ queue[i + 1] = queue[j + 1]
      BY <1>1
    <3>2. i + 1 = j + 1
      BY <3>1 DEF Placed, QueuePlaced
    <3> QED
      BY <1>1, <3>2
  <2>3. \A i \in 1..Len(queue') : \A v \in Workers : job'[v] # queue'[i]
    BY <1>2, <2>1
  <2> QED
    BY <2>1, <2>2, <2>3 DEF QueuePlaced
<1>5. WorkerPlaced'
  BY <1>1, <1>2, <1>3, DraftAssumption DEF Placed, WorkerPlaced, TypeOK
<1>6. PutPlaced'
  BY DEF Placed, PutPlaced
<1>7. KeysPlaced'
  <2> SUFFICES ASSUME NEW k \in Keys, jobs[k] # None
               PROVE  KeyOf[jobs[k]] = k /\ InFlight(jobs[k])'
    BY DEF KeysPlaced
  <2>1. KeyOf[jobs[k]] = k /\ InFlight(jobs[k])
    BY DEF Placed, KeysPlaced
  <2>2. CASE rpc[jobs[k]] = "put"
    BY <2>1, <2>2 DEF InFlight
  <2>3. ASSUME NEW i \in 1..Len(queue), queue[i] = jobs[k] PROVE InFlight(jobs[k])'
    <3>1. CASE i = 1
      BY <1>1, <1>2, <2>3, <3>1 DEF InFlight, TypeOK
    <3>2. CASE i # 1
      <4>1. i - 1 \in 1..Len(queue') /\ queue'[i - 1] = queue[i]
        BY <1>1, <3>2
      <4> QED
        BY <2>3, <4>1 DEF InFlight
    <3> QED
      BY <3>1, <3>2
  <2>4. ASSUME NEW v \in Workers, job[v] = jobs[k], wpc[v] # "released" PROVE InFlight(jobs[k])'
    <3>1. v # w
      BY <2>4, DraftAssumption DEF Placed, WorkerPlaced, TypeOK
    <3> QED
      BY <1>2, <2>4, <3>1 DEF InFlight, TypeOK
  <2> QED
    BY <2>1, <2>2, <2>3, <2>4 DEF InFlight
<1> QED
  BY <1>4, <1>5, <1>6, <1>7 DEF Placed

\* A worker that is done takes the key of its own job away, no other.
LEMMA FinishPlaced ==
    ASSUME TypeOK, Placed, NEW w \in Workers, Finish(w) PROVE Placed'
PROOF
<1> USE DEF Finish, At, requestVars
<1>1. /\ job[w] \in Requests /\ job[w] # None /\ KeyOf[job[w]] \in Keys
      /\ jobs[KeyOf[job[w]]] = job[w]
  BY BusyHasJob DEF Placed, WorkerPlaced, TypeOK
<1>2. QueuePlaced'
  BY <1>1, DraftAssumption DEF Placed, QueuePlaced, TypeOK
<1>3. WorkerPlaced'
  BY <1>1, DraftAssumption DEF Placed, WorkerPlaced, TypeOK
<1>4. PutPlaced'
  BY <1>1, DraftAssumption DEF Placed, PutPlaced, WorkerPlaced, TypeOK
<1>5. KeysPlaced'
  <2> SUFFICES ASSUME NEW k \in Keys, jobs'[k] # None
               PROVE  KeyOf[jobs'[k]] = k /\ InFlight(jobs[k])'
    BY DEF KeysPlaced
  <2>1. k # KeyOf[job[w]] /\ jobs'[k] = jobs[k]
    BY <1>1 DEF TypeOK
  <2>2. KeyOf[jobs[k]] = k /\ InFlight(jobs[k]) /\ jobs[k] # job[w]
    BY <2>1 DEF Placed, KeysPlaced
  <2> QED
    BY <2>1, <2>2 DEF InFlight, TypeOK
<1> QED
  BY <1>2, <1>3, <1>4, <1>5 DEF Placed

\* A worker that is idle again had no key any more.
LEMMA ReleasePlaced ==
    ASSUME TypeOK, Placed, NEW w \in Workers, Release(w) PROVE Placed'
PROOF
<1> USE DEF Release, At, requestVars
<1>1. QueuePlaced'
  BY DraftAssumption DEF Placed, QueuePlaced, TypeOK
<1>2. WorkerPlaced'
  BY DraftAssumption DEF Placed, WorkerPlaced, TypeOK
<1>3. PutPlaced'
  BY DEF Placed, PutPlaced
<1>4. KeysPlaced'
  BY DEF Placed, KeysPlaced, InFlight, TypeOK
<1> QED
  BY <1>1, <1>2, <1>3, <1>4 DEF Placed

\* Every step of a request leaves the owners of the keys in place.
LEMMA RequestPlaced ==
    ASSUME TypeOK, Placed, NEW r \in Requests, RequestStep(r) PROVE Placed'
PROOF
<1>1. CASE Register(r)
  BY <1>1, RequestFrame DEF Register, workerVars
<1>2. CASE Duplicate(r)
  BY <1>2, RequestFrame DEF Duplicate, workerVars
<1>3. CASE Refuse(r)
  BY <1>3, RequestFrame DEF Refuse, workerVars
<1>4. CASE Unregister(r)
  BY <1>4, RequestFrame DEF Unregister, workerVars
<1> QED
  BY <1>1, <1>2, <1>3, <1>4, AdmitPlaced, PutRefused, PutTaken DEF RequestStep

\* So does every step of a worker.
LEMMA WorkerStepPlaced ==
    ASSUME TypeOK, Placed, NEW w \in Workers, WorkerStep(w) PROVE Placed'
PROOF
<1>1. CASE Acquire(w)
  BY <1>1, WorkerFrame DEF Acquire, At, requestVars
<1>2. CASE Start(w)
  BY <1>2, WorkerFrame DEF Start, At, requestVars
<1>3. CASE CheckCancelled(w)
  <2>1. CASE At(w, "started", "leaving")
    BY <1>3, <2>1, WorkerFrame DEF CheckCancelled, At, requestVars
  <2>2. CASE At(w, "started", "drafting")
    BY <1>3, <2>2, WorkerFrame DEF CheckCancelled, At, requestVars
  <2> QED
    BY <1>3, <2>1, <2>2 DEF CheckCancelled
<1>4. CASE Draft(w)
  BY <1>4, WorkerFrame DEF Draft, At, requestVars
<1>5. CASE Leave(w)
  BY <1>5, WorkerFrame DEF Leave, At, requestVars
<1> QED
  BY <1>1, <1>2, <1>3, <1>4, <1>5, TakePlaced, FinishPlaced, ReleasePlaced DEF WorkerStep

-----------------------------------------------------------------------------
(* What permits and counters stand for. *)

\* The sets that are counted are finite.
LEMMA FiniteCounts ==
    /\ \A a \in Accounts : IsFiniteSet(Holders(a)) /\ IsFiniteSet(Counted(a))
    /\ \A a \in Accounts : IsFiniteSet({k \in Keys : AccountOf[k] = a /\ jobs[k] # None})
PROOF
<1>1. ASSUME NEW a \in Accounts PROVE IsFiniteSet(Holders(a))
  BY DraftAssumption, FS_Subset DEF Holders
<1>2. ASSUME NEW a \in Accounts PROVE IsFiniteSet(Counted(a))
  BY <1>1, FS_Subset DEF Counted
<1>3. ASSUME NEW a \in Accounts PROVE IsFiniteSet({k \in Keys : AccountOf[k] = a /\ jobs[k] # None})
  BY DraftAssumption, FS_Subset
<1> QED
  BY <1>1, <1>2, <1>3

\* A step that changes neither workers nor keys keeps the balance.
LEMMA BalancedFrame ==
    ASSUME Balanced, UNCHANGED <<jobs, wpc, job, permits, active>> PROVE Balanced'
  BY DEF Balanced, Holders, Counted, AccountJobs

\* A worker that neither takes nor gives back a permit keeps the balance.
LEMMA BalancedWorker ==
    ASSUME TypeOK, Balanced, NEW w \in Workers, NEW x,
           UNCHANGED <<jobs, permits, active>>,
           wpc' = [wpc EXCEPT ![w] = x],
           \/ /\ {wpc[w], x} \subseteq {"idle", "waiting"}
              /\ \A v \in Workers \ {w} : job'[v] = job[v]
           \/ {wpc[w], x} \subseteq {"started", "drafting", "leaving", "done"} /\ job' = job
    PROVE  Balanced'
PROOF
<1>1. ASSUME NEW a \in Accounts
      PROVE  Holders(a)' = Holders(a) /\ Counted(a)' = Counted(a)
  BY DEF Holders, Counted, TypeOK
<1> QED
  BY <1>1 DEF Balanced, AccountJobs

\* A permit is taken by one more holder.
LEMMA AcquireBalanced ==
    ASSUME TypeOK, Placed, Balanced, NEW w \in Workers, Acquire(w) PROVE Balanced'
PROOF
<1> USE DEF Acquire, At
<1> DEFINE b == Owner(job[w])
<1>1. b \in Accounts
  BY BusyHasJob DEF Placed
<1> SUFFICES ASSUME NEW a \in Accounts
             PROVE  /\ permits'[a] = PER_ACCOUNT_MAX - Cardinality(Holders(a)')
                    /\ active'[a] = Cardinality(Counted(a)')
                    /\ AccountJobs(a)' <= PER_ACCOUNT_QUEUE_MAX
  BY DEF Balanced
<1>2. Holders(a)' = (IF a = b THEN Holders(a) \cup {w} ELSE Holders(a)) /\ w \notin Holders(a)
  BY DEF Holders, TypeOK
<1>3. Counted(a)' = Counted(a)
  BY DEF Holders, Counted, TypeOK
<1>4. Cardinality(Holders(a)') = IF a = b THEN Cardinality(Holders(a)) + 1 ELSE Cardinality(Holders(a))
  BY <1>2, FiniteCounts, FS_AddElement
<1>5. Cardinality(Holders(a)) \in Nat
  BY FiniteCounts, FS_CardinalityType
<1>6. permits'[a] = IF a = b THEN permits[a] - 1 ELSE permits[a]
  BY <1>1 DEF TypeOK
<1>7. permits'[a] = PER_ACCOUNT_MAX - Cardinality(Holders(a)')
  BY <1>4, <1>5, <1>6, LimitsAssumption DEF Balanced
<1> QED
  BY <1>3, <1>7 DEF Balanced, AccountJobs

\* A holder that starts is counted.
LEMMA StartBalanced ==
    ASSUME TypeOK, Placed, Balanced, NEW w \in Workers, Start(w) PROVE Balanced'
PROOF
<1> USE DEF Start, At
<1> DEFINE b == Owner(job[w])
<1>1. b \in Accounts
  BY BusyHasJob DEF Placed
<1> SUFFICES ASSUME NEW a \in Accounts
             PROVE  /\ permits'[a] = PER_ACCOUNT_MAX - Cardinality(Holders(a)')
                    /\ active'[a] = Cardinality(Counted(a)')
                    /\ AccountJobs(a)' <= PER_ACCOUNT_QUEUE_MAX
  BY DEF Balanced
<1>2. Holders(a)' = Holders(a)
  BY DEF Holders, TypeOK
<1>3. Counted(a)' = (IF a = b THEN Counted(a) \cup {w} ELSE Counted(a)) /\ w \notin Counted(a)
  BY DEF Holders, Counted, TypeOK
<1>4. Cardinality(Counted(a)') = IF a = b THEN Cardinality(Counted(a)) + 1 ELSE Cardinality(Counted(a))
  BY <1>3, FiniteCounts, FS_AddElement
<1>5. active'[a] = IF a = b THEN active[a] + 1 ELSE active[a]
  BY <1>1 DEF TypeOK
<1>6. active'[a] = Cardinality(Counted(a)')
  BY <1>4, <1>5 DEF Balanced
<1> QED
  BY <1>2, <1>6 DEF Balanced, AccountJobs

\* A worker that forgets its job is not counted any more, nor is its key.
LEMMA FinishBalanced ==
    ASSUME TypeOK, Placed, Balanced, NEW w \in Workers, Finish(w) PROVE Balanced'
PROOF
<1> USE DEF Finish, At
<1> DEFINE b == Owner(job[w])
           KeysAt(a) == {k \in Keys : AccountOf[k] = a /\ jobs[k] # None}
<1>1. b \in Accounts
  BY BusyHasJob DEF Placed
<1> SUFFICES ASSUME NEW a \in Accounts
             PROVE  /\ permits'[a] = PER_ACCOUNT_MAX - Cardinality(Holders(a)')
                    /\ active'[a] = Cardinality(Counted(a)')
                    /\ AccountJobs(a)' <= PER_ACCOUNT_QUEUE_MAX
  BY DEF Balanced
<1>2. Holders(a)' = Holders(a)
  BY DEF Holders, TypeOK
<1>3. Counted(a)' = (IF a = b THEN Counted(a) \ {w} ELSE Counted(a)) /\ (a = b => w \in Counted(a))
  BY DEF Holders, Counted, TypeOK
<1>4. Cardinality(Counted(a)') = IF a = b THEN Cardinality(Counted(a)) - 1 ELSE Cardinality(Counted(a))
  BY <1>3, FiniteCounts, FS_RemoveElement
<1>5. Cardinality(Counted(a)) \in Nat /\ Cardinality(Counted(a)') \in Nat
  BY <1>3, FiniteCounts, FS_CardinalityType, FS_RemoveElement
<1>6. active'[a] = IF a = b THEN IF active[a] > 0 THEN active[a] - 1 ELSE 0 ELSE active[a]
  BY <1>1 DEF TypeOK
<1>7. active'[a] = Cardinality(Counted(a)')
  BY <1>4, <1>5, <1>6 DEF Balanced
<1>8. AccountJobs(a)' <= PER_ACCOUNT_QUEUE_MAX
  <2>1. KeysAt(a)' \in SUBSET KeysAt(a)
    BY DEF TypeOK
  <2>2. IsFiniteSet(KeysAt(a))
    BY FiniteCounts
  <2>3. /\ Cardinality(KeysAt(a)') <= Cardinality(KeysAt(a))
        /\ Cardinality(KeysAt(a)') \in Nat /\ Cardinality(KeysAt(a)) \in Nat
    BY <2>1, <2>2, FS_Subset, FS_CardinalityType
  <2>4. AccountJobs(a) = Cardinality(KeysAt(a)) /\ AccountJobs(a)' = Cardinality(KeysAt(a)')
    BY DEF AccountJobs
  <2> QED
    BY <2>3, <2>4, LimitsAssumption DEF Balanced
<1> QED
  BY <1>2, <1>7, <1>8 DEF Balanced

\* A permit is given back by one of its holders.
LEMMA ReleaseBalanced ==
    ASSUME TypeOK, Placed, Balanced, NEW w \in Workers, Release(w) PROVE Balanced'
PROOF
<1> USE DEF Release, At
<1> DEFINE b == Owner(job[w])
<1>1. b \in Accounts
  BY BusyHasJob DEF Placed
<1> SUFFICES ASSUME NEW a \in Accounts
             PROVE  /\ permits'[a] = PER_ACCOUNT_MAX - Cardinality(Holders(a)')
                    /\ active'[a] = Cardinality(Counted(a)')
                    /\ AccountJobs(a)' <= PER_ACCOUNT_QUEUE_MAX
  BY DEF Balanced
<1>2. /\ Holders(a)' = IF a = b THEN Holders(a) \ {w} ELSE Holders(a)
      /\ a = b => w \in Holders(a)
  BY DEF Holders, TypeOK
<1>3. Counted(a)' = Counted(a)
  BY DEF Holders, Counted, TypeOK
<1>4. Cardinality(Holders(a)') = IF a = b THEN Cardinality(Holders(a)) - 1 ELSE Cardinality(Holders(a))
  BY <1>2, FiniteCounts, FS_RemoveElement
<1>5. Cardinality(Holders(a)) \in Nat
  BY FiniteCounts, FS_CardinalityType
<1>6. permits'[a] = IF a = b THEN permits[a] + 1 ELSE permits[a]
  BY <1>1 DEF TypeOK
<1>7. permits'[a] = PER_ACCOUNT_MAX - Cardinality(Holders(a)')
  BY <1>4, <1>5, <1>6, LimitsAssumption DEF Balanced
<1> QED
  BY <1>3, <1>7 DEF Balanced, AccountJobs

\* A key is added below the limit of its account.
LEMMA AdmitBalanced ==
    ASSUME TypeOK, Balanced, NEW r \in Requests, Admit(r) PROVE Balanced'
PROOF
<1> USE DEF Admit, workerVars
<1> DEFINE KeysAt(a) == {k \in Keys : AccountOf[k] = a /\ jobs[k] # None}
<1> SUFFICES ASSUME NEW a \in Accounts
             PROVE  /\ permits'[a] = PER_ACCOUNT_MAX - Cardinality(Holders(a)')
                    /\ active'[a] = Cardinality(Counted(a)')
                    /\ AccountJobs(a)' <= PER_ACCOUNT_QUEUE_MAX
  BY DEF Balanced
<1>1. Holders(a)' = Holders(a) /\ Counted(a)' = Counted(a)
  BY DEF Holders, Counted
<1>2. KeysAt(a)' = IF a = Owner(r) THEN KeysAt(a) \cup {KeyOf[r]} ELSE KeysAt(a)
  <2>1. \A k \in Keys : jobs'[k] # None <=> k = KeyOf[r] \/ jobs[k] # None
    BY DraftAssumption DEF TypeOK
  <2>2. KeyOf[r] \in Keys /\ Owner(r) = AccountOf[KeyOf[r]]
    BY DraftAssumption DEF Owner
  <2> QED
    BY <2>1, <2>2
<1>3. /\ Cardinality(KeysAt(a)) \in Nat
      /\ Cardinality(KeysAt(a)') <= IF a = Owner(r) THEN Cardinality(KeysAt(a)) + 1
                                    ELSE Cardinality(KeysAt(a))
  <2>1. IsFiniteSet(KeysAt(a))
    BY FiniteCounts
  <2>2. Cardinality(KeysAt(a)) \in Nat
    BY <2>1, FS_CardinalityType
  <2>3. CASE a = Owner(r)
    <3>1. Cardinality(KeysAt(a) \cup {KeyOf[r]}) \in {Cardinality(KeysAt(a)), Cardinality(KeysAt(a)) + 1}
      BY <2>1, FS_AddElement
    <3>2. Cardinality(KeysAt(a)') \in {Cardinality(KeysAt(a)), Cardinality(KeysAt(a)) + 1}
      BY <1>2, <2>3, <3>1
    <3> HIDE DEF KeysAt
    <3> QED
      BY <2>2, <2>3, <3>2
  <2>4. CASE a # Owner(r)
    <3>1. Cardinality(KeysAt(a)') = Cardinality(KeysAt(a))
      BY <1>2, <2>4
    <3> HIDE DEF KeysAt
    <3> QED
      BY <2>2, <2>4, <3>1
  <2> QED
    BY <2>3, <2>4
<1>4. AccountJobs(a) = Cardinality(KeysAt(a)) /\ AccountJobs(a)' = Cardinality(KeysAt(a)')
  BY DEF AccountJobs
<1>5. AccountJobs(a)' <= PER_ACCOUNT_QUEUE_MAX
  <2>1. a = Owner(r) => AccountJobs(a) < PER_ACCOUNT_QUEUE_MAX
    OBVIOUS
  <2>2. AccountJobs(a) <= PER_ACCOUNT_QUEUE_MAX
    BY DEF Balanced
  <2>3. AccountJobs(a) \in Nat
    BY <1>3, <1>4
  <2>4. Cardinality(KeysAt(a)') \in Nat
    <3>1. IsFiniteSet(KeysAt(a)')
      BY <1>2, FiniteCounts, FS_AddElement
    <3> QED
      BY <3>1, FS_CardinalityType
  <2> HIDE DEF KeysAt
  <2> QED
    BY <1>3, <1>4, <2>1, <2>2, <2>3, <2>4, LimitsAssumption
<1> QED
  BY <1>1, <1>5 DEF Balanced

\* A key is taken away again.
LEMMA PutBalanced ==
    ASSUME TypeOK, Balanced, NEW r \in Requests, Put(r) PROVE Balanced'
PROOF
<1> DEFINE KeysAt(a) == {k \in Keys : AccountOf[k] = a /\ jobs[k] # None}
<1> SUFFICES ASSUME NEW a \in Accounts
             PROVE  /\ permits'[a] = PER_ACCOUNT_MAX - Cardinality(Holders(a)')
                    /\ active'[a] = Cardinality(Counted(a)')
                    /\ AccountJobs(a)' <= PER_ACCOUNT_QUEUE_MAX
  BY DEF Balanced
<1>1. Holders(a)' = Holders(a) /\ Counted(a)' = Counted(a) /\ UNCHANGED <<permits, active>>
  BY DEF Put, workerVars, Holders, Counted
<1>2. KeysAt(a)' \in SUBSET KeysAt(a)
  BY DEF Put, TypeOK
<1>3. IsFiniteSet(KeysAt(a))
  BY FiniteCounts
<1>4. /\ Cardinality(KeysAt(a)') <= Cardinality(KeysAt(a))
      /\ Cardinality(KeysAt(a)') \in Nat /\ Cardinality(KeysAt(a)) \in Nat
  BY <1>2, <1>3, FS_Subset, FS_CardinalityType
<1>5. AccountJobs(a) = Cardinality(KeysAt(a)) /\ AccountJobs(a)' = Cardinality(KeysAt(a)')
  BY DEF AccountJobs
<1>6. AccountJobs(a)' <= PER_ACCOUNT_QUEUE_MAX
  BY <1>4, <1>5, LimitsAssumption DEF Balanced
<1> QED
  BY <1>1, <1>6 DEF Balanced

\* Every step of a request keeps the balance.
LEMMA RequestBalanced ==
    ASSUME TypeOK, Placed, Balanced, NEW r \in Requests, RequestStep(r) PROVE Balanced'
PROOF
<1>1. CASE Register(r) \/ Duplicate(r) \/ Refuse(r) \/ Unregister(r)
  BY <1>1, BalancedFrame DEF Register, Duplicate, Refuse, Unregister, workerVars
<1> QED
  BY <1>1, AdmitBalanced, PutBalanced DEF RequestStep

\* So does every step of a worker.
LEMMA WorkerBalanced ==
    ASSUME TypeOK, Placed, Balanced, NEW w \in Workers, WorkerStep(w) PROVE Balanced'
PROOF
<1>1. CASE Take(w)
  BY <1>1, BalancedWorker DEF Take, At, TypeOK
<1>2. CASE CheckCancelled(w)
  <2>1. CASE At(w, "started", "leaving")
    BY <1>2, <2>1, BalancedWorker DEF CheckCancelled, At
  <2>2. CASE At(w, "started", "drafting")
    BY <1>2, <2>2, BalancedWorker DEF CheckCancelled, At
  <2> QED
    BY <1>2, <2>1, <2>2 DEF CheckCancelled
<1>3. CASE Draft(w)
  BY <1>3, BalancedWorker DEF Draft, At
<1>4. CASE Leave(w)
  BY <1>4, BalancedWorker DEF Leave, At
<1> QED
  BY <1>1, <1>2, <1>3, <1>4, AcquireBalanced, StartBalanced, FinishBalanced, ReleaseBalanced
  DEF WorkerStep

-----------------------------------------------------------------------------
(* Theorems. *)

\* Inv is inductive.
LEMMA InvStep == Inv /\ [Next]_vars => Inv'
PROOF
<1> SUFFICES ASSUME Inv, [Next]_vars PROVE Inv'
  OBVIOUS
<1>1. ASSUME NEW r \in Requests, RequestStep(r) PROVE Inv'
  BY <1>1, RequestTypes, RequestPlaced, RequestBalanced DEF Inv
<1>2. ASSUME NEW w \in Workers, WorkerStep(w) PROVE Inv'
  BY <1>2, WorkerTypes, WorkerStepPlaced, WorkerBalanced DEF Inv
<1>3. ASSUME NEW k \in Keys, CancelProcess(k) PROVE Inv'
  <2>1. TypeOK'
    BY <1>3 DEF Inv, CancelProcess, TypeOK, requestVars, workerVars
  <2>2. Placed'
    BY <1>3
    DEF Inv, CancelProcess, Placed, QueuePlaced, WorkerPlaced, PutPlaced, KeysPlaced,
        InFlight, requestVars, workerVars
  <2>3. Balanced'
    BY <1>3, BalancedFrame DEF Inv, CancelProcess, workerVars
  <2> QED
    BY <2>1, <2>2, <2>3 DEF Inv
<1>4. CASE UNCHANGED vars
  <2>1. TypeOK'
    BY <1>4 DEF Inv, TypeOK, vars, requestVars, cancelVars, workerVars
  <2>2. Placed'
    BY <1>4
    DEF Inv, Placed, QueuePlaced, WorkerPlaced, PutPlaced, KeysPlaced, InFlight,
        vars, requestVars, workerVars
  <2>3. Balanced'
    BY <1>4, BalancedFrame DEF Inv, vars, workerVars
  <2> QED
    BY <2>1, <2>2, <2>3 DEF Inv
<1> QED
  BY <1>1, <1>2, <1>3, <1>4 DEF Next

\* Keys have owners in flight, and permits and counters their holders, in every
\* state of the queue.
THEOREM QueueInvariant == Spec => []Inv
  BY InvInit, InvStep, PTL DEF Spec

\* The variables keep their types: the queue its bound, the permits theirs.
THEOREM TypeCorrect == Spec => []TypeOK
PROOF
<1>1. Inv => TypeOK
  BY DEF Inv
<1> QED
  BY <1>1, QueueInvariant, PTL

\* _jobs_by_key is what is in flight, one job of an e-mail at most.
THEOREM RegistryCorrect == Spec => []RegistryMatchesJobs
PROOF
<1>1. Inv => RegistryMatchesJobs
  <2> SUFFICES ASSUME Inv, NEW k \in Keys
               PROVE  {r \in Requests : KeyOf[r] = k /\ InFlight(r)}
                        = IF jobs[k] = None THEN {} ELSE {jobs[k]}
    BY DEF RegistryMatchesJobs
  <2>1. ASSUME NEW r \in Requests, KeyOf[r] = k, InFlight(r) PROVE jobs[k] = r /\ r # None
    BY <2>1, DraftAssumption
    DEF Inv, Placed, PutPlaced, QueuePlaced, WorkerPlaced, InFlight
  <2>2. jobs[k] # None => jobs[k] \in Requests /\ KeyOf[jobs[k]] = k /\ InFlight(jobs[k])
    BY DEF Inv, TypeOK, Placed, KeysPlaced
  <2> QED
    BY <2>1, <2>2
<1> QED
  BY <1>1, QueueInvariant, PTL

\* No account exceeds its limits, and permits and counters agree with the
\* workers.
THEOREM LimitsCorrect == Spec => []LimitsHold
PROOF
<1>1. Inv => LimitsHold
  <2> SUFFICES ASSUME Inv PROVE LimitsHold
    OBVIOUS
  <2>1. ASSUME NEW a \in Accounts PROVE Cardinality(Holders(a)) <= PER_ACCOUNT_MAX
    <3>1. Cardinality(Holders(a)) \in Nat
      BY FiniteCounts, FS_CardinalityType
    <3>2. permits[a] \in 0..PER_ACCOUNT_MAX /\ permits[a] = PER_ACCOUNT_MAX - Cardinality(Holders(a))
      BY DEF Inv, TypeOK, Balanced
    <3> QED
      BY <3>1, <3>2, LimitsAssumption
  <2>2. ASSUME NEW v \in Workers, NEW w \in Workers, v # w, job[v] = job[w] PROVE job[v] = None
    BY <2>2 DEF Inv, Placed, WorkerPlaced
  <2> QED
    BY <2>1, <2>2 DEF Inv, Balanced, LimitsHold
<1> QED
  BY <1>1, QueueInvariant, PTL

-----------------------------------------------------------------------------
(* DraftQueue implements Desk. *)

\* A request is told nothing before its job is put, and only an accepted one has an
\* outcome.
AnswersReported ==
    \A r \in Requests :
        /\ rpc[r] \in {"new", "registered", "put"} => answer[r] = "none"
        /\ answer[r] # "enqueued" => result[r] = "none"

\* A job that waits was accepted and has no outcome yet; nor has the job of a worker
\* until it looked at its event or drafted.
QueueReported ==
    \A i \in 1..Len(queue) : answer[queue[i]] = "enqueued" /\ result[queue[i]] = "none"
AtWork == {"waiting", "acquired", "started", "drafting"}
WorkersReported ==
    \A w \in Workers : job[w] # None =>
        /\ answer[job[w]] = "enqueued"
        /\ result[job[w]] = "none" <=> wpc[w] \in AtWork

\* The event of an e-mail, and of a request, was made by a request for that e-mail.
EventsNamed ==
    /\ \A k \in Keys : registry[k] # None => KeyOf[registry[k]] = k
    /\ \A r \in Requests : event[r] # None => KeyOf[event[r]] = KeyOf[r]

Reported == AnswersReported /\ QueueReported /\ WorkersReported
DeskInv == Inv /\ Reported /\ EventsNamed

LEMMA DeskInit == Init => DeskInv
PROOF
<1>1. Init => Reported /\ EventsNamed
  BY DEF Init, Reported, AnswersReported, QueueReported, WorkersReported, EventsNamed
<1> QED
  BY <1>1, InvInit DEF DeskInv

\* The jobs in the queue are requests, accepted and of no worker.
LEMMA QueuedAreRequests ==
    ASSUME Inv, NEW i \in 1..Len(queue)
    PROVE  /\ queue[i] \in Requests /\ rpc[queue[i]] = "answered"
           /\ \A w \in Workers : job[w] # queue[i]
  BY DEF Inv, TypeOK, Placed, QueuePlaced

\* A request that is answered with a refusal changes the report of nobody's job.
LEMMA RefusalReported ==
    ASSUME DeskInv, NEW r \in Requests, rpc[r] # "answered",
           NEW x \in {"answered", "rejected"}, NEW y \in {"duplicate", "full"},
           rpc[r] \in {"registered", "put"},
           rpc' = [rpc EXCEPT ![r] = x], answer' = [answer EXCEPT ![r] = y],
           UNCHANGED <<queue, job, wpc, result>>
    PROVE  Reported'
PROOF
<1> USE DEF DeskInv, Reported, Inv
<1>1. AnswersReported'
  BY DEF AnswersReported, TypeOK
<1>2. QueueReported'
  BY QueuedAreRequests DEF QueueReported, TypeOK
<1>3. WorkersReported'
  BY DEF WorkersReported, Placed, WorkerPlaced, TypeOK
<1> QED
  BY <1>1, <1>2, <1>3

\* A step of a request keeps the report.
LEMMA RequestReported ==
    ASSUME DeskInv, NEW r \in Requests, RequestStep(r) PROVE Reported'
PROOF
<1> USE DEF DeskInv, Reported, Inv, workerVars
<1>1. CASE Register(r) \/ Unregister(r) \/ Admit(r)
  <2>1. AnswersReported'
    BY <1>1 DEF Register, Unregister, Admit, AnswersReported, TypeOK
  <2>2. QueueReported' /\ WorkersReported'
    BY <1>1 DEF Register, Unregister, Admit, QueueReported, WorkersReported
  <2> QED
    BY <2>1, <2>2
<1>2. CASE Duplicate(r)
  BY <1>2, RefusalReported DEF Duplicate
<1>3. CASE Refuse(r)
  BY <1>3, RefusalReported DEF Refuse
<1>4. CASE Put(r) /\ Full
  BY <1>4, RefusalReported DEF Put
<1>5. CASE Put(r) /\ ~Full
  <2>1. /\ rpc[r] = "put" /\ rpc' = [rpc EXCEPT ![r] = "answered"]
        /\ answer' = [answer EXCEPT ![r] = "enqueued"]
        /\ queue' = Append(queue, r) /\ UNCHANGED <<job, wpc, result>>
    BY <1>5 DEF Put
  <2>2. /\ Len(queue') = Len(queue) + 1 /\ queue'[Len(queue) + 1] = r
        /\ \A i \in 1..Len(queue) : queue'[i] = queue[i]
    BY <2>1 DEF TypeOK
  <2>3. AnswersReported'
    BY <2>1 DEF AnswersReported, TypeOK
  <2>4. answer'[r] = "enqueued" /\ result'[r] = "none"
    BY <2>1 DEF AnswersReported, TypeOK
  <2>5. \A i \in 1..Len(queue) : answer'[queue[i]] = "enqueued" /\ result'[queue[i]] = "none"
    BY <2>1, QueuedAreRequests DEF QueueReported, TypeOK
  <2>6. QueueReported'
    BY <2>2, <2>4, <2>5 DEF QueueReported, TypeOK
  <2>7. WorkersReported'
    BY <2>1 DEF WorkersReported, TypeOK
  <2> QED
    BY <2>3, <2>6, <2>7
<1> QED
  BY <1>1, <1>2, <1>3, <1>4, <1>5 DEF RequestStep

\* A worker that goes on from one place to another, and gives its job an outcome as it
\* leaves the work, keeps the report.
LEMMA MoveReported ==
    ASSUME DeskInv, NEW w \in Workers, NEW x, wpc[w] # "idle", x # "idle",
           wpc' = [wpc EXCEPT ![w] = x], UNCHANGED <<rpc, answer, queue, job>>,
           \/ (wpc[w] \in AtWork <=> x \in AtWork) /\ UNCHANGED result
           \/ /\ x \notin AtWork
              /\ \E what \in {"drafted", "cancelled"} : result' = [result EXCEPT ![job[w]] = what]
    PROVE  Reported'
PROOF
<1> USE DEF DeskInv, Reported, Inv
<1>1. job[w] \in Requests /\ answer[job[w]] = "enqueued"
  BY BusyHasJob DEF Placed, WorkersReported
<1>2. AnswersReported'
  BY <1>1 DEF AnswersReported, TypeOK
<1>3. QueueReported'
  BY QueuedAreRequests DEF QueueReported, TypeOK
<1>4. ASSUME NEW v \in Workers, job[v] # None
      PROVE  /\ answer[job[v]] = "enqueued"
             /\ result'[job[v]] = "none" <=> wpc'[v] \in AtWork
  <2>1. CASE v = w
    BY <1>1, <1>4, <2>1 DEF WorkersReported, TypeOK
  <2>2. CASE v # w
    <3>1. job[v] # job[w] /\ job[v] \in Requests
      BY <1>4, <2>2 DEF Placed, WorkerPlaced, TypeOK
    <3> QED
      BY <1>4, <2>2, <3>1 DEF WorkersReported, TypeOK
  <2> QED
    BY <2>1, <2>2
<1>5. WorkersReported'
  BY <1>4 DEF WorkersReported
<1> QED
  BY <1>2, <1>3, <1>5

\* A step of a worker keeps the report.
LEMMA WorkerReported ==
    ASSUME DeskInv, NEW w \in Workers, WorkerStep(w) PROVE Reported'
PROOF
<1> USE DEF At, requestVars
<1>1. CASE Take(w)
  <2> USE DEF DeskInv, Reported, Inv
  <2>1. /\ queue \in Seq(Requests) /\ Len(queue) > 0 /\ Head(queue) = queue[1]
        /\ Len(queue') = Len(queue) - 1
        /\ \A i \in 1..Len(queue') : queue'[i] = queue[i + 1]
    BY <1>1 DEF Take, TypeOK
  <2>2. AnswersReported'
    BY <1>1 DEF Take, AnswersReported
  <2>3. QueueReported'
    <3> SUFFICES ASSUME NEW i \in 1..Len(queue')
                 PROVE  answer[queue'[i]] = "enqueued" /\ result[queue'[i]] = "none"
      BY <1>1 DEF Take, QueueReported
    <3>1. i + 1 \in 1..Len(queue) /\ queue'[i] = queue[i + 1]
      BY <2>1
    <3> QED
      BY <3>1 DEF QueueReported
  <2>4. answer[Head(queue)] = "enqueued" /\ result[Head(queue)] = "none"
    BY <2>1 DEF QueueReported
  <2>5. WorkersReported'
    BY <1>1, <2>4 DEF Take, WorkersReported, AtWork, TypeOK
  <2> QED
    BY <2>2, <2>3, <2>5
<1>2. CASE Acquire(w)
  BY <1>2, MoveReported DEF Acquire, AtWork
<1>3. CASE Start(w)
  BY <1>3, MoveReported DEF Start, AtWork
<1>4. CASE CheckCancelled(w)
  <2>1. CASE At(w, "started", "leaving")
    BY <1>4, <2>1, MoveReported DEF CheckCancelled, AtWork
  <2>2. CASE At(w, "started", "drafting")
    BY <1>4, <2>2, MoveReported DEF CheckCancelled, AtWork
  <2> QED
    BY <1>4, <2>1, <2>2 DEF CheckCancelled
<1>5. CASE Draft(w)
  BY <1>5, MoveReported DEF Draft, AtWork
<1>6. CASE Leave(w)
  BY <1>6, MoveReported DEF Leave, AtWork
<1>7. CASE Finish(w)
  BY <1>7, MoveReported DEF Finish, AtWork
<1>8. CASE Release(w)
  <2> USE DEF DeskInv, Reported, Inv
  <2>1. AnswersReported' /\ QueueReported'
    BY <1>8 DEF Release, AnswersReported, QueueReported
  <2>2. WorkersReported'
    BY <1>8 DEF Release, WorkersReported, TypeOK
  <2> QED
    BY <2>1, <2>2
<1> QED
  BY <1>1, <1>2, <1>3, <1>4, <1>5, <1>6, <1>7, <1>8 DEF WorkerStep

\* Events are given the name of a request for their e-mail, and passed on to requests
\* for the same one.
LEMMA EventsStep ==
    ASSUME DeskInv, [Next]_vars PROVE EventsNamed'
PROOF
<1> USE DraftAssumption DEF DeskInv, Inv
<1>1. ASSUME NEW r \in Requests, Register(r) PROVE EventsNamed'
  <2>1. KeyOf[event'[r]] = KeyOf[r]
    BY <1>1 DEF Register, EventsNamed, TypeOK
  <2>2. ASSUME NEW k \in Keys, registry'[k] # None PROVE KeyOf[registry'[k]] = k
    BY <1>1, <2>1, <2>2 DEF Register, EventsNamed, TypeOK
  <2>3. ASSUME NEW q \in Requests, event'[q] # None PROVE KeyOf[event'[q]] = KeyOf[q]
    BY <1>1, <2>1, <2>3 DEF Register, EventsNamed, TypeOK
  <2> QED
    BY <2>2, <2>3 DEF EventsNamed
<1>2. ASSUME \A k \in Keys : registry'[k] \in {registry[k], None}, UNCHANGED event
      PROVE  EventsNamed'
  BY <1>2 DEF EventsNamed
<1>3. ASSUME NEW r \in Requests, Unregister(r) PROVE EventsNamed'
  BY <1>2, <1>3 DEF Unregister, TypeOK
<1>4. ASSUME NEW w \in Workers, CheckCancelled(w) \/ Leave(w) PROVE EventsNamed'
  BY <1>2, <1>4 DEF CheckCancelled, Leave, TypeOK, requestVars
<1>5. ASSUME UNCHANGED <<event, registry>> PROVE EventsNamed'
  BY <1>5 DEF EventsNamed
<1>6. ASSUME NEW r \in Requests, Duplicate(r) \/ Refuse(r) \/ Admit(r) \/ Put(r)
      PROVE  UNCHANGED <<event, registry>>
  BY <1>6 DEF Duplicate, Refuse, Admit, Put, cancelVars
<1>7. ASSUME NEW w \in Workers,
             Take(w) \/ Acquire(w) \/ Start(w) \/ Draft(w) \/ Finish(w) \/ Release(w)
      PROVE  UNCHANGED <<event, registry>>
  BY <1>7 DEF Take, Acquire, Start, Draft, Finish, Release, requestVars, cancelVars
<1>8. ASSUME NEW k \in Keys, CancelProcess(k) PROVE UNCHANGED <<event, registry>>
  BY <1>8 DEF CancelProcess, requestVars
<1>9. CASE UNCHANGED vars
  BY <1>5, <1>9 DEF vars, requestVars, cancelVars
<1> QED
  BY <1>1, <1>3, <1>4, <1>5, <1>6, <1>7, <1>8, <1>9 DEF Next, RequestStep, WorkerStep

\* The invariant, with what is reported, is inductive.
LEMMA DeskStep == DeskInv /\ [Next]_vars => DeskInv'
PROOF
<1> SUFFICES ASSUME DeskInv, [Next]_vars PROVE DeskInv'
  OBVIOUS
<1>1. ASSUME UNCHANGED <<rpc, answer, queue, job, wpc, result>> PROVE Reported'
  BY <1>1 DEF DeskInv, Reported, AnswersReported, QueueReported, WorkersReported
<1>2. ASSUME NEW k \in Keys, CancelProcess(k) PROVE Reported'
  BY <1>1, <1>2 DEF CancelProcess, requestVars, workerVars
<1>3. ASSUME UNCHANGED vars PROVE Reported'
  BY <1>1, <1>3 DEF vars, requestVars, workerVars
<1>4. Reported'
  BY <1>2, <1>3, RequestReported, WorkerReported DEF Next
<1>5. Inv'
  BY InvStep DEF DeskInv
<1> QED
  BY <1>4, <1>5, EventsStep DEF DeskInv

\* In every state, a job on its way was accepted and has no outcome, a job that is
\* forgotten has one, and events belong to their e-mail.
THEOREM DeskInvariant == Spec => []DeskInv
  BY DeskInit, DeskStep, PTL DEF Spec

\* A step that leaves jobs, answers, outcomes and events alone is not seen.
LEMMA UnseenStep ==
    ASSUME UNCHANGED <<jobs, answer, result, set>> PROVE UNCHANGED Promise!vars
  BY DEF Promise!vars

\* A request that has not been admitted does not own the key of its e-mail.
LEMMA NotAdmitted ==
    ASSUME Inv, NEW r \in Requests, rpc[r] = "registered" PROVE jobs[KeyOf[r]] # r
PROOF
<1> SUFFICES ASSUME jobs[KeyOf[r]] = r PROVE FALSE
  OBVIOUS
<1>1. KeyOf[r] \in Keys /\ r # None
  BY DraftAssumption
<1>2. InFlight(r)
  BY <1>1 DEF Inv, Placed, KeysPlaced
<1> QED
  BY <1>1, <1>2 DEF InFlight, Inv, Placed, QueuePlaced, WorkerPlaced

\* Desk counts with a Cardinality of its own, which is the same.
LEMMA SameCount == ASSUME NEW S PROVE Promise!Cardinality(S) = Cardinality(S)
  BY DEF Promise!Cardinality, Cardinality

\* What requests do: their jobs are laid on the desk, accepted, refused or turned away.
LEMMA RequestDesk ==
    ASSUME DeskInv, NEW r \in Requests, RequestStep(r) PROVE [Promise!Next]_(Promise!vars)
PROOF
<1> USE DEF DeskInv, Inv, Reported
<1> DEFINE asked == {KeyOf[e] : e \in set}
<1>1. CASE Register(r) \/ Unregister(r)
  BY <1>1, UnseenStep DEF Register, Unregister, workerVars
<1>2. ASSUME rpc[r] \in {"registered", "put"} PROVE answer[r] = "none"
  BY <1>2 DEF AnswersReported
<1>3. CASE Duplicate(r)
  <2>1. answer[r] = "none" /\ jobs[KeyOf[r]] \notin {None, r}
    BY <1>2, <1>3, NotAdmitted DEF Duplicate
  <2>2. Promise!Duplicate(r)
    BY <1>3, <2>1 DEF Duplicate, Promise!Duplicate, cancelVars, workerVars
  <2> QED
    BY <2>2 DEF Promise!Next
<1>4. CASE Refuse(r)
  <2>1. answer[r] = "none" /\ jobs[KeyOf[r]] # r
    BY <1>2, <1>4, NotAdmitted DEF Refuse
  <2>2. Promise!Refuse(r)
    BY <1>4, <2>1 DEF Refuse, Promise!Refuse, Promise!OnDesk, cancelVars, workerVars
  <2> QED
    BY <2>2 DEF Promise!Next
<1>5. CASE Admit(r)
  <2> DEFINE a == Owner(r)
  <2>1. {k \in Promise!KeysOf(a) : jobs[k] # None} = {k \in Keys : AccountOf[k] = a /\ jobs[k] # None}
    BY DEF Promise!KeysOf
  <2>2. Promise!Cardinality({k \in Promise!KeysOf(AccountOf[KeyOf[r]]) : jobs[k] # None})
          < PER_ACCOUNT_QUEUE_MAX
    BY <1>5, <2>1, SameCount DEF Admit, AccountJobs, Owner
  <2>3. Promise!Lay(r)
    BY <1>2, <1>5, <2>2 DEF Admit, Promise!Lay, cancelVars, workerVars
  <2> QED
    BY <2>3 DEF Promise!Next
<1>6. CASE Put(r)
  <2>1. answer[r] = "none" /\ jobs[KeyOf[r]] = r
    BY <1>2, <1>6 DEF Put, Placed, PutPlaced
  <2>2. CASE Full
    <3>1. Promise!Refuse(r)
      BY <1>6, <2>1, <2>2 DEF Put, Promise!Refuse, Promise!OnDesk, cancelVars, workerVars
    <3> QED
      BY <3>1 DEF Promise!Next
  <2>3. CASE ~Full
    <3>1. Promise!Accept(r)
      BY <1>6, <2>1, <2>3 DEF Put, Promise!Accept, Promise!OnDesk, cancelVars, workerVars
    <3> QED
      BY <3>1 DEF Promise!Next
  <2> QED
    BY <2>2, <2>3
<1> QED
  BY <1>1, <1>3, <1>4, <1>5, <1>6 DEF RequestStep

\* What workers do: they give an accepted job its outcome, and clear the desk.
LEMMA WorkerDesk ==
    ASSUME DeskInv, NEW w \in Workers, WorkerStep(w) PROVE [Promise!Next]_(Promise!vars)
PROOF
<1> USE DEF DeskInv, Inv, Reported, At
<1>1. CASE Take(w) \/ Acquire(w) \/ Start(w) \/ Leave(w) \/ Release(w)
  BY <1>1, UnseenStep DEF Take, Acquire, Start, Leave, Release, requestVars, cancelVars
<1>2. ASSUME wpc[w] \in {"started", "drafting", "done"}
      PROVE  /\ job[w] \in Requests /\ jobs[KeyOf[job[w]]] = job[w]
             /\ answer[job[w]] = "enqueued"
             /\ result[job[w]] = "none" <=> wpc[w] \in AtWork
  BY <1>2, BusyHasJob DEF Placed, WorkerPlaced, WorkersReported
<1> PICK r : r = job[w]
  OBVIOUS
<1>3. ASSUME NEW what \in {"drafted", "cancelled"}, wpc[w] \in {"started", "drafting"},
             result' = [result EXCEPT ![r] = what], UNCHANGED <<jobs, answer, set>>,
             what = "cancelled" => KeyOf[r] \in {KeyOf[e] : e \in set}
      PROVE  [Promise!Next]_(Promise!vars)
  <2>1. /\ r \in Requests /\ jobs[KeyOf[r]] = r
        /\ answer[r] = "enqueued" /\ result[r] = "none"
    BY <1>2, <1>3 DEF AtWork
  <2>2. Promise!Serve(r, what)
    BY <1>3, <2>1 DEF Promise!Serve, Promise!OnDesk
  <2> QED
    BY <2>1, <2>2 DEF Promise!Next
<1>4. CASE CheckCancelled(w)
  <2>1. CASE At(w, "started", "drafting")
    BY <1>4, <2>1, UnseenStep DEF CheckCancelled, requestVars, TypeOK
  <2>2. CASE At(w, "started", "leaving")
    <3>1. event[r] \in set /\ result' = [result EXCEPT ![r] = "cancelled"]
      BY <1>4, <2>2 DEF CheckCancelled, TypeOK
    <3>2. KeyOf[event[r]] = KeyOf[r]
      BY <1>2, <2>2, <3>1, DraftAssumption DEF EventsNamed, TypeOK
    <3>3. KeyOf[r] \in {KeyOf[e] : e \in set}
      BY <3>1, <3>2
    <3> QED
      BY <1>3, <1>4, <2>2, <3>1, <3>3 DEF CheckCancelled, requestVars
  <2> QED
    BY <1>4, <2>1, <2>2 DEF CheckCancelled
<1>5. CASE Draft(w)
  BY <1>3, <1>5 DEF Draft, requestVars, cancelVars
<1>6. CASE Finish(w)
  <2>1. r \in Requests /\ jobs[KeyOf[r]] = r /\ result[r] # "none"
    BY <1>2, <1>6 DEF Finish, AtWork
  <2>2. Promise!Clear(r)
    BY <1>6, <2>1 DEF Finish, Promise!Clear, Promise!OnDesk, requestVars, cancelVars
  <2> QED
    BY <2>1, <2>2 DEF Promise!Next
<1> QED
  BY <1>1, <1>4, <1>5, <1>6 DEF WorkerStep

\* A cancel is asked for by whoever sets the event of the e-mail.
LEMMA CancelDesk ==
    ASSUME DeskInv, NEW k \in Keys, CancelProcess(k) PROVE Promise!Ask(k)
PROOF
<1>1. set' = set \cup {registry[k]} /\ KeyOf[registry[k]] = k
  BY DEF CancelProcess, DeskInv, EventsNamed
<1>2. {KeyOf[e] : e \in set'} = {KeyOf[e] : e \in set} \cup {k}
  BY <1>1
<1> QED
  BY <1>2 DEF CancelProcess, Promise!Ask, requestVars, workerVars

\* DraftQueue implements Desk: whatever the limits, no accepted job is forgotten
\* without an outcome, none has two, nothing is drafted that was refused or turned
\* away, and nothing is cancelled that nobody asked to cancel.
THEOREM DraftQueueImplementsDesk == Spec => ImplementsDesk
PROOF
<1>1. Init => Promise!Init
  BY DEF Init, Promise!Init
<1>2. DeskInv /\ [Next]_vars => [Promise!Next]_(Promise!vars)
  <2> SUFFICES ASSUME DeskInv, [Next]_vars PROVE [Promise!Next]_(Promise!vars)
    OBVIOUS
  <2>1. ASSUME NEW k \in Keys, CancelProcess(k) PROVE Promise!Next
    BY <2>1, CancelDesk DEF Promise!Next
  <2>2. CASE UNCHANGED vars
    BY <2>2, UnseenStep DEF vars, requestVars, cancelVars, workerVars
  <2> QED
    BY <2>1, <2>2, RequestDesk, WorkerDesk DEF Next
<1> QED
  BY <1>1, <1>2, DeskInvariant, PTL DEF Spec, ImplementsDesk, Promise!Spec

=============================================================================
