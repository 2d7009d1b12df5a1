--------------------------- MODULE SyncJobsProofs ---------------------------
(***************************************************************************)
(* Proofs about SyncJobs, for every set of requests, folders, dispatchers  *)
(* and leases.  A transaction relies on what it read: PlanKept says so of  *)
(* a request, TakeKept of a dispatcher, and LocksApart that no two of them *)
(* work on one row.  LeaseKept ties a worker to its row, Covered and       *)
(* Snapshot what was asked for to what is synced.  The rest is about the   *)
(* quota: what a sum of units is, one job after the other, and why the     *)
(* jobs of one dispatch fit into a window together.                        *)
(***************************************************************************)
EXTENDS SyncJobs, TLAPS, FiniteSetTheorems, WellFoundedInduction

\* The types of TypeOK without the counters.
Rows ==
    /\ jobs \in [JobIds -> Job]
    /\ \A j \in JobIds :
        /\ jobs[j].status = "running" => jobs[j].owner # None
        /\ jobs[j].status # "none" => jobs[j].scope # None
    /\ enq \in [Requests -> Enqueue]
    /\ disp \in [Dispatchers -> SUBSET JobIds]
    /\ runs \in [Leases -> Run]
    /\ \A l \in Leases : Live(l) => runs[l].job \in JobIds

\* A job that may be taken from the worker it had.
Reclaimable(j) ==
    jobs[j].status = "retry_waiting" \/ (jobs[j].status = "running" /\ LeaseExpired(j))

\* What a request has read about its folder is still so when it writes.
PlanOf(r) ==
    \/ /\ enq[r].plan = "create" /\ enq[r].job = None
       /\ \A j \in JobIds : jobs[j].scope = ScopeOf[r] => ~IsActive(j)
    \/ /\ enq[r].plan \in {"replace", "requeue", "merge"} /\ enq[r].job \in JobIds
       /\ jobs[enq[r].job].scope = ScopeOf[r] /\ IsActive(enq[r].job)
       /\ enq[r].plan = "replace" => jobs[enq[r].job].owner = None
       /\ enq[r].plan = "requeue" => Reclaimable(enq[r].job)
PlanKept ==
    \A r \in Requests :
        /\ enq[r].pc = "new" => enq[r].job = None
        /\ enq[r].pc = "read" => PlanOf(r)

\* What a dispatcher has locked can still be claimed when it writes.
TakeKept ==
    \A d \in Dispatchers : \A j \in disp[d] : jobs[j].status = "queued" \/ Reclaimable(j)

LocksApart ==
    /\ \A r, q \in Requests :
        enq[r].pc = "read" /\ enq[q].pc = "read" /\ ScopeOf[r] = ScopeOf[q] => r = q
    /\ \A r \in Requests, d \in Dispatchers : enq[r].pc = "read" => enq[r].job \notin disp[d]
    /\ \A d, e \in Dispatchers : d # e => disp[d] \cap disp[e] = {}

\* Only an active job has an owner.
Owned == \A j \in JobIds : jobs[j].owner # None => IsActive(j)

\* A worker in time has its lease, and the lease has not expired.
LeaseKept ==
    \A l \in Leases :
        runs[l].pc = "syncing" /\ ~runs[l].late =>
            Holds(l) /\ jobs[runs[l].job].status = "running" /\ jobs[runs[l].job].age = 0

\* The limit of a job covers every request that was given it before it ran, and so
\* does the limit its worker syncs with.
AskedOf(r, j) == enq[r].job = j /\ enq[r].pc = "done" /\ enq[r].before
Covered ==
    \A r \in Requests, j \in JobIds :
        AskedOf(r, j) => jobs[j].status # "none" /\ LimitOf[r] <= jobs[j].limit
Snapshot ==
    \A l \in Leases, r \in Requests :
        /\ runs[l].pc = "syncing" /\ Holds(l) /\ jobs[runs[l].job].status = "running"
        /\ AskedOf(r, runs[l].job)
        => LimitOf[r] <= runs[l].limit

Inv ==
    /\ Rows /\ OneActivePerScope /\ PlanKept /\ TakeKept /\ LocksApart
    /\ Owned /\ LeaseKept /\ Covered /\ Snapshot

-----------------------------------------------------------------------------
(* Frames: what a step leaves to the others. *)

\* The row as its lock protects it: time only makes it older.
Same(j) ==
    /\ jobs'[j].status = jobs[j].status /\ jobs'[j].scope = jobs[j].scope
    /\ jobs'[j].owner = jobs[j].owner
    /\ jobs'[j].age >= jobs[j].age

\* A request that goes on reading keeps its plan, when its row stays the same and no
\* job of its scope becomes active.
LEMMA PlanFrame ==
    ASSUME Rows, NEW r \in Requests, PlanOf(r), Rows',
           enq'[r] = enq[r],
           enq[r].job \in JobIds => Same(enq[r].job),
           \A j \in JobIds : jobs'[j].scope = ScopeOf[r] /\ IsActive(j)' =>
                                 jobs[j].scope = ScopeOf[r] /\ IsActive(j)
    PROVE  PlanOf(r)'
PROOF
<1>1. CASE enq[r].plan = "create"
  BY <1>1 DEF PlanOf
<1>2. CASE enq[r].plan # "create"
  <2>1. enq[r].job \in JobIds /\ Same(enq[r].job)
    BY <1>2 DEF PlanOf
  <2>2. jobs[enq[r].job].age \in 0..2 /\ jobs'[enq[r].job].age \in 0..2
    BY <2>1 DEF Rows, Job
  <2> QED
    BY <1>2, <2>1, <2>2 DEF PlanOf, Same, IsActive, Reclaimable, LeaseExpired
<1> QED
  BY <1>1, <1>2

\* A dispatcher that goes on keeps its candidates.
LEMMA TakeFrame ==
    ASSUME Rows, Rows', TakeKept,
           \A d \in Dispatchers : disp'[d] \subseteq disp[d],
           \A d \in Dispatchers : \A j \in disp'[d] : Same(j)
    PROVE  TakeKept'
PROOF
<1> SUFFICES ASSUME NEW d \in Dispatchers, NEW j \in disp'[d]
             PROVE  (jobs[j].status = "queued" \/ Reclaimable(j))'
  BY DEF TakeKept
<1>1. j \in disp[d] /\ j \in JobIds /\ Same(j)
  BY DEF Rows
<1>2. jobs[j].age \in 0..2 /\ jobs'[j].age \in 0..2
  BY <1>1 DEF Rows, Job
<1> QED
  BY <1>1, <1>2 DEF TakeKept, Same, Reclaimable, LeaseExpired

\* Locks that are given back stay apart.
LEMMA LocksFrame ==
    ASSUME Rows, LocksApart,
           \A r \in Requests : enq'[r].pc = "read" => enq'[r] = enq[r],
           \A d \in Dispatchers : disp'[d] \subseteq disp[d]
    PROVE  LocksApart'
PROOF
<1>1. \A r \in Requests : enq'[r].pc = "read" => enq[r].pc = "read" /\ enq'[r].job = enq[r].job
  OBVIOUS
<1>2. \A r, q \in Requests :
        enq'[r].pc = "read" /\ enq'[q].pc = "read" /\ ScopeOf[r] = ScopeOf[q] => r = q
  BY <1>1 DEF LocksApart
<1>3. \A r \in Requests, d \in Dispatchers : enq'[r].pc = "read" => enq'[r].job \notin disp'[d]
  BY <1>1 DEF LocksApart
<1>4. \A d, e \in Dispatchers : d # e => disp'[d] \cap disp'[e] = {}
  BY DEF LocksApart
<1> QED
  BY <1>2, <1>3, <1>4 DEF LocksApart

\* Nobody new becomes active.
LEMMA ActiveFrame ==
    ASSUME OneActivePerScope,
           \A j \in JobIds : IsActive(j)' => IsActive(j) /\ jobs'[j].scope = jobs[j].scope
    PROVE  OneActivePerScope'
  BY DEF OneActivePerScope

\* Plans, when no request takes a step and no locked row is written.
LEMMA PlansFrame ==
    ASSUME Rows, Rows', PlanKept, enq' = enq,
           \A r \in Requests :
               enq[r].pc = "read" /\ enq[r].job \in JobIds => Same(enq[r].job),
           \A j \in JobIds : IsActive(j)' => IsActive(j) /\ jobs'[j].scope = jobs[j].scope
    PROVE  PlanKept'
PROOF
<1> SUFFICES ASSUME NEW r \in Requests, enq[r].pc = "read" PROVE PlanOf(r)'
  BY DEF PlanKept
<1>1. PlanOf(r) /\ (enq[r].job \in JobIds => Same(enq[r].job))
  BY DEF PlanKept
<1> QED
  BY <1>1, PlanFrame

\* What was asked for stays covered, when limits do not shrink.
LEMMA CoveredFrame ==
    ASSUME Rows, Rows', Covered, SyncAssumption,
           \A r \in Requests, j \in JobIds : AskedOf(r, j)' => AskedOf(r, j),
           \A j \in JobIds : jobs[j].status # "none" =>
               jobs'[j].status # "none" /\ jobs'[j].limit >= jobs[j].limit
    PROVE  Covered'
PROOF
<1> SUFFICES ASSUME NEW r \in Requests, NEW j \in JobIds, AskedOf(r, j)'
             PROVE  jobs'[j].status # "none" /\ LimitOf[r] <= jobs'[j].limit
  BY DEF Covered
<1>1. jobs[j].status # "none" /\ LimitOf[r] <= jobs[j].limit
  BY DEF Covered
<1>2. LimitOf[r] \in Nat /\ jobs[j].limit \in Nat /\ jobs'[j].limit \in Nat
  BY DEF SyncAssumption, Rows, Job
<1> QED
  BY <1>1, <1>2

-----------------------------------------------------------------------------
(* Requests. *)

LEMMA InvInit == Init => Inv
PROOF
<1> SUFFICES ASSUME Init PROVE Inv
  OBVIOUS
<1>1. Rows
  BY DEF Init, Rows, Job, Enqueue, Run, Live
<1> QED
  BY <1>1, SyncAssumption
     DEF Init, Inv, OneActivePerScope, IsActive, Active, PlanKept, TakeKept, LocksApart, Owned,
         LeaseKept, Covered, AskedOf, Snapshot

LEMMA EnqueueReadKeeps ==
    ASSUME Inv, NEW r \in Requests, EnqueueRead(r)
    PROVE  Inv'
PROOF
<1>1. /\ UNCHANGED <<jobs, disp, runs>> /\ enq[r].pc = "new" /\ enq[r].job = None
      /\ \A q \in Requests : enq[q].pc = "read" => ScopeOf[q] # ScopeOf[r]
  BY DEF EnqueueRead, Inv, PlanKept, ScopeLocked
<1>2. /\ \A q \in Requests \ {r} : enq'[q] = enq[q]
      /\ enq'[r].pc = "read" /\ enq'[r].before = enq[r].before
      /\ enq'[r].job = None \/ enq'[r].job \in JobIds
      /\ enq' \in [Requests -> Enqueue]
      /\ \A d \in Dispatchers : enq'[r].job \notin disp[d]
      /\ PlanOf(r)'
  <2>0. /\ enq \in [Requests -> Enqueue] /\ \A d \in Dispatchers : disp[d] \subseteq JobIds
        /\ None \notin JobIds
    BY SyncAssumption DEF Inv, Rows
  <2>1. CASE /\ \A j \in JobIds : ~IsExisting(j, ScopeOf[r])
             /\ enq' = [enq EXCEPT ![r].pc = "read", ![r].plan = "create"]
    <3>1. /\ \A q \in Requests \ {r} : enq'[q] = enq[q]
          /\ enq'[r].pc = "read" /\ enq'[r].before = enq[r].before
          /\ enq'[r].job = None /\ enq'[r].plan = "create" /\ enq'[r] \in Enqueue
      BY <1>1, <2>0, <2>1 DEF Enqueue, Plans
    <3>4. enq' \in [Requests -> Enqueue]
      BY <2>0, <2>1, <3>1
    <3>2. ASSUME NEW j \in JobIds, jobs[j].scope = ScopeOf[r] PROVE ~IsActive(j)
      <4>1. j \in Nat
        BY SyncAssumption
      <4> QED
        BY <2>1, <3>2, <4>1 DEF IsExisting, Inv, OneActivePerScope
    <3>3. PlanOf(r)'
      BY <1>1, <3>1, <3>2 DEF PlanOf, IsActive
    <3> QED
      BY <2>0, <3>1, <3>3, <3>4
  <2>2. ASSUME NEW j \in JobIds, IsExisting(j, ScopeOf[r]), ~Locked(j),
               enq' = [enq EXCEPT ![r].pc = "read", ![r].plan = PlanFor(j), ![r].job = j]
        PROVE  /\ \A q \in Requests \ {r} : enq'[q] = enq[q]
               /\ enq'[r].pc = "read" /\ enq'[r].before = enq[r].before
               /\ enq'[r].job = None \/ enq'[r].job \in JobIds
               /\ enq' \in [Requests -> Enqueue]
               /\ \A d \in Dispatchers : enq'[r].job \notin disp[d]
               /\ PlanOf(r)'
    <3>1. /\ PlanFor(j) \in {"replace", "requeue", "merge"}
          /\ PlanFor(j) = "replace" => jobs[j].owner = None
          /\ PlanFor(j) = "requeue" => Reclaimable(j)
      BY DEF PlanFor, Reclaimable
    <3>2. /\ \A q \in Requests \ {r} : enq'[q] = enq[q]
          /\ enq'[r].pc = "read" /\ enq'[r].before = enq[r].before
          /\ enq'[r].job = j /\ enq'[r].plan = PlanFor(j) /\ enq'[r] \in Enqueue
      BY <2>0, <2>2, <3>1 DEF Enqueue, Plans
    <3>5. enq' \in [Requests -> Enqueue]
      BY <2>0, <2>2, <3>2
    <3>3. \A d \in Dispatchers : j \notin disp[d]
      BY <2>2 DEF Locked, LockedByDispatch
    <3>4. PlanOf(r)'
      BY <1>1, <2>2, <3>1, <3>2
         DEF PlanOf, IsExisting, IsActive, Reclaimable, LeaseExpired
    <3> QED
      BY <3>2, <3>3, <3>4, <3>5
  <2> QED
    BY <2>1, <2>2 DEF EnqueueRead
<1>3. Rows'
  BY <1>1, <1>2 DEF Inv, Rows, Live
<1>4. PlanKept'
  <2> SUFFICES ASSUME NEW q \in Requests \ {r}, enq[q].pc = "read" PROVE PlanOf(q)'
    BY <1>2 DEF PlanKept, Inv
  <2>1. PlanOf(q)
    BY DEF Inv, PlanKept
  <2> QED
    BY <1>1, <1>2, <2>1 DEF PlanOf, IsActive, Reclaimable, LeaseExpired
<1>5. LocksApart'
  BY <1>1, <1>2 DEF Inv, LocksApart
<1>6. \A q \in Requests, j \in JobIds : AskedOf(q, j)' => AskedOf(q, j)
  BY <1>1, <1>2 DEF AskedOf
<1>7. Snapshot'
  <2> SUFFICES ASSUME NEW l \in Leases, NEW q \in Requests,
                      runs[l].pc = "syncing", AskedOf(q, runs[l].job)'
               PROVE  AskedOf(q, runs[l].job)
    BY <1>1 DEF Inv, Snapshot, Holds
  <2> QED
    BY <1>1, <1>2 DEF AskedOf
<1>8. Covered'
  BY <1>1, <1>6 DEF Inv, Covered
<1> QED
  BY <1>1, <1>3, <1>4, <1>5, <1>7, <1>8
     DEF Inv, OneActivePerScope, IsActive, TakeKept, Reclaimable, LeaseExpired, Owned,
         LeaseKept, Holds

\* A request ends with the job j of its folder, new or the one it had locked; another
\* job it had locked is failed.
LEMMA WriteKeeps ==
    ASSUME Inv, Rows', NEW r \in Requests, NEW j \in JobIds, enq[r].pc = "read",
           UNCHANGED <<disp, runs>>,
           \A q \in Requests \ {r} : enq'[q] = enq[q],
           enq'[r].pc = "done" /\ enq'[r].job = j,
           IsActive(j)' /\ jobs'[j].scope = ScopeOf[r],
           jobs[j].status = "none" \/ j = enq[r].job,
           \A k \in JobIds \ {j} :
               \/ jobs'[k] = jobs[k]
               \/ /\ k = enq[r].job /\ jobs[k].owner = None /\ jobs'[k].owner = None
                  /\ jobs'[k].status = "failed" /\ jobs'[k].limit = jobs[k].limit,
           \A k \in JobIds \ {j} : IsActive(k)' => jobs'[k].scope # ScopeOf[r],
           LimitOf[r] <= jobs'[j].limit,
           jobs[j].status # "none" => jobs'[j].limit >= jobs[j].limit,
           jobs'[j].status = "running" =>
               ~enq'[r].before /\ jobs[j].status = "running" /\ jobs'[j].owner = jobs[j].owner,
           jobs[j].status = "running" /\ jobs[j].age = 0 =>
               /\ jobs'[j].status = "running" /\ jobs'[j].owner = jobs[j].owner
               /\ jobs'[j].age = 0
    PROVE  Inv'
PROOF
<1>0. /\ \A k \in JobIds : jobs[k].limit \in Nat /\ jobs'[k].limit \in Nat
      /\ \A q \in Requests : LimitOf[q] \in Nat
  BY SyncAssumption DEF Inv, Rows, Job
<1>1. \A k \in JobIds : jobs[k].status = "none" => ~IsActive(k)
  BY DEF IsActive, Active
<1>2. \A k \in JobIds \ {j} : IsActive(k)' => jobs'[k] = jobs[k]
  BY DEF IsActive, Active
<1>3. OneActivePerScope'
  BY <1>2 DEF Inv, OneActivePerScope, IsActive
<1>4. PlanKept'
  <2> SUFFICES ASSUME NEW q \in Requests \ {r}, enq[q].pc = "read" PROVE PlanOf(q)'
    BY DEF PlanKept, Inv
  <2>1. PlanOf(q) /\ ScopeOf[q] # ScopeOf[r] /\ PlanOf(r)
    BY DEF Inv, PlanKept, LocksApart
  <2>2. CASE enq[q].plan = "create"
    BY <1>2, <2>1, <2>2 DEF PlanOf, IsActive
  <2>3. CASE enq[q].plan # "create"
    <3>1. enq[q].job \in JobIds /\ enq[q].job # j /\ enq[q].job # enq[r].job
      BY <1>1, <2>1, <2>3, SyncAssumption DEF PlanOf
    <3>2. jobs'[enq[q].job] = jobs[enq[q].job]
      BY <3>1
    <3> QED
      BY <2>1, <2>3, <3>1, <3>2 DEF PlanOf, IsActive, Reclaimable, LeaseExpired
  <2> QED
    BY <2>2, <2>3
<1>5. TakeKept'
  <2> SUFFICES ASSUME NEW d \in Dispatchers, NEW k \in disp[d]
               PROVE  (jobs[k].status = "queued" \/ Reclaimable(k))'
    BY DEF TakeKept
  <2>1. k \in JobIds /\ (jobs[k].status = "queued" \/ Reclaimable(k)) /\ k # enq[r].job
    BY DEF Inv, Rows, TakeKept, LocksApart
  <2>2. jobs'[k] = jobs[k]
    BY <2>1 DEF Reclaimable
  <2> QED
    BY <2>1, <2>2 DEF Reclaimable, LeaseExpired
<1>6. LocksApart'
  BY DEF Inv, LocksApart
<1>7. Owned'
  BY DEF Inv, Owned, IsActive
<1>8. LeaseKept'
  <2> SUFFICES ASSUME NEW l \in Leases, runs[l].pc = "syncing", ~runs[l].late
               PROVE  /\ jobs'[runs[l].job].owner = l
                      /\ jobs'[runs[l].job].status = "running" /\ jobs'[runs[l].job].age = 0
    BY DEF LeaseKept, Holds
  <2>1. /\ runs[l].job \in JobIds /\ jobs[runs[l].job].owner = l /\ l # None
        /\ jobs[runs[l].job].status = "running" /\ jobs[runs[l].job].age = 0
    BY SyncAssumption DEF Inv, Rows, LeaseKept, Holds, Live
  <2> QED
    BY <2>1
<1>9. Covered'
  <2> SUFFICES ASSUME NEW q \in Requests, NEW k \in JobIds, AskedOf(q, k)'
               PROVE  jobs'[k].status # "none" /\ LimitOf[q] <= jobs'[k].limit
    BY DEF Covered
  <2>1. CASE q = r
    BY <2>1 DEF AskedOf, IsActive, Active
  <2>2. CASE q # r
    <3>1. jobs[k].status # "none" /\ LimitOf[q] <= jobs[k].limit
      BY <2>2 DEF Inv, Covered, AskedOf
    <3> QED
      BY <1>0, <3>1 DEF IsActive, Active
  <2> QED
    BY <2>1, <2>2
<1>10. Snapshot'
  <2> SUFFICES ASSUME NEW l \in Leases, NEW q \in Requests, runs[l].pc = "syncing",
                      jobs'[runs[l].job].owner = l, jobs'[runs[l].job].status = "running",
                      AskedOf(q, runs[l].job)'
               PROVE  LimitOf[q] <= runs[l].limit
    BY DEF Snapshot, Holds
  <2>1. runs[l].job \in JobIds
    BY DEF Inv, Rows, Live
  <2>2. AskedOf(q, runs[l].job)
    BY DEF AskedOf
  <2>3. jobs[runs[l].job].owner = l /\ jobs[runs[l].job].status = "running"
    BY <2>1
  <2> QED
    BY <2>2, <2>3 DEF Inv, Snapshot, Holds
<1> QED
  BY <1>3, <1>4, <1>5, <1>6, <1>7, <1>8, <1>9, <1>10 DEF Inv

LEMMA NewRowFacts ==
    ASSUME NEW r \in Requests
    PROVE  /\ NewRow(r) \in Job /\ NewRow(r).status = "queued" /\ NewRow(r).scope = ScopeOf[r]
           /\ NewRow(r).scope # None
           /\ NewRow(r).limit = LimitOf[r] /\ NewRow(r).owner = None
PROOF
<1>1. ScopeOf[r] \in Scopes /\ LimitOf[r] \in Nat
  BY SyncAssumption
<1> QED
  BY <1>1, SyncAssumption DEF NewRow, Job, Active

LEMMA CreateKeeps ==
    ASSUME Inv, NEW r \in Requests, Create(r)
    PROVE  Inv'
PROOF
<1>1. PICK j \in JobIds :
        /\ IsNext(j) /\ jobs' = [jobs EXCEPT ![j] = NewRow(r)]
        /\ enq' = [enq EXCEPT ![r] = [pc |-> "done", plan |-> None, job |-> j, before |-> TRUE]]
  BY DEF Create
<1>2. /\ enq[r].pc = "read" /\ enq[r].plan = "create" /\ UNCHANGED <<disp, runs>>
      /\ jobs[j].status = "none"
  BY <1>1 DEF Create, IsNext
<1>3. PlanOf(r) /\ jobs \in [JobIds -> Job] /\ enq \in [Requests -> Enqueue]
  BY <1>2 DEF Inv, PlanKept, Rows
<1>4. /\ jobs'[j] = NewRow(r) /\ \A k \in JobIds \ {j} : jobs'[k] = jobs[k]
      /\ enq'[r] = [pc |-> "done", plan |-> None, job |-> j, before |-> TRUE]
      /\ \A q \in Requests \ {r} : enq'[q] = enq[q]
  BY <1>1, <1>3
<1>5. Rows'
  <2>1. enq'[r] \in Enqueue /\ jobs'[j] \in Job
    BY <1>4, NewRowFacts DEF Enqueue
  <2>2. jobs' \in [JobIds -> Job] /\ enq' \in [Requests -> Enqueue]
    BY <1>1, <1>3, <2>1
  <2> QED
    BY <1>2, <1>3, <1>4, <2>2, NewRowFacts DEF Inv, Rows, Live
<1>6. \A k \in JobIds \ {j} : IsActive(k)' => jobs'[k].scope # ScopeOf[r]
  BY <1>2, <1>3, <1>4 DEF PlanOf, IsActive
<1>7. IsActive(j)' /\ jobs'[j].scope = ScopeOf[r] /\ LimitOf[r] <= jobs'[j].limit
  BY <1>4, NewRowFacts, SyncAssumption DEF IsActive, Active
<1> QED
  BY <1>2, <1>4, <1>5, <1>6, <1>7, NewRowFacts, WriteKeeps

LEMMA ReplaceKeeps ==
    ASSUME Inv, NEW r \in Requests, Replace(r)
    PROVE  Inv'
PROOF
<1>1. PICK j \in JobIds :
        /\ IsNext(j)
        /\ jobs' = [jobs EXCEPT ![enq[r].job].status = "failed", ![j] = NewRow(r)]
        /\ enq' = [enq EXCEPT ![r] = [pc |-> "done", plan |-> None, job |-> j, before |-> TRUE]]
  BY DEF Replace
<1>2. /\ enq[r].pc = "read" /\ enq[r].plan = "replace" /\ UNCHANGED <<disp, runs>>
      /\ jobs[j].status = "none"
  BY <1>1 DEF Replace, IsNext
<1>3. /\ jobs \in [JobIds -> Job] /\ enq \in [Requests -> Enqueue]
      /\ enq[r].job \in JobIds /\ jobs[enq[r].job].scope = ScopeOf[r] /\ IsActive(enq[r].job)
      /\ jobs[enq[r].job].owner = None
  BY <1>2 DEF Inv, PlanKept, Rows, PlanOf
<1>4. enq[r].job # j
  BY <1>2, <1>3 DEF IsActive, Active
<1>5. /\ jobs'[j] = NewRow(r) /\ \A k \in JobIds \ {j, enq[r].job} : jobs'[k] = jobs[k]
      /\ jobs'[enq[r].job].status = "failed" /\ jobs'[enq[r].job].owner = None
      /\ jobs'[enq[r].job].scope = jobs[enq[r].job].scope
      /\ jobs'[enq[r].job].limit = jobs[enq[r].job].limit
      /\ enq'[r] = [pc |-> "done", plan |-> None, job |-> j, before |-> TRUE]
      /\ \A q \in Requests \ {r} : enq'[q] = enq[q]
  <2> DEFINE mid == [jobs EXCEPT ![enq[r].job].status = "failed"]
  <2>1. /\ mid \in [JobIds -> Job] /\ \A k \in JobIds \ {enq[r].job} : mid[k] = jobs[k]
        /\ mid[enq[r].job].status = "failed" /\ mid[enq[r].job].owner = None
        /\ mid[enq[r].job].scope = jobs[enq[r].job].scope
        /\ mid[enq[r].job].limit = jobs[enq[r].job].limit
    BY <1>3 DEF Job
  <2>2. jobs' = [mid EXCEPT ![j] = NewRow(r)]
    BY <1>1
  <2> HIDE DEF mid
  <2>3. jobs'[j] = NewRow(r) /\ \A k \in JobIds \ {j} : jobs'[k] = mid[k]
    BY <2>1, <2>2
  <2> QED
    BY <1>1, <1>3, <1>4, <2>1, <2>3
<1>6. jobs' \in [JobIds -> Job] /\ enq' \in [Requests -> Enqueue]
  <2>1. enq'[r] \in Enqueue /\ jobs'[j] \in Job
    BY <1>5, NewRowFacts DEF Enqueue
  <2>2. jobs'[enq[r].job] \in Job
    BY <1>1, <1>3, <1>4 DEF Job
  <2> QED
    BY <1>1, <1>3, <2>1, <2>2
<1>7. Rows'
  BY <1>2, <1>3, <1>5, <1>6, NewRowFacts DEF Inv, Rows, Live, IsActive, Active
<1>8. ASSUME NEW k \in JobIds \ {j}, IsActive(k)' PROVE jobs'[k].scope # ScopeOf[r]
  <2>1. k # enq[r].job
    BY <1>5, <1>8 DEF IsActive, Active
  <2> QED
    BY <1>3, <1>5, <1>8, <2>1 DEF Inv, OneActivePerScope, IsActive
<1>9. IsActive(j)' /\ jobs'[j].scope = ScopeOf[r] /\ LimitOf[r] <= jobs'[j].limit
  BY <1>5, NewRowFacts, SyncAssumption DEF IsActive, Active
<1> QED
  BY <1>2, <1>3, <1>5, <1>7, <1>8, <1>9, NewRowFacts, WriteKeeps

LEMMA WiderFacts ==
    ASSUME Inv, NEW r \in Requests, enq[r].job \in JobIds
    PROVE  Wider(r) \in Nat /\ LimitOf[r] <= Wider(r) /\ jobs[enq[r].job].limit <= Wider(r)
PROOF
<1>1. LimitOf[r] \in Nat /\ jobs[enq[r].job].limit \in Nat
  BY SyncAssumption DEF Inv, Rows, Job
<1> QED
  BY <1>1 DEF Wider

LEMMA RequeueKeeps ==
    ASSUME Inv, NEW r \in Requests, Requeue(r)
    PROVE  Inv'
PROOF
<1>0. PICK j : j = enq[r].job
  OBVIOUS
<1>1. /\ enq[r].pc = "read" /\ enq[r].plan = "requeue" /\ UNCHANGED <<disp, runs>>
      /\ jobs' = [jobs EXCEPT ![j].status = "queued", ![j].backoff = FALSE, ![j].limit = Wider(r),
                              ![j].owner = IF jobs[j].status = "running" THEN None ELSE @]
      /\ enq' = [enq EXCEPT ![r].pc = "done", ![r].plan = None, ![r].before = TRUE]
  BY <1>0 DEF Requeue
<1>2. /\ jobs \in [JobIds -> Job] /\ enq \in [Requests -> Enqueue]
      /\ j \in JobIds /\ jobs[j].scope = ScopeOf[r] /\ IsActive(j) /\ Reclaimable(j)
  BY <1>0, <1>1 DEF Inv, PlanKept, Rows, PlanOf
<1>9. Wider(r) \in Nat /\ LimitOf[r] <= Wider(r) /\ jobs[j].limit <= Wider(r)
  BY <1>0, <1>2, WiderFacts
<1>3. /\ \A k \in JobIds \ {j} : jobs'[k] = jobs[k]
      /\ jobs'[j].status = "queued" /\ jobs'[j].scope = jobs[j].scope
      /\ jobs'[j].limit = Wider(r)
      /\ \A q \in Requests \ {r} : enq'[q] = enq[q]
      /\ enq'[r].pc = "done" /\ enq'[r].job = j
      /\ jobs'[j].owner = IF jobs[j].status = "running" THEN None ELSE jobs[j].owner
  BY <1>0, <1>1, <1>2
<1>4. jobs' \in [JobIds -> Job] /\ enq' \in [Requests -> Enqueue]
  <2>1. jobs'[j] \in Job
    BY <1>1, <1>2, <1>9 DEF Job, Active
  <2>2. enq'[r] \in Enqueue
    BY <1>1, <1>2 DEF Enqueue
  <2> QED
    BY <1>1, <1>2, <2>1, <2>2
<1>5. Rows'
  BY <1>1, <1>2, <1>3, <1>4 DEF Inv, Rows, Live, IsActive, Active
<1>6. \A k \in JobIds \ {j} : IsActive(k)' => jobs'[k].scope # ScopeOf[r]
  BY <1>2, <1>3 DEF Inv, OneActivePerScope, IsActive
<1>7. IsActive(j)' /\ jobs'[j].scope = ScopeOf[r]
  BY <1>2, <1>3 DEF IsActive, Active
<1>8. ~(jobs[j].status = "running" /\ jobs[j].age = 0)
  BY <1>2 DEF Reclaimable, LeaseExpired
<1>10. enq[r].pc = "read" /\ UNCHANGED <<disp, runs>>
  BY <1>1
<1> QED
  BY <1>0, <1>2, <1>10, <1>3, <1>5, <1>6, <1>7, <1>8, <1>9, WriteKeeps

LEMMA MergeKeeps ==
    ASSUME Inv, NEW r \in Requests, Merge(r)
    PROVE  Inv'
PROOF
<1>0. PICK j : j = enq[r].job
  OBVIOUS
<1>1. /\ enq[r].pc = "read" /\ enq[r].plan = "merge" /\ UNCHANGED <<disp, runs>>
      /\ jobs' = [jobs EXCEPT ![j].limit = Wider(r)]
      /\ enq' = [enq EXCEPT ![r].pc = "done", ![r].plan = None,
                            ![r].before = (jobs[j].status # "running")]
  BY <1>0 DEF Merge
<1>2. /\ jobs \in [JobIds -> Job] /\ enq \in [Requests -> Enqueue]
      /\ j \in JobIds /\ jobs[j].scope = ScopeOf[r] /\ IsActive(j)
  BY <1>0, <1>1 DEF Inv, PlanKept, Rows, PlanOf
<1>9. Wider(r) \in Nat /\ LimitOf[r] <= Wider(r) /\ jobs[j].limit <= Wider(r)
  BY <1>0, <1>2, WiderFacts
<1>3. /\ \A k \in JobIds \ {j} : jobs'[k] = jobs[k]
      /\ jobs'[j].status = jobs[j].status /\ jobs'[j].scope = jobs[j].scope
      /\ jobs'[j].owner = jobs[j].owner /\ jobs'[j].age = jobs[j].age
      /\ jobs'[j].limit = Wider(r)
      /\ \A q \in Requests \ {r} : enq'[q] = enq[q]
      /\ enq'[r].pc = "done" /\ enq'[r].job = j /\ enq'[r].before = (jobs[j].status # "running")
  BY <1>0, <1>1, <1>2
<1>4. jobs' \in [JobIds -> Job] /\ enq' \in [Requests -> Enqueue]
  <2>1. jobs'[j] \in Job
    BY <1>1, <1>2, <1>9 DEF Job, Active
  <2>2. enq'[r] \in Enqueue
    BY <1>1, <1>2 DEF Enqueue
  <2> QED
    BY <1>1, <1>2, <2>1, <2>2
<1>5. Rows'
  BY <1>1, <1>2, <1>3, <1>4 DEF Inv, Rows, Live
<1>6. \A k \in JobIds \ {j} : IsActive(k)' => jobs'[k].scope # ScopeOf[r]
  BY <1>2, <1>3 DEF Inv, OneActivePerScope, IsActive
<1>7. IsActive(j)' /\ jobs'[j].scope = ScopeOf[r]
  BY <1>2, <1>3 DEF IsActive
<1>10. enq[r].pc = "read" /\ UNCHANGED <<disp, runs>>
  BY <1>1
<1>11. jobs'[j].status = "running" => ~enq'[r].before
  BY <1>3
<1> QED
  BY <1>0, <1>2, <1>11, <1>10, <1>3, <1>5, <1>6, <1>7, <1>9, WriteKeeps

-----------------------------------------------------------------------------
(* Dispatchers. *)

LEMMA DispatchReadKeeps ==
    ASSUME Inv, NEW d \in Dispatchers, DispatchRead(d)
    PROVE  Inv'
PROOF
<1>1. UNCHANGED <<jobs, enq, runs>>
  BY DEF DispatchRead
<1>2. /\ disp' \in [Dispatchers -> SUBSET JobIds]
      /\ \A e \in Dispatchers \ {d} : disp'[e] = disp[e]
      /\ \A j \in disp'[d] : j \in JobIds /\ Ready(j)
  BY DEF DispatchRead, Candidates, Inv, Rows
<1>3. Rows'
  BY <1>1, <1>2 DEF Inv, Rows, Live
<1>4. TakeKept'
  BY <1>1, <1>2 DEF Inv, TakeKept, Ready, Reclaimable, LeaseExpired
<1>5. LocksApart'
  <2>1. \A j \in disp'[d] : j \notin LockedByEnqueue /\ j \notin LockedByDispatch
    BY <1>2 DEF Ready, Locked
  <2>2. \A r \in Requests : enq[r].pc = "read" => enq[r].job \notin disp'[d]
    BY <2>1 DEF LockedByEnqueue
  <2>3. \A e \in Dispatchers : disp'[d] \cap disp[e] = {}
    BY <2>1 DEF LockedByDispatch
  <2> QED
    BY <1>1, <1>2, <2>2, <2>3 DEF Inv, LocksApart
<1> QED
  BY <1>1, <1>3, <1>4, <1>5
     DEF Inv, OneActivePerScope, IsActive, PlanKept, PlanOf, Reclaimable, LeaseExpired, Owned,
         LeaseKept, Holds, Covered, AskedOf, Snapshot

\* A dispatcher that claims G of its candidates.
LEMMA ClaimFacts ==
    ASSUME Inv, NEW d \in Dispatchers, NEW G \in SUBSET disp[d], Claim(d, G)
    PROVE  /\ UNCHANGED enq
           /\ \A e \in Dispatchers : disp'[e] = IF e = d THEN {} ELSE disp[e]
           /\ \A k \in JobIds \ disp[d] : jobs'[k] = jobs[k]
           /\ \A k \in disp[d] :
                /\ jobs'[k].scope = jobs[k].scope /\ jobs'[k].limit = jobs[k].limit
                /\ \/ /\ jobs'[k].status = "running" /\ jobs'[k].owner \in Leases
                      /\ runs[jobs'[k].owner].pc = "unused"
                   \/ jobs'[k].status = "retry_waiting" /\ jobs'[k].owner = jobs[k].owner
           /\ \A l \in Leases : runs'[l] = runs[l] \/ runs'[l].pc = "submitted"
           /\ Rows'
PROOF
<1> DEFINE own == CHOOSE f \in Owners(G) : TRUE
<1>1. own \in Owners(G)
  BY DEF Claim
<1>2. own \in [G -> Fresh] /\ G \subseteq JobIds /\ disp[d] \subseteq JobIds
  BY <1>1 DEF Owners, Inv, Rows
<1>3. /\ jobs' = [j \in JobIds |->
            IF j \in G
            THEN [jobs[j] EXCEPT !.status = "running", !.owner = own[j], !.age = 0,
                                 !.attempts = @ + 1, !.backoff = FALSE]
            ELSE IF j \in disp[d]
            THEN [jobs[j] EXCEPT !.status = "retry_waiting", !.backoff = TRUE]
            ELSE jobs[j]]
      /\ runs' = [l \in Leases |->
            IF \E j \in G : own[j] = l
            THEN [pc |-> "submitted", job |-> CHOOSE j \in G : own[j] = l, limit |-> 0,
                  late |-> FALSE]
            ELSE runs[l]]
      /\ UNCHANGED enq /\ disp' = [disp EXCEPT ![d] = {}]
  BY DEF Claim
<1> HIDE DEF own
<1>4. jobs \in [JobIds -> Job] /\ runs \in [Leases -> Run] /\ disp \in [Dispatchers -> SUBSET JobIds]
  BY DEF Inv, Rows
<1>5. \A k \in G : own[k] \in Leases /\ runs[own[k]].pc = "unused"
  BY <1>2 DEF Fresh
<1>6. ASSUME NEW k \in G
      PROVE  /\ jobs'[k] \in Job
             /\ jobs'[k].scope = jobs[k].scope /\ jobs'[k].limit = jobs[k].limit
             /\ jobs'[k].status = "running" /\ jobs'[k].owner = own[k]
  <2>1. jobs'[k] = [jobs[k] EXCEPT !.status = "running", !.owner = own[k], !.age = 0,
                                   !.attempts = @ + 1, !.backoff = FALSE]
    BY <1>2, <1>3
  <2>2. jobs[k] \in Job
    BY <1>2, <1>4
  <2>3. jobs[k].attempts + 1 \in Nat /\ 0 \in 0..2
    BY <2>2 DEF Job
  <2>4. jobs'[k] \in Job
    BY <1>5, <2>1, <2>2, <2>3 DEF Job, Active
  <2> QED
    BY <2>1, <2>2, <2>4 DEF Job
<1>7. ASSUME NEW k \in disp[d] \ G
      PROVE  /\ jobs'[k] \in Job
             /\ jobs'[k].scope = jobs[k].scope /\ jobs'[k].limit = jobs[k].limit
             /\ jobs'[k].status = "retry_waiting" /\ jobs'[k].owner = jobs[k].owner
  <2>1. jobs'[k] = [jobs[k] EXCEPT !.status = "retry_waiting", !.backoff = TRUE]
    BY <1>2, <1>3
  <2>2. jobs[k] \in Job
    BY <1>2, <1>4
  <2> QED
    BY <2>1, <2>2 DEF Job, Active
<1>8. \A k \in JobIds \ disp[d] : jobs'[k] = jobs[k]
  BY <1>3
<1>9. ASSUME NEW l \in Leases
      PROVE  /\ runs'[l] \in Run
             /\ runs'[l] = runs[l] \/ (runs'[l].pc = "submitted" /\ runs'[l].job \in JobIds)
  <2>1. CASE \E j \in G : own[j] = l
    <3>1. (CHOOSE j \in G : own[j] = l) \in JobIds
      BY <1>2, <2>1
    <3> QED
      BY <1>3, <2>1, <3>1 DEF Run
  <2>2. CASE ~\E j \in G : own[j] = l
    BY <1>3, <1>4, <2>2
  <2> QED
    BY <2>1, <2>2
<1>10. jobs' \in [JobIds -> Job]
  BY <1>3, <1>4, <1>6, <1>7, <1>8
<1>11. runs' \in [Leases -> Run]
  BY <1>3, <1>9
<1>12. \A j \in disp[d] : jobs[j].scope # None
  BY <1>2 DEF Inv, Rows, TakeKept, Reclaimable
<1>13. Rows'
  <2>1. ASSUME NEW j \in JobIds
        PROVE  /\ jobs'[j].status = "running" => jobs'[j].owner # None
               /\ jobs'[j].status # "none" => jobs'[j].scope # None
    BY <1>5, <1>6, <1>7, <1>8, <1>12, SyncAssumption DEF Inv, Rows
  <2>2. enq' \in [Requests -> Enqueue] /\ disp' \in [Dispatchers -> SUBSET JobIds]
    BY <1>3, <1>4 DEF Inv, Rows
  <2>3. \A l \in Leases : Live(l)' => runs'[l].job \in JobIds
    BY <1>9 DEF Inv, Rows, Live
  <2> QED
    BY <1>10, <1>11, <2>1, <2>2, <2>3 DEF Rows
<1>14. UNCHANGED enq /\ \A e \in Dispatchers : disp'[e] = IF e = d THEN {} ELSE disp[e]
  BY <1>3, <1>4
<1> QED
  BY <1>5, <1>6, <1>7, <1>8, <1>9, <1>13, <1>14

LEMMA DispatchWriteKeeps ==
    ASSUME Inv, NEW d \in Dispatchers, DispatchWrite(d)
    PROVE  Inv'
PROOF
<1>1. PICK G \in SUBSET disp[d] : Claim(d, G)
  BY DEF DispatchWrite
<1>2. /\ UNCHANGED enq
      /\ \A e \in Dispatchers : disp'[e] = IF e = d THEN {} ELSE disp[e]
      /\ \A k \in JobIds \ disp[d] : jobs'[k] = jobs[k]
      /\ \A k \in disp[d] :
            /\ jobs'[k].scope = jobs[k].scope /\ jobs'[k].limit = jobs[k].limit
            /\ \/ /\ jobs'[k].status = "running" /\ jobs'[k].owner \in Leases
                  /\ runs[jobs'[k].owner].pc = "unused"
               \/ jobs'[k].status = "retry_waiting" /\ jobs'[k].owner = jobs[k].owner
      /\ \A l \in Leases : runs'[l] = runs[l] \/ runs'[l].pc = "submitted"
      /\ Rows'
  BY <1>1, ClaimFacts
<1>3. /\ \A k \in disp[d] : k \in JobIds /\ IsActive(k) /\ IsActive(k)'
      /\ \A k \in disp[d] : jobs[k].status = "running" => jobs[k].age # 0
      /\ \A k \in JobIds : jobs[k].age \in 0..2 /\ jobs[k].limit \in Nat
  BY <1>2 DEF Inv, Rows, TakeKept, Reclaimable, LeaseExpired, IsActive, Active, Job
<1>4. \A k \in JobIds \ disp[d] : Same(k)
  BY <1>2, <1>3 DEF Same
<1>5. \A k \in JobIds : IsActive(k)' => IsActive(k) /\ jobs'[k].scope = jobs[k].scope
  BY <1>2, <1>3 DEF IsActive
<1>6. OneActivePerScope'
  BY <1>5, ActiveFrame DEF Inv
<1>7. PlanKept'
  <2>1. \A r \in Requests :
          enq[r].pc = "read" /\ enq[r].job \in JobIds => Same(enq[r].job)
    BY <1>4 DEF Inv, LocksApart
  <2> QED
    BY <1>2, <1>5, <2>1, PlansFrame DEF Inv
<1>8. TakeKept'
  <2>1. \A e \in Dispatchers : disp'[e] \subseteq disp[e]
    BY <1>2
  <2>2. \A e \in Dispatchers : \A j \in disp'[e] : Same(j)
    BY <1>2, <1>4 DEF Inv, LocksApart, Rows
  <2> QED
    BY <1>2, <2>1, <2>2, TakeFrame DEF Inv
<1>9. LocksApart'
  <2>1. \A e \in Dispatchers : disp'[e] \subseteq disp[e]
    BY <1>2
  <2> QED
    BY <1>2, <2>1, LocksFrame DEF Inv
<1>10. Owned'
  BY <1>2, <1>3 DEF Inv, Owned, IsActive
<1>11. LeaseKept'
  <2> SUFFICES ASSUME NEW l \in Leases, runs'[l].pc = "syncing", ~runs'[l].late
               PROVE  /\ jobs'[runs'[l].job].owner = l
                      /\ jobs'[runs'[l].job].status = "running" /\ jobs'[runs'[l].job].age = 0
    BY DEF LeaseKept, Holds
  <2>1. runs'[l] = runs[l] /\ runs[l].job \in JobIds
    BY <1>2 DEF Inv, Rows, Live
  <2>2. runs[l].job \notin disp[d]
    BY <1>3, <2>1 DEF Inv, LeaseKept
  <2> QED
    BY <1>2, <2>1, <2>2 DEF Inv, LeaseKept, Holds
<1>12. Covered'
  <2>1. \A r \in Requests, j \in JobIds : AskedOf(r, j)' => AskedOf(r, j)
    BY <1>2 DEF AskedOf
  <2>2. \A j \in JobIds : jobs[j].status # "none" =>
          jobs'[j].status # "none" /\ jobs'[j].limit >= jobs[j].limit
    BY <1>2, <1>3
  <2> QED
    BY <1>2, <2>1, <2>2, SyncAssumption, CoveredFrame DEF Inv
<1>13. Snapshot'
  <2> SUFFICES ASSUME NEW l \in Leases, NEW q \in Requests, runs'[l].pc = "syncing",
                      jobs'[runs'[l].job].owner = l, jobs'[runs'[l].job].status = "running",
                      AskedOf(q, runs[l].job)'
               PROVE  LimitOf[q] <= runs'[l].limit
    BY DEF Snapshot, Holds
  <2>1. runs'[l] = runs[l] /\ runs[l].job \in JobIds
    BY <1>2 DEF Inv, Rows, Live
  <2>2. runs[l].job \notin disp[d]
    BY <1>2, <2>1
  <2>3. jobs'[runs[l].job] = jobs[runs[l].job] /\ AskedOf(q, runs[l].job)
    BY <1>2, <2>1, <2>2 DEF AskedOf
  <2> QED
    BY <2>1, <2>3 DEF Inv, Snapshot, Holds
<1> QED
  BY <1>2, <1>6, <1>7, <1>8, <1>9, <1>10, <1>11, <1>12, <1>13 DEF Inv

LEMMA DispatchAbortKeeps ==
    ASSUME Inv, NEW d \in Dispatchers, DispatchAbort(d)
    PROVE  Inv'
PROOF
<1>1. /\ UNCHANGED <<jobs, enq, runs>> /\ disp' \in [Dispatchers -> SUBSET JobIds]
      /\ \A e \in Dispatchers : disp'[e] \subseteq disp[e]
  BY DEF DispatchAbort, Inv, Rows
<1>2. Rows'
  BY <1>1 DEF Inv, Rows, Live
<1>3. LocksApart'
  BY <1>1, LocksFrame DEF Inv
<1> QED
  BY <1>1, <1>2, <1>3
     DEF Inv, OneActivePerScope, IsActive, PlanKept, PlanOf, TakeKept, Reclaimable, LeaseExpired,
         Owned, LeaseKept, Holds, Covered, AskedOf, Snapshot

-----------------------------------------------------------------------------
(* Workers. *)

LEMMA StartKeeps ==
    ASSUME Inv, NEW l \in Leases, Start(l)
    PROVE  Inv'
PROOF
<1>1. /\ UNCHANGED <<jobs, enq, disp>> /\ runs[l].pc = "submitted"
      /\ runs \in [Leases -> Run] /\ runs[l].job \in JobIds
  BY DEF Start, Inv, Rows, Live
<1>2. /\ runs' \in [Leases -> Run] /\ \A k \in Leases \ {l} : runs'[k] = runs[k]
      /\ runs'[l].job = runs[l].job /\ runs'[l].limit = jobs[runs[l].job].limit
      /\ runs'[l].pc \in {"syncing", "done"}
      /\ runs'[l].pc = "syncing" => /\ jobs[runs[l].job].status = "running" /\ Holds(l)
                                     /\ jobs[runs[l].job].age = 0
  <2>1. jobs[runs[l].job].limit \in Nat
    BY <1>1 DEF Inv, Rows, Job
  <2>2. runs'[l] \in Run
    BY <1>1, <2>1 DEF Start, Run
  <2> QED
    BY <1>1, <2>2 DEF Start
<1>3. Rows'
  BY <1>1, <1>2 DEF Inv, Rows, Live
<1>4. LeaseKept'
  BY <1>1, <1>2 DEF Inv, LeaseKept, Holds
<1>5. Snapshot'
  <2> SUFFICES ASSUME NEW k \in Leases, NEW q \in Requests, runs'[k].pc = "syncing",
                      jobs[runs'[k].job].owner = k, jobs[runs'[k].job].status = "running",
                      AskedOf(q, runs'[k].job)
               PROVE  LimitOf[q] <= runs'[k].limit
    BY <1>1 DEF Snapshot, Holds, AskedOf
  <2>1. CASE k = l
    BY <1>1, <1>2, <2>1 DEF Inv, Covered
  <2>2. CASE k # l
    BY <1>2, <2>2 DEF Inv, Snapshot, Holds
  <2> QED
    BY <2>1, <2>2
<1> QED
  BY <1>1, <1>3, <1>4, <1>5
     DEF Inv, OneActivePerScope, IsActive, PlanKept, PlanOf, TakeKept, LocksApart, Reclaimable,
         LeaseExpired, Owned, Covered, AskedOf

\* A worker that ends: of a job that is still its own it writes the end, and the
\* owner is gone.
LEMMA EndKeeps ==
    ASSUME Inv, NEW l \in Leases, NEW j \in JobIds, runs[l].pc = "syncing", runs[l].job = j,
           ~Locked(j), UNCHANGED <<enq, disp>>, jobs' \in [JobIds -> Job],
           \A k \in JobIds \ {j} : jobs'[k] = jobs[k],
           \/ jobs'[j] = jobs[j]
           \/ /\ Holds(l) /\ jobs'[j].owner = None /\ jobs'[j].scope = jobs[j].scope
              /\ jobs'[j].limit = jobs[j].limit /\ jobs'[j].status \notin {"none", "running"},
           runs' = [runs EXCEPT ![l].pc = "done"]
    PROVE  Inv'
PROOF
<1>1. /\ runs \in [Leases -> Run] /\ l # None
      /\ \A k \in JobIds : jobs[k].age \in 0..2 /\ jobs[k].limit \in Nat
  BY SyncAssumption DEF Inv, Rows, Job
<1>2. /\ runs' \in [Leases -> Run] /\ \A k \in Leases \ {l} : runs'[k] = runs[k]
      /\ runs'[l].pc = "done"
  BY <1>1 DEF Run
<1>3. Holds(l) => IsActive(j) /\ jobs[j].status # "none" /\ jobs[j].scope # None
  BY <1>1 DEF Inv, Rows, Owned, Holds, IsActive, Active
<1>4. Rows'
  BY <1>2, <1>3 DEF Inv, Rows, Live
<1>5. \A k \in JobIds : IsActive(k)' => IsActive(k) /\ jobs'[k].scope = jobs[k].scope
  BY <1>3 DEF IsActive
<1>6. \A k \in JobIds : Locked(k) => Same(k)
  BY <1>1 DEF Same
<1>7. PlanKept'
  <2>1. \A r \in Requests :
          enq[r].pc = "read" /\ enq[r].job \in JobIds => Same(enq[r].job)
    BY <1>6 DEF Locked, LockedByEnqueue
  <2> QED
    BY <1>4, <1>5, <2>1, PlansFrame DEF Inv
<1>8. TakeKept'
  <2>1. \A d \in Dispatchers : \A k \in disp'[d] : Same(k)
    BY <1>6 DEF Locked, LockedByDispatch, Inv, Rows
  <2> QED
    BY <1>4, <2>1, TakeFrame DEF Inv
<1>9. LocksApart' /\ OneActivePerScope'
  BY <1>5, ActiveFrame DEF Inv, LocksApart
<1>10. Owned'
  BY DEF Inv, Owned, IsActive
<1>11. LeaseKept'
  <2> SUFFICES ASSUME NEW k \in Leases \ {l}, runs[k].pc = "syncing", ~runs[k].late
               PROVE  /\ jobs'[runs[k].job].owner = k
                      /\ jobs'[runs[k].job].status = "running" /\ jobs'[runs[k].job].age = 0
    BY <1>2 DEF LeaseKept, Holds
  <2>1. /\ runs[k].job \in JobIds /\ jobs[runs[k].job].owner = k
        /\ jobs[runs[k].job].status = "running" /\ jobs[runs[k].job].age = 0
    BY DEF Inv, LeaseKept, Holds, Rows, Live
  <2> QED
    BY <2>1 DEF Holds
<1>12. Covered'
  <2>1. \A r \in Requests, k \in JobIds : AskedOf(r, k)' => AskedOf(r, k)
    BY DEF AskedOf
  <2>2. \A k \in JobIds : jobs[k].status # "none" =>
          jobs'[k].status # "none" /\ jobs'[k].limit >= jobs[k].limit
    BY <1>1
  <2> QED
    BY <1>4, <2>1, <2>2, SyncAssumption, CoveredFrame DEF Inv
<1>13. Snapshot'
  <2> SUFFICES ASSUME NEW k \in Leases \ {l}, NEW q \in Requests, runs[k].pc = "syncing",
                      jobs'[runs[k].job].owner = k, jobs'[runs[k].job].status = "running",
                      AskedOf(q, runs[k].job)
               PROVE  LimitOf[q] <= runs[k].limit
    BY <1>2 DEF Snapshot, Holds, AskedOf
  <2>1. runs[k].job \in JobIds
    BY DEF Inv, Rows, Live
  <2>2. jobs'[runs[k].job] = jobs[runs[k].job]
    BY <2>1
  <2> QED
    BY <2>2 DEF Inv, Snapshot, Holds
<1> QED
  BY <1>4, <1>7, <1>8, <1>9, <1>10, <1>11, <1>12, <1>13 DEF Inv

LEMMA SyncedKeeps ==
    ASSUME Inv, NEW l \in Leases, Synced(l)
    PROVE  Inv'
PROOF
<1>0. PICK j : j = runs[l].job
  OBVIOUS
<1>1. /\ runs[l].pc = "syncing" /\ ~Locked(j) /\ UNCHANGED <<enq, disp>>
      /\ runs' = [runs EXCEPT ![l].pc = "done"]
      /\ jobs' = IF Holds(l)
                 THEN [jobs EXCEPT ![j].status = "completed", ![j].owner = None,
                                   ![j].backoff = FALSE, ![j].synced = runs[l].limit]
                 ELSE jobs
  BY <1>0 DEF Synced
<1>2. jobs \in [JobIds -> Job] /\ j \in JobIds /\ runs[l].limit \in Nat
  BY <1>0, <1>1 DEF Inv, Rows, Live, Run
<1>3. CASE Holds(l)
  <2>1. /\ jobs'[j].owner = None /\ jobs'[j].scope = jobs[j].scope
        /\ jobs'[j].limit = jobs[j].limit /\ jobs'[j].status = "completed"
        /\ \A k \in JobIds \ {j} : jobs'[k] = jobs[k]
    BY <1>1, <1>2, <1>3
  <2>2. jobs'[j] \in Job
    BY <1>1, <1>2, <1>3 DEF Job
  <2>3. jobs' \in [JobIds -> Job]
    BY <1>1, <1>2, <1>3, <2>1, <2>2
  <2>4. runs[l].pc = "syncing" /\ ~Locked(j) /\ UNCHANGED <<enq, disp>>
        /\ runs' = [runs EXCEPT ![l].pc = "done"]
    BY <1>1
  <2> QED
    BY <1>0, <1>2, <1>3, <2>1, <2>3, <2>4, EndKeeps
<1>4. CASE ~Holds(l)
  BY <1>0, <1>1, <1>2, <1>4, EndKeeps
<1> QED
  BY <1>3, <1>4

LEMMA FailedKeeps ==
    ASSUME Inv, NEW l \in Leases, Failed(l)
    PROVE  Inv'
PROOF
<1>0. PICK j : j = runs[l].job
  OBVIOUS
<1>1. /\ runs[l].pc = "syncing" /\ ~Locked(j) /\ UNCHANGED <<enq, disp>>
      /\ runs' = [runs EXCEPT ![l].pc = "done"]
      /\ \E again \in BOOLEAN :
           jobs' = IF Holds(l)
                   THEN [jobs EXCEPT ![j].owner = None, ![j].backoff = again,
                                     ![j].status = IF again THEN "retry_waiting" ELSE "failed"]
                   ELSE jobs
  <2> DEFINE again == jobs[runs[l].job].attempts < MAX_ATTEMPTS
  <2>1. again \in BOOLEAN
    OBVIOUS
  <2> QED
    BY <1>0, <2>1 DEF Failed
<1>2. jobs \in [JobIds -> Job] /\ j \in JobIds
  BY <1>0, <1>1 DEF Inv, Rows, Live
<1>3. ASSUME Holds(l), NEW again \in BOOLEAN,
             jobs' = [jobs EXCEPT ![j].owner = None, ![j].backoff = again,
                                  ![j].status = IF again THEN "retry_waiting" ELSE "failed"]
      PROVE  Inv'
  <2>1. /\ jobs'[j].owner = None /\ jobs'[j].scope = jobs[j].scope
        /\ jobs'[j].limit = jobs[j].limit /\ jobs'[j].status \in {"retry_waiting", "failed"}
        /\ \A k \in JobIds \ {j} : jobs'[k] = jobs[k]
    BY <1>2, <1>3
  <2>2. jobs'[j] \in Job
    BY <1>2, <1>3 DEF Job, Active
  <2>3. jobs' \in [JobIds -> Job]
    BY <1>2, <1>3, <2>1, <2>2
  <2>4. runs[l].pc = "syncing" /\ ~Locked(j) /\ UNCHANGED <<enq, disp>>
        /\ runs' = [runs EXCEPT ![l].pc = "done"]
    BY <1>1
  <2> QED
    BY <1>0, <1>2, <1>3, <2>1, <2>3, <2>4, EndKeeps
<1>4. CASE ~Holds(l)
  BY <1>0, <1>1, <1>2, <1>4, EndKeeps
<1> QED
  BY <1>1, <1>3, <1>4

-----------------------------------------------------------------------------
(* Time and faults. *)

\* A row that only gets older, or whose back-off ends.
LEMMA TimeKeeps ==
    ASSUME Inv, NEW j \in JobIds, UNCHANGED <<enq, disp>>, jobs' \in [JobIds -> Job],
           \A k \in JobIds \ {j} : jobs'[k] = jobs[k],
           Same(j), jobs'[j].limit = jobs[j].limit,
           runs' \in [Leases -> Run],
           \A l \in Leases : /\ runs'[l].pc = runs[l].pc /\ runs'[l].job = runs[l].job
                             /\ runs'[l].limit = runs[l].limit
                             /\ runs[l].late => runs'[l].late,
           \A l \in Leases :
               runs[l].pc = "syncing" /\ ~runs'[l].late /\ runs[l].job = j =>
                   jobs'[j].age = jobs[j].age
    PROVE  Inv'
PROOF
<1>1. \A k \in JobIds : jobs[k].age \in 0..2 /\ jobs[k].limit \in Nat
  BY DEF Inv, Rows, Job
<1>2. \A k \in JobIds : Same(k) /\ jobs'[k].limit = jobs[k].limit
  BY <1>1 DEF Same
<1>3. Rows'
  BY <1>2 DEF Inv, Rows, Live, Same
<1>4. \A k \in JobIds : IsActive(k)' => IsActive(k) /\ jobs'[k].scope = jobs[k].scope
  BY <1>2 DEF IsActive, Same
<1>5. PlanKept' /\ OneActivePerScope'
  BY <1>2, <1>3, <1>4, PlansFrame, ActiveFrame DEF Inv
<1>6. TakeKept' /\ LocksApart'
  <2>1. \A d \in Dispatchers : \A k \in disp'[d] : Same(k)
    BY <1>2 DEF Inv, Rows
  <2> QED
    BY <1>3, <2>1, TakeFrame DEF Inv, LocksApart
<1>7. Owned'
  BY <1>2 DEF Inv, Owned, Same, IsActive
<1>8. LeaseKept'
  <2> SUFFICES ASSUME NEW l \in Leases, runs[l].pc = "syncing", ~runs'[l].late
               PROVE  /\ jobs'[runs[l].job].owner = l
                      /\ jobs'[runs[l].job].status = "running" /\ jobs'[runs[l].job].age = 0
    BY DEF LeaseKept, Holds
  <2>1. /\ runs[l].job \in JobIds /\ jobs[runs[l].job].owner = l
        /\ jobs[runs[l].job].status = "running" /\ jobs[runs[l].job].age = 0
    BY DEF Inv, LeaseKept, Holds, Rows, Live
  <2> QED
    BY <1>2, <2>1 DEF Same
<1>9. Covered'
  BY <1>2 DEF Inv, Covered, AskedOf, Same
<1>10. Snapshot'
  <2> SUFFICES ASSUME NEW l \in Leases, NEW q \in Requests, runs[l].pc = "syncing",
                      jobs'[runs[l].job].owner = l, jobs'[runs[l].job].status = "running",
                      AskedOf(q, runs[l].job)
               PROVE  LimitOf[q] <= runs[l].limit
    BY DEF Snapshot, Holds, AskedOf
  <2>1. runs[l].job \in JobIds
    BY DEF Inv, Rows, Live
  <2> QED
    BY <1>2, <2>1 DEF Inv, Snapshot, Holds, Same
<1> QED
  BY <1>3, <1>5, <1>6, <1>7, <1>8, <1>9, <1>10 DEF Inv

LEMMA AgeKeeps ==
    ASSUME Inv, NEW j \in JobIds, Age(j)
    PROVE  Inv'
PROOF
<1>1. /\ jobs \in [JobIds -> Job] /\ runs \in [Leases -> Run]
      /\ jobs[j].age \in 0..1 /\ jobs[j].owner \in Leases \cup {None}
  BY DEF Age, Inv, Rows, Job
<1>2. /\ UNCHANGED <<enq, disp>> /\ jobs' = [jobs EXCEPT ![j].age = @ + 1]
  BY DEF Age
<1>3. /\ jobs' \in [JobIds -> Job] /\ \A k \in JobIds \ {j} : jobs'[k] = jobs[k]
      /\ jobs'[j].limit = jobs[j].limit /\ jobs'[j].age = jobs[j].age + 1 /\ Same(j)
  <2>1. /\ jobs'[j].age = jobs[j].age + 1 /\ jobs'[j].limit = jobs[j].limit
        /\ jobs'[j].status = jobs[j].status /\ jobs'[j].scope = jobs[j].scope
        /\ jobs'[j].owner = jobs[j].owner /\ \A k \in JobIds \ {j} : jobs'[k] = jobs[k]
    BY <1>1, <1>2
  <2>2. jobs[j].age + 1 \in 0..2
    BY <1>1
  <2>3. jobs' \in [JobIds -> Job]
    BY <1>1, <1>2, <2>2 DEF Job
  <2> QED
    BY <1>1, <2>1, <2>3 DEF Same
<1>4. /\ runs' \in [Leases -> Run]
      /\ \A l \in Leases : /\ runs'[l].pc = runs[l].pc /\ runs'[l].job = runs[l].job
                           /\ runs'[l].limit = runs[l].limit
                           /\ runs[l].late => runs'[l].late
      /\ Outlasts(j) => runs'[jobs[j].owner].late
  <2>1. CASE Outlasts(j)
    <3>1. jobs[j].owner \in Leases /\ runs' = [runs EXCEPT ![jobs[j].owner].late = TRUE]
      BY <1>1, <2>1 DEF Age, Outlasts
    <3> QED
      BY <1>1, <3>1 DEF Run
  <2>2. CASE ~Outlasts(j)
    BY <1>1, <2>2 DEF Age
  <2> QED
    BY <2>1, <2>2
<1>5. ASSUME NEW l \in Leases, runs[l].pc = "syncing", ~runs'[l].late, runs[l].job = j
      PROVE  FALSE
  <2>0. runs[l].late => runs'[l].late
    BY <1>4
  <2>1. ~runs[l].late
    BY <2>0, <1>5
  <2>2. jobs[j].owner = l /\ jobs[j].age = 0
    BY <1>5, <2>1 DEF Inv, LeaseKept, Holds
  <2>3. Outlasts(j)
    BY <1>5, <2>2, SyncAssumption DEF Outlasts, Live
  <2> QED
    BY <1>4, <1>5, <2>2, <2>3
<1> QED
  BY <1>2, <1>3, <1>4, <1>5, TimeKeeps

LEMMA BackoffElapsesKeeps ==
    ASSUME Inv, NEW j \in JobIds, BackoffElapses(j)
    PROVE  Inv'
PROOF
<1>1. /\ UNCHANGED <<enq, disp, runs>> /\ jobs' = [jobs EXCEPT ![j].backoff = FALSE]
      /\ jobs \in [JobIds -> Job] /\ runs \in [Leases -> Run]
  BY DEF BackoffElapses, Inv, Rows
<1>2. /\ jobs' \in [JobIds -> Job] /\ \A k \in JobIds \ {j} : jobs'[k] = jobs[k]
      /\ jobs'[j].limit = jobs[j].limit /\ jobs'[j].age = jobs[j].age /\ Same(j)
  <2>1. jobs[j].age \in 0..2
    BY <1>1 DEF Job
  <2>2. /\ \A k \in JobIds \ {j} : jobs'[k] = jobs[k]
        /\ jobs'[j].limit = jobs[j].limit /\ jobs'[j].age = jobs[j].age
        /\ jobs'[j].status = jobs[j].status /\ jobs'[j].scope = jobs[j].scope
        /\ jobs'[j].owner = jobs[j].owner
    BY <1>1
  <2>3. jobs' \in [JobIds -> Job]
    BY <1>1 DEF Job
  <2> QED
    BY <2>1, <2>2, <2>3 DEF Same
<1> QED
  BY <1>1, <1>2, TimeKeeps

LEMMA CrashKeeps ==
    ASSUME Inv, Crash
    PROVE  Inv'
PROOF
<1>1. /\ UNCHANGED jobs /\ enq \in [Requests -> Enqueue] /\ runs \in [Leases -> Run]
      /\ enq' = [r \in Requests |->
           IF enq[r].pc = "read"
           THEN [pc |-> "done", plan |-> None, job |-> None, before |-> FALSE] ELSE enq[r]]
      /\ disp' = [d \in Dispatchers |-> {}]
      /\ runs' = [l \in Leases |-> IF Live(l) THEN [runs[l] EXCEPT !.pc = "done"] ELSE runs[l]]
  BY DEF Crash, Inv, Rows
<1>2. /\ enq' \in [Requests -> Enqueue] /\ \A r \in Requests : enq'[r].pc # "read"
      /\ \A r \in Requests : enq'[r] = enq[r] \/ (enq'[r].pc = "done" /\ ~enq'[r].before)
  BY <1>1 DEF Enqueue
<1>3. /\ runs' \in [Leases -> Run]
      /\ \A l \in Leases : runs'[l].pc \notin {"submitted", "syncing"}
  BY <1>1 DEF Run, Live
<1>4. Rows'
  BY <1>1, <1>2, <1>3 DEF Inv, Rows, Live
<1>5. PlanKept' /\ TakeKept' /\ LocksApart'
  BY <1>1, <1>2 DEF Inv, PlanKept, TakeKept, LocksApart
<1>6. Covered'
  BY <1>1, <1>2 DEF Inv, Covered, AskedOf
<1>7. LeaseKept' /\ Snapshot'
  BY <1>3 DEF LeaseKept, Snapshot
<1> QED
  BY <1>1, <1>4, <1>5, <1>6, <1>7 DEF Inv, OneActivePerScope, Owned, IsActive

LEMMA StillKeeps ==
    ASSUME Inv, UNCHANGED <<jobs, enq, disp, runs>>
    PROVE  Inv'
  BY DEF Inv, Rows, Live, OneActivePerScope, IsActive, PlanKept, PlanOf, TakeKept, LocksApart,
         Reclaimable, LeaseExpired, Owned, LeaseKept, Holds, Covered, AskedOf, Snapshot

LEMMA InvNext ==
    ASSUME Inv, [Next]_vars
    PROVE  Inv'
PROOF
<1>1. ASSUME NEW r \in Requests, EnqueueRead(r) \/ EnqueueWrite(r) PROVE Inv'
  BY <1>1, EnqueueReadKeeps, CreateKeeps, ReplaceKeeps, RequeueKeeps, MergeKeeps
     DEF EnqueueWrite
<1>2. ASSUME NEW d \in Dispatchers, DispatchRead(d) \/ DispatchWrite(d) \/ DispatchAbort(d)
      PROVE  Inv'
  BY <1>2, DispatchReadKeeps, DispatchWriteKeeps, DispatchAbortKeeps
<1>3. ASSUME NEW l \in Leases, RunStep(l) PROVE Inv'
  BY <1>3, StartKeeps, SyncedKeeps, FailedKeeps DEF RunStep
<1>4. ASSUME NEW j \in JobIds, Age(j) \/ BackoffElapses(j) PROVE Inv'
  BY <1>4, AgeKeeps, BackoffElapsesKeeps
<1>5. CASE NewWindow \/ UNCHANGED vars
  BY <1>5, StillKeeps DEF NewWindow, vars
<1>6. CASE Crash
  BY <1>6, CrashKeeps
<1> QED
  BY <1>1, <1>2, <1>3, <1>4, <1>5, <1>6 DEF Next

-----------------------------------------------------------------------------
\* The inductive invariant holds of every behaviour of the queue.
THEOREM SyncJobsInvariant == Spec => []Inv
PROOF
<1> QED
  BY InvInit, InvNext, PTL DEF Spec

\* An account's folder has at most one active job: the advisory lock of
\* enqueue_sync_job makes of the search for a job and its creation one step.
THEOREM OneActiveCorrect == Spec => []OneActivePerScope
PROOF
<1>1. Inv => OneActivePerScope
  BY DEF Inv
<1> QED
  BY <1>1, SyncJobsInvariant, PTL

\* While a worker has not outlasted its lease, nobody takes its job: requests and
\* dispatchers reclaim only what has expired, and hold its row until they write.
THEOREM LeaseCorrect == Spec => []LeaseProtectsWorker
PROOF
<1>1. Inv => LeaseProtectsWorker
  BY DEF Inv, LeaseKept, LeaseProtectsWorker
<1> QED
  BY <1>1, SyncJobsInvariant, PTL

\* Only a worker under its lease completes a job.
LEMMA CompletesUnderLease ==
    ASSUME Inv, [Next]_vars, NEW j \in JobIds,
           jobs[j].status = "running", jobs'[j].status = "completed"
    PROVE  \E l \in Leases : Synced(l) /\ Holds(l) /\ j = runs[l].job
PROOF
<1>0. jobs \in [JobIds -> Job] /\ jobs' # jobs
  BY DEF Inv, Rows
<1>1. ASSUME NEW r \in Requests, EnqueueRead(r) \/ EnqueueWrite(r) PROVE FALSE
  <2>1. CASE EnqueueRead(r)
    BY <1>0, <2>1 DEF EnqueueRead
  <2>2. ASSUME NEW k \in JobIds, jobs[k].status = "none", jobs' = [jobs EXCEPT ![k] = NewRow(r)]
        PROVE  FALSE
    BY <1>0, <2>2
  <2>3. CASE Create(r)
    BY <2>2, <2>3 DEF Create, IsNext
  <2>4. CASE Replace(r)
    <3>1. PICK k \in JobIds :
            /\ jobs[k].status = "none"
            /\ jobs' = [jobs EXCEPT ![enq[r].job].status = "failed", ![k] = NewRow(r)]
      BY <2>4 DEF Replace, IsNext
    <3>2. jobs'[j] = [jobs EXCEPT ![enq[r].job].status = "failed"][j]
      BY <1>0, <3>1
    <3> QED
      BY <1>0, <3>2
  <2>5. CASE Requeue(r)
    BY <1>0, <2>5 DEF Requeue
  <2>6. CASE Merge(r)
    BY <1>0, <2>6 DEF Merge
  <2> QED
    BY <1>1, <2>1, <2>3, <2>4, <2>5, <2>6 DEF EnqueueWrite
<1>2. ASSUME NEW d \in Dispatchers, DispatchRead(d) \/ DispatchWrite(d) \/ DispatchAbort(d)
      PROVE  FALSE
  <2>1. CASE DispatchRead(d) \/ DispatchAbort(d)
    BY <1>0, <2>1 DEF DispatchRead, DispatchAbort
  <2>2. CASE DispatchWrite(d)
    <3>1. PICK G \in SUBSET disp[d] : Claim(d, G)
      BY <2>2 DEF DispatchWrite
    <3>2. /\ \A k \in JobIds \ disp[d] : jobs'[k] = jobs[k]
          /\ \A k \in disp[d] : jobs'[k].status \in {"running", "retry_waiting"}
      BY <3>1, ClaimFacts
    <3> QED
      BY <3>2
  <2> QED
    BY <1>2, <2>1, <2>2
<1>3. ASSUME NEW l \in Leases, RunStep(l)
      PROVE  Synced(l) /\ Holds(l) /\ j = runs[l].job
  <2>1. CASE Start(l)
    BY <1>0, <2>1 DEF Start
  <2>2. CASE Synced(l)
    BY <1>0, <2>2 DEF Synced
  <2>3. CASE Failed(l)
    BY <1>0, <2>3 DEF Failed
  <2> QED
    BY <1>3, <2>1, <2>2, <2>3 DEF RunStep
<1>4. ASSUME NEW k \in JobIds, Age(k) \/ BackoffElapses(k) PROVE FALSE
  <2>1. jobs' = [jobs EXCEPT ![k].age = @ + 1] \/ jobs' = [jobs EXCEPT ![k].backoff = FALSE]
    BY <1>4 DEF Age, BackoffElapses
  <2>2. ASSUME jobs' = [jobs EXCEPT ![k].age = @ + 1] PROVE jobs'[j].status = jobs[j].status
    BY <1>0, <2>2
  <2>3. CASE jobs' = [jobs EXCEPT ![k].backoff = FALSE]
    BY <1>0, <2>3
  <2> QED
    BY <2>1, <2>2, <2>3
<1>5. CASE NewWindow \/ Crash \/ UNCHANGED vars
  BY <1>0, <1>5 DEF NewWindow, Crash, vars
<1> QED
  BY <1>1, <1>2, <1>3, <1>4, <1>5 DEF Next

\* What a run completes covers every request that was merged into the job before it
\* ran: the snapshot of _run_sync_job is taken under the lease that completes.
THEOREM CompletionCorrect == Spec => CompletionCoversRequests
PROOF
<1> DEFINE Covers ==
      \A j \in JobIds :
          jobs[j].status = "running" /\ jobs'[j].status = "completed" =>
              \A r \in Requests :
                  enq[r].job = j /\ enq[r].pc = "done" /\ enq[r].before =>
                      LimitOf[r] <= jobs'[j].synced
<1>1. ASSUME Inv, [Next]_vars PROVE [Covers]_vars
  <2> SUFFICES ASSUME NEW j \in JobIds, jobs[j].status = "running",
                      jobs'[j].status = "completed", NEW q \in Requests, AskedOf(q, j)
               PROVE  LimitOf[q] <= jobs'[j].synced
    BY DEF AskedOf
  <2>1. PICK l \in Leases : Synced(l) /\ Holds(l) /\ j = runs[l].job
    BY <1>1, CompletesUnderLease
  <2>2. LimitOf[q] <= runs[l].limit
    BY <1>1, <2>1 DEF Synced, Inv, Snapshot
  <2>3. jobs \in [JobIds -> Job]
    BY <1>1 DEF Inv, Rows
  <2>4. jobs'[j].synced = runs[l].limit
    BY <2>1, <2>3 DEF Synced
  <2> QED
    BY <2>2, <2>4
<1> HIDE DEF Covers
<1>2. Spec => [][Covers]_vars
  BY <1>1, SyncJobsInvariant, PTL DEF Spec
<1> QED
  BY <1>2 DEF Covers, CompletionCoversRequests

-----------------------------------------------------------------------------
(* Sums of quota units. *)

\* Every set of numbers that is not empty has a least one.  Used for induction on a
\* number: the least counterexample.
LEMMA LeastNat ==
    ASSUME NEW T, T \subseteq Nat, T # {}
    PROVE  \E n \in T : \A m \in T : n <= m
PROOF
<1>1. PICK n \in T : \A m \in T : ~(<<m, n>> \in OpToRel(<, Nat))
  BY WFMin, NatLessThanWellFounded
<1>2. ASSUME NEW m \in T PROVE n <= m
  <2>1. n \in Nat /\ m \in Nat
    OBVIOUS
  <2>2. ~(m < n)
    BY <1>1, <2>1 DEF OpToRel
  <2> QED
    BY <2>1, <2>2
<1> QED
  BY <1>2

\* The element a sum takes first, and the others.
One(s) == CHOOSE x \in s : TRUE
Rest(s) == s \ {One(s)}

\* g has the sums of the subsets of A, as MapThenSumSet adds them.
SumsOn(g, u, A) ==
    \A s \in SUBSET A : g[s] = IF s = {} THEN 0 ELSE u[One(s)] + g[Rest(s)]

\* A sum goes on with one element less.
LEMMA RestIsSmaller ==
    ASSUME NEW s, IsFiniteSet(s), s # {}
    PROVE  /\ One(s) \in s /\ Rest(s) \subseteq s /\ IsFiniteSet(Rest(s))
           /\ Cardinality(Rest(s)) = Cardinality(s) - 1
           /\ Cardinality(s) \in Nat /\ Cardinality(Rest(s)) \in Nat
  BY FS_RemoveElement, FS_CardinalityType DEF One, Rest

\* The same as an equation of functions, the form the recursion has.
IsSums(g, u, A) == g = [s \in SUBSET A |-> IF s = {} THEN 0 ELSE u[One(s)] + g[Rest(s)]]

\* There is such a function: by induction on the number of elements.
LEMMA SumsExist ==
    ASSUME NEW A, IsFiniteSet(A), NEW u \in [A -> Nat]
    PROVE  \E g : IsSums(g, u, A)
PROOF
<1> DEFINE Good(n, g) ==
      g = [s \in SUBSET A |->
             IF Cardinality(s) <= n
             THEN IF s = {} THEN 0 ELSE u[One(s)] + g[Rest(s)]
             ELSE 0]
    Bad == {n \in Nat : ~ \E g : Good(n, g)}
<1>0. \A s \in SUBSET A : IsFiniteSet(s) /\ Cardinality(s) \in Nat /\ Cardinality(s) <= Cardinality(A)
  BY FS_Subset, FS_CardinalityType
<1>1. Bad = {}
  <2> SUFFICES ASSUME Bad # {} PROVE FALSE
    OBVIOUS
  <2>1. PICK n \in Bad : \A m \in Bad : n <= m
    BY LeastNat
  <2>2. n # 0
    <3>1. \A s \in SUBSET A : Cardinality(s) <= 0 <=> s = {}
      BY <1>0, FS_EmptySet
    <3> DEFINE g == [s \in SUBSET A |-> 0]
    <3>2. Good(0, g)
      BY <3>1
    <3> HIDE DEF Good, g
    <3>3. 0 \notin Bad
      BY <3>2
    <3> QED
      BY <3>3
  <2>3. PICK g : Good(n - 1, g)
    <3>1. n - 1 \in Nat /\ ~(n <= n - 1)
      BY <2>2
    <3>2. n - 1 \notin Bad
      BY <2>1, <3>1
    <3> HIDE DEF Good
    <3> QED
      BY <3>1, <3>2
  <2> DEFINE h == [s \in SUBSET A |->
                     IF Cardinality(s) <= n
                     THEN IF s = {} THEN 0 ELSE u[One(s)] + g[Rest(s)]
                     ELSE 0]
  <2>4. ASSUME NEW s \in SUBSET A, Cardinality(s) <= n, s # {}
        PROVE  h[Rest(s)] = g[Rest(s)]
    <3>1. /\ Rest(s) \in SUBSET A /\ Cardinality(Rest(s)) <= n - 1
          /\ Cardinality(Rest(s)) <= n
      BY <1>0, <2>1, <2>4, RestIsSmaller
    <3> HIDE DEF Bad
    <3> DEFINE t == Rest(s)
    <3>2. t \in SUBSET A /\ Cardinality(t) <= n - 1 /\ Cardinality(t) <= n
      BY <3>1
    <3> HIDE DEF t
    <3>3. g[t] = IF t = {} THEN 0 ELSE u[One(t)] + g[Rest(t)]
      BY <2>3, <3>2
    <3>4. h[t] = IF t = {} THEN 0 ELSE u[One(t)] + g[Rest(t)]
      BY <3>2
    <3>5. h[t] = g[t]
      BY <3>3, <3>4
    <3> QED
      BY <3>5 DEF t
  <2>5. h = [s \in SUBSET A |->
               IF Cardinality(s) <= n
               THEN IF s = {} THEN 0 ELSE u[One(s)] + h[Rest(s)]
               ELSE 0]
    BY <2>4
  <2> QED
    BY <2>1, <2>5
<1>2. Cardinality(A) \in Nat
  BY FS_CardinalityType
<1>3. PICK g : Good(Cardinality(A), g)
  BY <1>1, <1>2
<1>4. IsSums(g, u, A)
  BY <1>0, <1>3 DEF IsSums
<1> QED
  BY <1>4

\* Two such functions agree where both are defined.
LEMMA SumsAgree ==
    ASSUME NEW g, NEW h, NEW A, NEW B, NEW u, SumsOn(g, u, A), SumsOn(h, u, B),
           NEW T, T \subseteq A, T \subseteq B, IsFiniteSet(T)
    PROVE  g[T] = h[T]
PROOF
<1> DEFINE Differ == {s \in SUBSET T : g[s] # h[s]}
    Bad == {Cardinality(s) : s \in Differ}
<1>0. \A s \in SUBSET T : IsFiniteSet(s) /\ Cardinality(s) \in Nat
  BY FS_Subset, FS_CardinalityType
<1> SUFFICES ASSUME Differ # {} PROVE FALSE
  OBVIOUS
<1>1. Bad \subseteq Nat /\ Bad # {}
  BY <1>0
<1>2. PICK n \in Bad : \A m \in Bad : n <= m
  BY <1>1, LeastNat
<1>3. PICK s \in Differ : n = Cardinality(s)
  OBVIOUS
<1>4. s \in SUBSET A /\ s \in SUBSET B /\ IsFiniteSet(s) /\ n \in Nat
  BY <1>0, <1>3
<1>5. s # {}
  BY <1>3, <1>4 DEF SumsOn
<1>6. /\ Rest(s) \in SUBSET T /\ Cardinality(Rest(s)) = n - 1
  BY <1>3, <1>4, <1>5, RestIsSmaller
<1>7. Rest(s) \notin Differ
  BY <1>2, <1>4, <1>6
<1>8. g[s] = u[One(s)] + g[Rest(s)] /\ h[s] = u[One(s)] + h[Rest(s)]
  BY <1>4, <1>5 DEF SumsOn
<1> QED
  BY <1>6, <1>7, <1>8

\* A sum of numbers is a number.
LEMMA SumIsNat ==
    ASSUME NEW A, IsFiniteSet(A), NEW u \in [A -> Nat], NEW g, SumsOn(g, u, A),
           NEW T \in SUBSET A
    PROVE  g[T] \in Nat
PROOF
<1> DEFINE Bad == {n \in Nat : \E s \in SUBSET A : Cardinality(s) = n /\ g[s] \notin Nat}
<1>0. \A s \in SUBSET A : IsFiniteSet(s) /\ Cardinality(s) \in Nat
  BY FS_Subset, FS_CardinalityType
<1> SUFFICES ASSUME g[T] \notin Nat PROVE FALSE
  OBVIOUS
<1>1. Bad # {} /\ Bad \subseteq Nat
  BY <1>0
<1>2. PICK n \in Bad : \A m \in Bad : n <= m
  BY <1>1, LeastNat
<1>3. PICK s \in SUBSET A : Cardinality(s) = n /\ g[s] \notin Nat
  OBVIOUS
<1>4. s # {}
  BY <1>3 DEF SumsOn
<1>5. /\ One(s) \in A /\ Rest(s) \in SUBSET A /\ Cardinality(Rest(s)) = n - 1
      /\ n - 1 \in Nat /\ ~(n <= n - 1)
  BY <1>0, <1>3, <1>4, RestIsSmaller
<1>6. g[Rest(s)] \in Nat
  BY <1>2, <1>5
<1>7. g[s] = u[One(s)] + g[Rest(s)] /\ u[One(s)] \in Nat
  BY <1>4, <1>5 DEF SumsOn
<1> QED
  BY <1>3, <1>6, <1>7

\* Whatever element the sum takes first, one more element adds its number.
LEMMA SumAdds ==
    ASSUME NEW A, IsFiniteSet(A), NEW u \in [A -> Nat], NEW g, SumsOn(g, u, A),
           NEW T \in SUBSET A, NEW x \in A \ T
    PROVE  g[T \cup {x}] = g[T] + u[x]
PROOF
<1> DEFINE Wrong(s, y) == g[s \cup {y}] # g[s] + u[y]
    Bad == {n \in Nat : \E s \in SUBSET A : Cardinality(s) = n /\ \E y \in A \ s : Wrong(s, y)}
<1>0. \A s \in SUBSET A : IsFiniteSet(s) /\ Cardinality(s) \in Nat /\ g[s] \in Nat
  BY FS_Subset, FS_CardinalityType, SumIsNat
<1> SUFFICES ASSUME Wrong(T, x) PROVE FALSE
  OBVIOUS
<1> HIDE DEF Wrong
<1>1. Bad # {} /\ Bad \subseteq Nat
  BY <1>0
<1>2. PICK n \in Bad : \A m \in Bad : n <= m
  BY <1>1, LeastNat
<1>3. PICK s \in SUBSET A, y \in A : y \notin s /\ Cardinality(s) = n /\ Wrong(s, y)
  OBVIOUS
<1> DEFINE t == s \cup {y}
<1>4. PICK z \in t : z = One(t) /\ Rest(t) = t \ {z} /\ t \in SUBSET A /\ t # {}
  <2>1. t \in SUBSET A /\ IsFiniteSet(t) /\ t # {}
    BY <1>0
  <2> HIDE DEF t
  <2>2. One(t) \in t
    BY <2>1, RestIsSmaller
  <2> QED
    BY <2>1, <2>2 DEF Rest
<1>5. g[t] = u[z] + g[t \ {z}]
  BY <1>4 DEF SumsOn
<1>6. z # y
  <2> SUFFICES ASSUME z = y PROVE FALSE
    OBVIOUS
  <2>1. t \ {z} = s /\ g[s] \in Nat /\ u[y] \in Nat
    BY <1>0, <1>3
  <2> HIDE DEF t
  <2>2. g[t] = g[s] + u[y]
    BY <1>5, <2>1
  <2> QED
    BY <1>3, <2>2 DEF Wrong, t
<1> DEFINE r == s \ {z}
<1>7. /\ z \in s /\ r \in SUBSET A /\ y \in A \ r /\ z \in A \ r
      /\ t \ {z} = r \cup {y} /\ s = r \cup {z}
  BY <1>3, <1>6
<1>8. Cardinality(r) = n - 1 /\ n - 1 \in Nat /\ ~(n <= n - 1)
  <2>1. Cardinality(r) = n - 1 /\ n \in Nat /\ n - 1 \in Int
    BY <1>0, <1>3, <1>7, FS_RemoveElement
  <2>2. Cardinality(r) \in Nat
    BY <1>0, <1>7
  <2> QED
    BY <2>1, <2>2
<1>9. g[r] \in Nat /\ u[y] \in Nat /\ u[z] \in Nat
  BY <1>0, <1>7
<1> HIDE DEF t, r
<1>10. ~Wrong(r, y) /\ ~Wrong(r, z)
  BY <1>2, <1>7, <1>8
<1>11. g[r \cup {y}] = g[r] + u[y] /\ g[s] = g[r] + u[z]
  BY <1>7, <1>10 DEF Wrong
<1>12. g[t] = u[z] + (g[r] + u[y])
  BY <1>5, <1>7, <1>11
<1>13. g[t] = g[s] + u[y]
  BY <1>9, <1>11, <1>12
<1> QED
  BY <1>3, <1>13 DEF Wrong, t

\* The units of a set of jobs are such a sum.
LEMMA UnitsOfSums ==
    ASSUME NEW u \in [JobIds -> Nat], \A j \in JobIds : Units(j) = u[j],
           NEW T \in SUBSET JobIds, IsFiniteSet(T)
    PROVE  \E g : SumsOn(g, u, T) /\ UnitsOf(T) = g[T]
PROOF
<1> DEFINE F(f) == f = [s \in SUBSET T |->
                          IF s = {} THEN 0
                          ELSE Units(CHOOSE x \in s : TRUE) + f[s \ {CHOOSE x \in s : TRUE}]]
           g == CHOOSE f : F(f)
           v == [j \in T |-> u[j]]
<1>1. \A s \in SUBSET T : s # {} => One(s) \in T
  BY DEF One
<1>2. v \in [T -> Nat] /\ \A j \in T : v[j] = Units(j)
  OBVIOUS
<1> HIDE DEF v
<1>3. PICK h : IsSums(h, v, T)
  BY <1>2, SumsExist
<1>4. F(h)
  BY <1>1, <1>2, <1>3 DEF IsSums, One, Rest
<1>5. F(g)
  BY <1>4
<1>6. UnitsOf(T) = g[T]
  BY DEF UnitsOf, MapThenSumSet, MapThenFoldSet
<1> HIDE DEF g
<1>7. SumsOn(g, u, T)
  BY <1>1, <1>5 DEF SumsOn, One, Rest
<1> QED
  BY <1>6, <1>7

\* What the units of a set of jobs are, one job after the other.
LEMMA UnitsAdd ==
    ASSUME jobs \in [JobIds -> Job]
    PROVE  /\ UnitsOf({}) = 0
           /\ \A T \in SUBSET JobIds : UnitsOf(T) \in Nat
           /\ \A T \in SUBSET JobIds : \A j \in JobIds \ T :
                 UnitsOf(T \cup {j}) = UnitsOf(T) + Units(j)
PROOF
<1> DEFINE u == [j \in JobIds |-> Units(j)]
<1>1. u \in [JobIds -> Nat] /\ \A j \in JobIds : Units(j) = u[j]
  BY DEF Units, Job
<1> HIDE DEF u
<1>2. IsFiniteSet(JobIds) /\ \A T \in SUBSET JobIds : IsFiniteSet(T)
  BY SyncAssumption, FS_Subset
<1>3. PICK g : SumsOn(g, u, JobIds)
  <2>1. PICK g : IsSums(g, u, JobIds)
    BY <1>1, <1>2, SumsExist
  <2> QED
    BY <2>1 DEF IsSums, SumsOn
<1>4. \A T \in SUBSET JobIds : UnitsOf(T) = g[T]
  BY <1>1, <1>2, <1>3, UnitsOfSums, SumsAgree
<1>5. \A T \in SUBSET JobIds : g[T] \in Nat
  BY <1>1, <1>2, <1>3, SumIsNat
<1>6. ASSUME NEW T \in SUBSET JobIds, NEW j \in JobIds \ T PROVE g[T \cup {j}] = g[T] + u[j]
  BY <1>1, <1>2, <1>3, SumAdds
<1>7. g[{}] = 0
  BY <1>3 DEF SumsOn
<1>8. ASSUME NEW T \in SUBSET JobIds, NEW j \in JobIds \ T
      PROVE  UnitsOf(T \cup {j}) = UnitsOf(T) + Units(j)
  <2>1. T \cup {j} \in SUBSET JobIds
    OBVIOUS
  <2> QED
    BY <1>1, <1>4, <1>6, <2>1
<1> QED
  BY <1>4, <1>5, <1>7, <1>8

-----------------------------------------------------------------------------
(* The quota. *)

\* The order of the candidates is total.
LEMMA BeforeOrders ==
    ASSUME NEW i \in JobIds, NEW j \in JobIds, NEW k \in JobIds
    PROVE  /\ i = j \/ Before(i, j) \/ Before(j, i)
           /\ ~(Before(i, j) /\ Before(j, i))
           /\ Before(i, j) /\ Before(j, k) => Before(i, k)
PROOF
<1>1. i \in Nat /\ j \in Nat /\ k \in Nat
  BY SyncAssumption
<1>2. Rank(i) \in 1..3 /\ Rank(j) \in 1..3 /\ Rank(k) \in 1..3
  BY DEF Rank
<1> QED
  BY <1>1, <1>2 DEF Before

\* One of them is the last.
LEMMA LastOf ==
    ASSUME NEW T \in SUBSET JobIds, T # {}
    PROVE  \E m \in T : \A k \in T \ {m} : Before(k, m)
PROOF
<1> DEFINE HasLast(s) == \E m \in s : \A k \in s \ {m} : Before(k, m)
           Bad == {n \in Nat : \E s \in SUBSET T : s # {} /\ Cardinality(s) = n /\ ~HasLast(s)}
<1>0. \A s \in SUBSET T : IsFiniteSet(s) /\ Cardinality(s) \in Nat
  BY SyncAssumption, FS_Subset, FS_CardinalityType
<1> SUFFICES ASSUME ~HasLast(T) PROVE FALSE
  OBVIOUS
<1>1. Bad # {} /\ Bad \subseteq Nat
  <2> HIDE DEF HasLast
  <2> QED
    BY <1>0
<1>2. PICK n \in Bad : \A m \in Bad : n <= m
  BY <1>1, LeastNat
<1>3. PICK s \in SUBSET T : s # {} /\ Cardinality(s) = n /\ ~HasLast(s)
  OBVIOUS
<1>4. PICK x \in s : TRUE
  BY <1>3
<1> DEFINE r == s \ {x}
<1>5. r \in SUBSET T /\ Cardinality(r) \in Nat /\ ~(n <= Cardinality(r))
  BY <1>0, <1>3, FS_RemoveElement
<1>6. r # {}
  BY <1>3
<1>7. HasLast(r)
  <2> HIDE DEF HasLast, r
  <2> QED
    BY <1>2, <1>5, <1>6
<1>8. PICK m \in r : \A k \in r \ {m} : Before(k, m)
  BY <1>7
<1>9. m \in JobIds /\ x \in JobIds /\ \A k \in s : k \in JobIds
  OBVIOUS
<1>10. CASE Before(x, m)
  BY <1>3, <1>8, <1>10
<1>11. CASE Before(m, x)
  <2>1. ASSUME NEW k \in s \ {x} PROVE Before(k, x)
    BY <1>8, <1>9, <1>11, BeforeOrders
  <2> QED
    BY <1>3, <2>1
<1>12. m # x
  OBVIOUS
<1> QED
  BY <1>9, <1>10, <1>11, <1>12, BeforeOrders

\* Jobs that fit into a window one after the other fit into it together: by induction
\* on the first so many of them.
LEMMA FitTogether ==
    ASSUME jobs \in [JobIds -> Job],
           NEW H \in SUBSET JobIds, NEW used \in Nat, NEW limit \in Nat, used <= limit,
           \A j \in H : \/ Units(j) = 0
                       \/ used + UnitsOf({k \in H : Before(k, j)}) + Units(j) <= limit
    PROVE  used + UnitsOf(H) <= limit
PROOF
<1> DEFINE First(s) == \A j \in s, k \in H : Before(k, j) => k \in s
           Over(s) == ~(used + UnitsOf(s) <= limit)
           Bad == {n \in Nat : \E s \in SUBSET H : Cardinality(s) = n /\ First(s) /\ Over(s)}
<1>0. \A s \in SUBSET H : IsFiniteSet(s) /\ Cardinality(s) \in Nat
  BY SyncAssumption, FS_Subset, FS_CardinalityType
<1> SUFFICES ASSUME Over(H) PROVE FALSE
  OBVIOUS
<1>1. Bad # {} /\ Bad \subseteq Nat
  <2>1. First(H)
    OBVIOUS
  <2> HIDE DEF First, Over
  <2> QED
    BY <1>0, <2>1
<1>2. PICK n \in Bad : \A m \in Bad : n <= m
  BY <1>1, LeastNat
<1>3. PICK s \in SUBSET H : Cardinality(s) = n /\ First(s) /\ Over(s)
  OBVIOUS
<1>4. s # {}
  BY <1>3, UnitsAdd
<1>5. PICK m \in s : \A k \in s \ {m} : Before(k, m)
  BY <1>4, LastOf
<1>6. PICK r \in SUBSET H : r = s \ {m}
  OBVIOUS
<1>7. r \in SUBSET JobIds /\ s = r \cup {m} /\ m \in JobIds \ r /\ First(r)
  <2>1. ASSUME NEW j \in r, NEW k \in H, Before(k, j) PROVE k \in r
    <3>1. k \in s /\ Before(j, m)
      BY <1>3, <1>5, <1>6, <2>1
    <3>2. k # m
      BY <1>6, <2>1, <3>1, BeforeOrders
    <3> QED
      BY <1>6, <3>1, <3>2
  <2> QED
    BY <1>6, <2>1
<1>8. Cardinality(r) \in Nat /\ ~(n <= Cardinality(r))
  BY <1>0, <1>3, <1>6, FS_RemoveElement
<1>9. ~Over(r)
  <2> HIDE DEF First, Over
  <2> QED
    BY <1>2, <1>7, <1>8
<1>10. UnitsOf(s) = UnitsOf(r) + Units(m) /\ UnitsOf(r) \in Nat /\ Units(m) \in Nat
  BY <1>7, UnitsAdd DEF Units, Job
<1>11. {k \in H : Before(k, m)} = r
  <2>1. ASSUME NEW k \in H, Before(k, m) PROVE k \in r
    BY <1>3, <1>6, <2>1, BeforeOrders
  <2> QED
    BY <1>5, <1>6, <2>1
<1>12. Units(m) = 0 \/ used + UnitsOf(r) + Units(m) <= limit
  BY <1>11
<1> QED
  BY <1>3, <1>9, <1>10, <1>12

\* What one dispatch reserves fits into the windows.
LEMMA GrantFits ==
    ASSUME Rows, WithinQuota, NEW d \in Dispatchers, NEW G \in SUBSET disp[d], Granted(d, G),
           accountUnits \in [Accounts -> Nat], shardUnits \in [Shards -> Nat]
    PROVE  /\ \A a \in Accounts :
                 accountUnits[a] + UnitsOf({j \in G : AccountOfJob(j) = a}) <= ACCOUNT_UNITS
           /\ \A s \in Shards :
                 shardUnits[s] + UnitsOf({j \in G : ShardOf[AccountOfJob(j)] = s}) <= SHARD_UNITS
PROOF
<1>1. G \subseteq JobIds /\ jobs \in [JobIds -> Job]
  BY DEF Rows
<1>2. \A j \in G : Fits(j, {i \in G : Before(i, j)})
  BY DEF Granted
<1>3. ASSUME NEW a \in Accounts
      PROVE  accountUnits[a] + UnitsOf({j \in G : AccountOfJob(j) = a}) <= ACCOUNT_UNITS
  <2> DEFINE H == {j \in G : AccountOfJob(j) = a}
  <2>1. ASSUME NEW j \in H
        PROVE  \/ Units(j) = 0
               \/ accountUnits[a] + UnitsOf({k \in H : Before(k, j)}) + Units(j) <= ACCOUNT_UNITS
    <3>1. {k \in H : Before(k, j)} = {k \in {i \in G : Before(i, j)} : AccountOfJob(k) = a}
      OBVIOUS
    <3>2. j \in G /\ AccountOfJob(j) = a
      OBVIOUS
    <3> HIDE DEF H
    <3> QED
      BY <1>2, <3>1, <3>2 DEF Fits
  <2>2. H \in SUBSET JobIds
    BY <1>1
  <2>3. accountUnits[a] \in Nat /\ accountUnits[a] <= ACCOUNT_UNITS /\ ACCOUNT_UNITS \in Nat
    BY SyncLimits DEF WithinQuota
  <2> HIDE DEF H
  <2>4. accountUnits[a] + UnitsOf(H) <= ACCOUNT_UNITS
    BY <1>1, <2>1, <2>2, <2>3, FitTogether
  <2> QED
    BY <2>4 DEF H
<1>4. ASSUME NEW s \in Shards
      PROVE  shardUnits[s] + UnitsOf({j \in G : ShardOf[AccountOfJob(j)] = s}) <= SHARD_UNITS
  <2> DEFINE H == {j \in G : ShardOf[AccountOfJob(j)] = s}
  <2>1. ASSUME NEW j \in H
        PROVE  \/ Units(j) = 0
               \/ shardUnits[s] + UnitsOf({k \in H : Before(k, j)}) + Units(j) <= SHARD_UNITS
    <3>1. {k \in H : Before(k, j)} = {k \in {i \in G : Before(i, j)} : ShardOf[AccountOfJob(k)] = s}
      OBVIOUS
    <3>2. j \in G /\ ShardOf[AccountOfJob(j)] = s
      OBVIOUS
    <3> HIDE DEF H
    <3> QED
      BY <1>2, <3>1, <3>2 DEF Fits
  <2>2. H \in SUBSET JobIds
    BY <1>1
  <2>3. shardUnits[s] \in Nat /\ shardUnits[s] <= SHARD_UNITS /\ SHARD_UNITS \in Nat
    BY SyncLimits DEF WithinQuota
  <2> HIDE DEF H
  <2>4. shardUnits[s] + UnitsOf(H) <= SHARD_UNITS
    BY <1>1, <2>1, <2>2, <2>3, FitTogether
  <2> QED
    BY <2>4 DEF H
<1> QED
  BY <1>3, <1>4

\* The counters of the windows, and the types that were left out of Rows.
Counters ==
    /\ accountUnits \in [Accounts -> Nat] /\ shardUnits \in [Shards -> Nat]
    /\ mishaps \in 0..MaxMishaps
    /\ WithinQuota

\* Every step keeps them so.
LEMMA CountersNext ==
    ASSUME Inv, Counters, [Next]_vars
    PROVE  Counters'
PROOF
<1>1. CASE UNCHANGED <<quotaVars, mishaps>>
  BY <1>1 DEF Counters, WithinQuota, quotaVars
<1>2. ASSUME mishaps < MaxMishaps, mishaps' = mishaps + 1, UNCHANGED quotaVars
      PROVE  Counters'
  <2>1. mishaps' \in 0..MaxMishaps
    BY <1>2, SyncLimits DEF Counters
  <2> QED
    BY <1>2, <2>1 DEF Counters, WithinQuota, quotaVars
<1>3. CASE NewWindow
  <2>1. /\ accountUnits' = [a \in Accounts |-> 0] /\ shardUnits' = [s \in Shards |-> 0]
        /\ UNCHANGED mishaps
    BY <1>3 DEF NewWindow
  <2> QED
    BY <2>1, SyncLimits DEF Counters, WithinQuota
<1>4. ASSUME NEW d \in Dispatchers, DispatchWrite(d) PROVE Counters'
  <2>1. PICK G \in SUBSET disp[d] : Granted(d, G) /\ Claim(d, G)
    BY <1>4 DEF DispatchWrite
  <2>2. /\ accountUnits' = [a \in Accounts |->
                             accountUnits[a] + UnitsOf({j \in G : AccountOfJob(j) = a})]
        /\ shardUnits' = [s \in Shards |->
                             shardUnits[s] + UnitsOf({j \in G : ShardOf[AccountOfJob(j)] = s})]
        /\ UNCHANGED mishaps
    BY <2>1 DEF Claim
  <2>3. jobs \in [JobIds -> Job] /\ G \subseteq JobIds /\ Rows
    BY DEF Inv, Rows
  <2>4. \A H \in SUBSET G : UnitsOf(H) \in Nat
    BY <2>3, UnitsAdd
  <2>5. /\ \A a \in Accounts : UnitsOf({j \in G : AccountOfJob(j) = a}) \in Nat
        /\ \A s \in Shards : UnitsOf({j \in G : ShardOf[AccountOfJob(j)] = s}) \in Nat
    BY <2>4
  <2>6. WithinQuota'
    BY <2>1, <2>2, <2>3, GrantFits DEF Counters, WithinQuota
  <2>7. accountUnits' \in [Accounts -> Nat] /\ shardUnits' \in [Shards -> Nat]
    BY <2>2, <2>5 DEF Counters
  <2> QED
    BY <2>2, <2>6, <2>7 DEF Counters
<1>5. ASSUME NEW r \in Requests, EnqueueRead(r) \/ EnqueueWrite(r) PROVE Counters'
  BY <1>1, <1>5 DEF EnqueueRead, EnqueueWrite, Create, Replace, Requeue, Merge
<1>6. ASSUME NEW d \in Dispatchers, DispatchRead(d) \/ DispatchAbort(d) PROVE Counters'
  BY <1>1, <1>2, <1>6 DEF DispatchRead, DispatchAbort
<1>7. ASSUME NEW l \in Leases, RunStep(l) PROVE Counters'
  BY <1>1, <1>7 DEF RunStep, Start, Synced, Failed
<1>8. ASSUME NEW j \in JobIds, Age(j) \/ BackoffElapses(j) PROVE Counters'
  BY <1>1, <1>2, <1>8 DEF Age, BackoffElapses
<1>9. CASE Crash
  BY <1>2, <1>9 DEF Crash
<1>10. CASE UNCHANGED vars
  BY <1>1, <1>10 DEF vars
<1> QED
  BY <1>3, <1>4, <1>5, <1>6, <1>7, <1>8, <1>9, <1>10 DEF Next

\* No window is overbooked, also when jobs of one dispatch share it.
THEOREM CountersInvariant == Spec => []Counters
PROOF
<1>1. Init => Counters
  BY SyncLimits DEF Init, Counters, WithinQuota
<1> QED
  BY <1>1, CountersNext, SyncJobsInvariant, PTL DEF Spec

\* The windows are never overbooked: _reserve_gmail_quota sees what the jobs before
\* it in the same dispatch were granted, and the row locks keep other dispatches out.
THEOREM QuotaCorrect == Spec => []WithinQuota
PROOF
<1>1. Counters => WithinQuota
  BY DEF Counters
<1> QED
  BY <1>1, CountersInvariant, PTL

\* The variables have their types, and a running job has an owner.
THEOREM SyncJobsTypes == Spec => []TypeOK
PROOF
<1>1. Inv /\ Counters => TypeOK
  BY DEF Inv, Rows, Counters, TypeOK
<1> QED
  BY <1>1, SyncJobsInvariant, CountersInvariant, PTL
=============================================================================
