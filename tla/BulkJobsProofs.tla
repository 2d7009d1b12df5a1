--------------------------- MODULE BulkJobsProofs ---------------------------
(***************************************************************************)
(* What holds of BulkJobs for every set of jobs, items, accounts and       *)
(* threads, with any commits lost, any crashes and any number of workers   *)
(* whose threads outlive them.                                             *)
(***************************************************************************)
EXTENDS BulkJobs, FiniteSetTheorems, TLAPS

\* A row exists exactly as long as its job does.
RowsFollowJobs ==
    \A i \in Items : item[i] = "none" <=> ~Exists(JobOf[i])

\* A thread that has claimed holds an item of its account, of a job that was
\* created.
Busy == Working \cup {"settle", "finalize"}
BusyThreadHoldsItem ==
    \A t \in Threads : pc[t] \in Busy =>
        /\ held[t] \in Items
        /\ status[JobOf[held[t]]] # "absent"
        /\ AccountOf[JobOf[held[t]]] = Serves[t]

\* What the thread read at the claim is still the item's count, and no item
\* reaches the limit: the attempt that would is recorded as a failure.
AttemptsKnown ==
    /\ \A i \in Items \ shared : attempts[i] < ITEM_MAX_ATTEMPTS
    /\ \A t \in Threads : pc[t] \in Working /\ held[t] \notin shared =>
            tries[t] = attempts[held[t]] \/ item[held[t]] = "none"

\* A job that is worked on is not finalized.
WorkedOnIsOpen ==
    \A t \in Threads : pc[t] \in Working /\ Sound(JobOf[held[t]]) =>
        status[JobOf[held[t]]] \notin {"completed", "failed"}

\* Between its snapshot and its update a thread carries a verdict that is still
\* honest, and no other thread works on the job.
VerdictReady ==
    \A t \in Threads : pc[t] = "finalize" =>
        /\ note[t] \in {"completed", "failed"}
        /\ Sound(JobOf[held[t]]) =>
            /\ note[t] = "failed" => count[JobOf[held[t]]]["succeeded"] = 0
            /\ note[t] = "completed" => \/ count[JobOf[held[t]]]["failed"] = 0
                                        \/ count[JobOf[held[t]]]["succeeded"] > 0
NoWorkUnderVerdict ==
    \A t, u \in Threads :
        pc[t] = "finalize" /\ pc[u] \in Working /\ Sound(JobOf[held[t]])
            => JobOf[held[u]] # JobOf[held[t]]

IInv == /\ TypeOK
        /\ RowsFollowJobs
        /\ BusyThreadHoldsItem
        /\ ClaimIsExclusive
        /\ AttemptsKnown
        /\ CountersMatchItems
        /\ WorkedOnIsOpen
        /\ VerdictReady
        /\ NoWorkUnderVerdict
        /\ VerdictIsHonest

-----------------------------------------------------------------------------
(* Counting. *)

\* A set of items of a job is finite, so counters of it are numbers.
LEMMA ItemSetsFinite ==
    ASSUME NEW j \in Jobs, NEW M, M \subseteq ItemsOf(j)
    PROVE  IsFiniteSet(M) /\ Cardinality(M) \in Nat
<1>1. ItemsOf(j) \subseteq Items
  BY DEF ItemsOf
<1>2. IsFiniteSet(M)
  BY <1>1, IdsAssumption, FS_Subset
<1>3. QED
  BY <1>2, FS_CardinalityType

\* The sizes of disjoint sets add up.
LEMMA DisjointUnionSize ==
    ASSUME NEW S, NEW M, IsFiniteSet(S), IsFiniteSet(M), S \cap M = {}
    PROVE  Cardinality(S \cup M) = Cardinality(S) + Cardinality(M)
<1>1. Cardinality(S \cup M) = Cardinality(S) + Cardinality(M) - Cardinality(S \cap M)
  BY FS_Union
<1>2. Cardinality(S \cap M) = 0
  BY FS_EmptySet
<1>3. Cardinality(S) \in Nat /\ Cardinality(M) \in Nat
  BY FS_CardinalityType
<1>4. QED
  BY <1>1, <1>2, <1>3

\* What is written about a job is in its items and its counters.
Counted(j) == \A s \in Resolved : count[j][s] = Cardinality(In(j, s))

\* Items that move between open states leave a job's counters right.
LEMMA OpenMovesKeepCounters ==
    ASSUME NEW j \in Jobs, Counted(j), count'[j] = count[j],
           \A i \in ItemsOf(j) : item[i] \in Resolved \/ item'[i] \in Resolved
                                    => item'[i] = item[i]
    PROVE  Counted(j)'
<1>1. SUFFICES ASSUME NEW s \in Resolved
               PROVE  count'[j][s] = Cardinality(In(j, s)')
  BY DEF Counted
<1>2. In(j, s)' = In(j, s)
  BY DEF In, ItemsOf
<1>3. QED
  BY <1>2 DEF Counted

\* Resolving open items of a job moves each of its counters by as many.
LEMMA ResolveKeepsCounters ==
    ASSUME CountTypes, NEW j \in Jobs, Counted(j),
           NEW s \in Resolved, NEW M, M \subseteq ItemsOf(j),
           Exists(j) => \A i \in M : item[i] \in Open,
           Resolve(M, j, s)
    PROVE  Counted(j)'
<1>1. CASE ~Exists(j)
  BY <1>1, OpenMovesKeepCounters DEF Resolve, ItemsOf
<1>2. CASE Exists(j)
  <2>1. SUFFICES ASSUME NEW r \in Resolved
                 PROVE  count'[j][r] = Cardinality(In(j, r)')
    BY DEF Counted
  <2>2. /\ item' = [i \in Items |-> IF i \in M THEN s ELSE item[i]]
        /\ count' = [count EXCEPT ![j][s] = @ + Cardinality(M)]
    BY <1>2 DEF Resolve
  <2>3. count[j][r] = Cardinality(In(j, r))
    BY DEF Counted
  <2>4. CASE r = s
    <3>1. In(j, s)' = In(j, s) \cup M
      BY <2>2 DEF In, ItemsOf
    <3>2. In(j, s) \cap M = {}
      BY <1>2 DEF In, Resolved, Open
    <3>3. In(j, s) \subseteq ItemsOf(j)
      BY DEF In
    <3>4. Cardinality(In(j, s) \cup M) = Cardinality(In(j, s)) + Cardinality(M)
      BY <3>2, <3>3, ItemSetsFinite, DisjointUnionSize
    <3>5. count'[j][s] = count[j][s] + Cardinality(M)
      BY <2>2 DEF CountTypes
    <3>6. QED
      BY <2>3, <2>4, <3>1, <3>4, <3>5
  <2>5. CASE r # s
    <3>1. In(j, r)' = In(j, r)
      BY <1>2, <2>2, <2>5 DEF In, ItemsOf, Resolved, Open
    <3>2. count'[j][r] = count[j][r]
      BY <2>2, <2>5 DEF CountTypes
    <3>3. QED
      BY <2>3, <3>1, <3>2
  <2>6. QED
    BY <2>4, <2>5
<1>3. QED
  BY <1>1, <1>2

-----------------------------------------------------------------------------
(* Types. *)

\* What Release leaves in the thread's variables has its type.
LEMMA ReleaseTyped ==
    ASSUME ThreadTypes, NEW t \in Threads, NEW where \in PCs, Release(t, where)
    PROVE  ThreadTypes'
BY DEF ThreadTypes, Release

\* What recording a result leaves in the thread's variables has its type.
LEMMA RecordedTyped ==
    ASSUME ThreadTypes, NEW t \in Threads, Recorded(t)
    PROVE  ThreadTypes'
<1>1. CASE Release(t, "poll")
  BY <1>1, ReleaseTyped DEF PCs
<1>2. CASE ~Release(t, "poll")
  <2>1. /\ pc' = [pc EXCEPT ![t] = "settle"]
        /\ tries' = [tries EXCEPT ![t] = 0]
        /\ note' = [note EXCEPT ![t] = "none"]
        /\ UNCHANGED held
    BY <1>2 DEF Recorded
  <2>2. "settle" \in PCs
    BY DEF PCs
  <2>3. QED
    BY <2>1, <2>2 DEF ThreadTypes
<1>3. QED
  BY <1>1, <1>2

\* Resolving items gives states and counters of the right type.
LEMMA ResolveTyped ==
    ASSUME RowTypes, CountTypes, NEW j \in Jobs, NEW s \in Resolved,
           NEW M, M \subseteq ItemsOf(j), Resolve(M, j, s), UNCHANGED attempts
    PROVE  RowTypes' /\ CountTypes'
<1>1. Cardinality(M) \in Nat
  BY ItemSetsFinite
<1>2. RowTypes'
  BY DEF RowTypes, Resolve
<1>3. CountTypes'
  BY <1>1 DEF CountTypes, Resolve
<1>4. QED
  BY <1>2, <1>3

\* So does returning an item to pending.
LEMMA RequeueTyped ==
    ASSUME RowTypes, NEW i \in Items, NEW bump \in {0, 1}, Requeue(i, bump)
    PROVE  RowTypes'
BY DEF RowTypes, Requeue, Open

\* What an action leaves alone keeps its type.
LEMMA SameTyped ==
    ASSUME TypeOK
    PROVE  /\ UNCHANGED status => JobTypes'
           /\ UNCHANGED count => CountTypes'
           /\ UNCHANGED itemVars => RowTypes'
           /\ UNCHANGED workerVars => WorkerTypes'
           /\ UNCHANGED threadVars => ThreadTypes'
           /\ UNCHANGED history => HistoryTypes'
BY DEF TypeOK, JobTypes, CountTypes, RowTypes, WorkerTypes, ThreadTypes, HistoryTypes,
       itemVars, workerVars, threadVars, history

\* What users do keeps the types.
LEMMA UserTyped ==
    ASSUME TypeOK, UserStep
    PROVE  TypeOK'
<1>1. WorkerTypes' /\ ThreadTypes' /\ HistoryTypes'
  BY SameTyped DEF UserStep, CreateJob, RequestPause, RequestResume, RequestCancel,
       RetryFailed, DeleteJob
<1>2. JobTypes'
  BY DEF TypeOK, UserStep, CreateJob, RequestPause, RequestResume, RequestCancel,
       RetryFailed, DeleteJob, JobTypes, Status, Terminal, Unfinished
<1>3. ASSUME NEW j \in Jobs, CreateJob(j)
      PROVE  RowTypes' /\ CountTypes'
  BY <1>3 DEF TypeOK, CreateJob, RowTypes, CountTypes, Open
<1>4. ASSUME NEW j \in Jobs, RequestPause(j) \/ RequestResume(j)
      PROVE  RowTypes' /\ CountTypes'
  BY <1>4, SameTyped DEF RequestPause, RequestResume
<1>5. ASSUME NEW j \in Jobs, RequestCancel(j)
      PROVE  RowTypes' /\ CountTypes'
  BY <1>5, ResolveTyped DEF TypeOK, RequestCancel, In, Resolved
<1>6. ASSUME NEW j \in Jobs, RetryFailed(j)
      PROVE  RowTypes' /\ CountTypes'
  <2>1. RowTypes'
    BY <1>6 DEF TypeOK, RetryFailed, RowTypes, Open
  <2>2. Cardinality(In(j, "failed")) \in Nat
    BY ItemSetsFinite DEF In
  <2>3. CountTypes'
    BY <1>6, <2>2 DEF TypeOK, RetryFailed, CountTypes, Resolved
  <2>4. QED
    BY <2>1, <2>3
<1>7. ASSUME NEW j \in Jobs, DeleteJob(j)
      PROVE  RowTypes' /\ CountTypes'
  BY <1>7 DEF TypeOK, DeleteJob, RowTypes, CountTypes
<1>8. QED
  BY <1>1, <1>2, <1>3, <1>4, <1>5, <1>6, <1>7 DEF TypeOK, UserStep

\* So does what a thread records of its item.
LEMMA RecordTyped ==
    ASSUME TypeOK, BusyThreadHoldsItem, NEW t \in Threads, Record(t)
    PROVE  TypeOK'
<1>1. Recorded(t)
  BY DEF Record, MarkSucceeded, MarkSkipped, RequeueThrottled, FailJob, MarkFailed,
         RequeueTransient
<1>2. /\ held[t] \in Items /\ JobOf[held[t]] \in Jobs
      /\ {held[t]} \subseteq ItemsOf(JobOf[held[t]])
      /\ {held[t]} \cup In(JobOf[held[t]], "pending") \subseteq ItemsOf(JobOf[held[t]])
  BY <1>1, OwnerAssumption DEF Recorded, BusyThreadHoldsItem, Busy, Working, ItemsOf, In
<1>3. JobTypes' /\ WorkerTypes' /\ ThreadTypes' /\ HistoryTypes'
  BY <1>1, SameTyped, RecordedTyped DEF Recorded, TypeOK
<1>4. CASE MarkSucceeded(t) \/ MarkSkipped(t) \/ MarkFailed(t) \/ FailJob(t)
  <2>1. RowTypes' /\ CountTypes'
    BY <1>2, <1>4, ResolveTyped DEF TypeOK, MarkSucceeded, MarkSkipped, MarkFailed,
         FailJob, Resolved
  <2>2. QED
    BY <1>3, <2>1 DEF TypeOK
<1>5. CASE RequeueThrottled(t) \/ RequeueTransient(t)
  <2>1. RowTypes' /\ CountTypes'
    BY <1>2, <1>5, RequeueTyped, SameTyped DEF TypeOK, RequeueThrottled, RequeueTransient
  <2>2. QED
    BY <1>3, <2>1 DEF TypeOK
<1>6. QED
  BY <1>4, <1>5 DEF Record

\* Every action keeps the types; a claimed item and a verdict supply the values.
LEMMA TypeStep ==
    ASSUME TypeOK, BusyThreadHoldsItem, VerdictReady, [Next]_vars
    PROVE  TypeOK'
<1>1. CASE UserStep
  BY <1>1, UserTyped
<1>2. ASSUME NEW t \in Threads, Register(t)
      PROVE  TypeOK'
  <2>1. ThreadTypes' /\ WorkerTypes'
    BY <1>2 DEF TypeOK, Register, ThreadTypes, WorkerTypes, PCs
  <2>2. QED
    BY <1>2, <2>1, SameTyped DEF TypeOK, Register, jobVars
<1>3. ASSUME NEW t \in Threads, Claim(t)
      PROVE  TypeOK'
  <2>1. JobTypes'
    BY <1>3 DEF TypeOK, Claim, JobTypes, Status, Unfinished
  <2>2. PICK i \in Items : /\ item' = [item EXCEPT ![i] = "in_progress"]
                           /\ held' = [held EXCEPT ![t] = i]
                           /\ tries' = [tries EXCEPT ![t] = attempts[i]]
                           /\ overtaken' = overtaken \cup Judged({JobOf[i]})
    BY <1>3 DEF Claim, Claimable
  <2>3. RowTypes'
    BY <1>3, <2>2 DEF TypeOK, Claim, RowTypes, Open
  <2>4. attempts[i] \in Nat
    BY DEF TypeOK, RowTypes
  <2>5. ThreadTypes'
    BY <1>3, <2>2, <2>4 DEF TypeOK, Claim, ThreadTypes, PCs
  <2>6. HistoryTypes'
    BY <1>3, <2>2, OwnerAssumption DEF TypeOK, Claim, HistoryTypes, Judged
  <2>7. QED
    BY <1>3, <2>1, <2>3, <2>5, <2>6, SameTyped DEF TypeOK, Claim
<1>4. ASSUME NEW t \in Threads, Exit(t)
      PROVE  TypeOK'
  <2>1. ThreadTypes' /\ WorkerTypes'
    BY <1>4 DEF TypeOK, Exit, Gone, ThreadTypes, WorkerTypes, PCs
  <2>2. QED
    BY <1>4, <2>1, SameTyped DEF TypeOK, Exit, jobVars
<1>5. ASSUME NEW t \in Threads, CheckParent(t)
      PROVE  TypeOK'
  <2>1. ThreadTypes'
    BY <1>5 DEF TypeOK, CheckParent, ThreadTypes, PCs
  <2>2. QED
    BY <1>5, <2>1, SameTyped DEF TypeOK, CheckParent, jobVars
<1>6. ASSUME NEW t \in Threads, RequeuePaused(t)
      PROVE  TypeOK'
  <2>1. held[t] \in Items
    BY <1>6 DEF RequeuePaused, BusyThreadHoldsItem, Busy, Working
  <2>2. RowTypes' /\ ThreadTypes'
    BY <1>6, <2>1, RequeueTyped, ReleaseTyped DEF TypeOK, RequeuePaused, PCs
  <2>3. QED
    BY <1>6, <2>2, SameTyped DEF TypeOK, RequeuePaused, jobVars
<1>7. ASSUME NEW t \in Threads, SkipInactive(t)
      PROVE  TypeOK'
  <2>1. /\ held[t] \in Items /\ JobOf[held[t]] \in Jobs
        /\ {held[t]} \subseteq ItemsOf(JobOf[held[t]])
    BY <1>7, OwnerAssumption DEF SkipInactive, BusyThreadHoldsItem, Busy, Working, ItemsOf
  <2>2. RowTypes' /\ CountTypes'
    BY <1>7, <2>1, ResolveTyped DEF TypeOK, SkipInactive, Resolved
  <2>3. ThreadTypes'
    BY <1>7 DEF TypeOK, SkipInactive, ThreadTypes, PCs
  <2>4. QED
    BY <1>7, <2>2, <2>3, SameTyped DEF TypeOK, SkipInactive
<1>8. ASSUME NEW t \in Threads, NEW o \in Outcomes, Execute(t, o)
      PROVE  TypeOK'
  <2>1. ThreadTypes'
    BY <1>8 DEF TypeOK, Execute, ThreadTypes, PCs
  <2>2. QED
    BY <1>8, <2>1, SameTyped DEF TypeOK, Execute, jobVars
<1>9. ASSUME NEW t \in Threads, Record(t)
      PROVE  TypeOK'
  BY <1>9, RecordTyped
<1>10. ASSUME NEW t \in Threads, Settle(t)
      PROVE  TypeOK'
  <2>1. ThreadTypes'
    <3>1. CASE Release(t, "poll")
      BY <3>1, ReleaseTyped DEF TypeOK, PCs
    <3>2. CASE ~Release(t, "poll")
      <4>1. /\ pc' = [pc EXCEPT ![t] = "finalize"]
            /\ note' = [note EXCEPT ![t] = Verdict(JobOf[held[t]])]
            /\ UNCHANGED <<held, tries>>
        BY <1>10, <3>2 DEF Settle
      <4>2. Verdict(JobOf[held[t]]) \in {"completed", "failed"}
        BY DEF Verdict
      <4>3. QED
        BY <4>1, <4>2 DEF TypeOK, ThreadTypes, PCs
    <3>3. QED
      BY <3>1, <3>2
  <2>2. QED
    BY <1>10, <2>1, SameTyped DEF TypeOK, Settle, jobVars
<1>11. ASSUME NEW t \in Threads, Finalize(t)
      PROVE  TypeOK'
  <2>1. note[t] \in {"completed", "failed"}
    BY <1>11 DEF Finalize, VerdictReady
  <2>2. JobTypes'
    BY <1>11, <2>1 DEF TypeOK, Finalize, JobTypes, Status, Terminal
  <2>3. ThreadTypes'
    BY <1>11, ReleaseTyped DEF TypeOK, Finalize, PCs
  <2>4. QED
    BY <1>11, <2>2, <2>3, SameTyped DEF TypeOK, Finalize
<1>12. ASSUME NEW t \in Threads, LoseResult(t)
      PROVE  TypeOK'
  <2>1. ThreadTypes'
    BY <1>12, RecordedTyped, ReleaseTyped DEF TypeOK, LoseResult, PCs
  <2>2. UNCHANGED <<status, workerVars, history>>
    BY <1>12 DEF LoseResult, Recorded
  <2>3. QED
    BY <1>12, <2>1, <2>2, SameTyped DEF TypeOK, LoseResult
<1>13. ASSUME NEW t \in Threads, ThreadDies(t)
      PROVE  TypeOK'
  <2>1. ThreadTypes' /\ WorkerTypes'
    <3>1. ThreadTypes'
      BY <1>13, ReleaseTyped DEF TypeOK, ThreadDies, PCs
    <3>2. WorkerTypes'
      BY <1>13 DEF TypeOK, ThreadDies, Gone, WorkerTypes
    <3>3. QED
      BY <3>1, <3>2
  <2>2. QED
    BY <1>13, <2>1, SameTyped DEF TypeOK, ThreadDies, jobVars
<1>14. CASE Crash
  <2>1. ThreadTypes'
    BY <1>14 DEF TypeOK, Crash, ThreadTypes, PCs
  <2>2. WorkerTypes'
    BY <1>14, SwitchAssumption DEF TypeOK, Crash, WorkerTypes
  <2>3. QED
    BY <1>14, <2>1, <2>2, SameTyped DEF TypeOK, Crash, jobVars
<1>15. CASE Shutdown
  <2>1. WorkerTypes'
    BY <1>15, SwitchAssumption DEF TypeOK, Shutdown, WorkerTypes
  <2>2. QED
    BY <1>15, <2>1, SameTyped DEF TypeOK, Shutdown, jobVars
<1>16. CASE Boot
  <2>1. RowTypes'
    BY <1>16 DEF TypeOK, Boot, RowTypes, Open
  <2>2. WorkerTypes' /\ HistoryTypes'
    BY <1>16 DEF TypeOK, Boot, WorkerTypes, HistoryTypes
  <2>3. QED
    BY <1>16, <2>1, <2>2, SameTyped DEF TypeOK, Boot, jobVars
<1>17. CASE UNCHANGED vars
  BY <1>17, SameTyped DEF TypeOK, vars, itemVars, workerVars, threadVars, history
<1>18. QED
  BY <1>1, <1>2, <1>3, <1>4, <1>5, <1>6, <1>7, <1>8, <1>9, <1>10, <1>11, <1>12, <1>13,
       <1>14, <1>15, <1>16, <1>17
     DEF Next, Spawn, LateSpawn, ThreadStep, FaultStep

-----------------------------------------------------------------------------
(* Steps, by what they do to the rows. *)

\* A thread's item, and perhaps what is left of its job, is resolved.
Resolves(t) ==
    /\ pc[t] \in {"skip", "record"}
    /\ \E s \in Resolved : \E M \in {{held[t]}, {held[t]} \cup In(JobOf[held[t]], "pending")} :
            Resolve(M, JobOf[held[t]], s)
    /\ pc' = [pc EXCEPT ![t] = "settle"]
    /\ \A u \in Threads \ {t} : tries'[u] = tries[u] /\ note'[u] = note[u]
    /\ UNCHANGED <<status, attempts, held, history>>

\* A thread's item goes back to pending, its budget spent by one at most.
Requeues(t) ==
    /\ pc[t] \in {"requeue", "record"}
    /\ \E bump \in {0, 1} : /\ bump = 1 => tries[t] + 1 < ITEM_MAX_ATTEMPTS
                            /\ Requeue(held[t], bump)
    /\ \E where \in {"poll", "settle"} : /\ pc' = [pc EXCEPT ![t] = where]
                                         /\ where = "settle" => held' = held
    /\ \A u \in Threads \ {t} : /\ held'[u] = held[u]
                                /\ tries'[u] = tries[u] /\ note'[u] = note[u]
    /\ UNCHANGED <<status, count, history>>

\* The snapshot of finalize_job_if_drained finds nothing left of the job.
Judges(t) ==
    /\ pc[t] = "settle"
    /\ status[JobOf[held[t]]] \in Unfinished /\ Drained(JobOf[held[t]])
    /\ pc' = [pc EXCEPT ![t] = "finalize"]
    /\ note' = [note EXCEPT ![t] = Verdict(JobOf[held[t]])]
    /\ UNCHANGED <<jobVars, itemVars, held, tries, history>>

\* A boot puts back what is in progress.
Recovers ==
    /\ item' = [i \in Items |-> IF item[i] = "in_progress" THEN "pending" ELSE item[i]]
    /\ shared' = shared \cup {i \in Items : item[i] = "in_progress"
                                            /\ \E t \in Threads : pc[t] \in Working /\ held[t] = i}
    /\ UNCHANGED <<jobVars, attempts, threadVars, overtaken>>

\* Nothing is written: threads come and go, or go on with what they hold.
Moves ==
    /\ UNCHANGED <<jobVars, itemVars, history>>
    /\ \A u \in Threads :
        \/ pc'[u] \notin Busy
        \/ pc'[u] = pc[u] /\ held'[u] = held[u] /\ tries'[u] = tries[u] /\ note'[u] = note[u]
        \/ /\ pc[u] \in Working /\ pc'[u] \in Working \cup {"settle"}
           /\ held'[u] = held[u]
           /\ pc'[u] \in Working => tries'[u] = tries[u]

\* A recorded result other than a retry resolves the thread's item.
LEMMA RecordingResolves ==
    ASSUME TypeOK, NEW t \in Threads, Recorded(t), note[t] # "starved", UNCHANGED attempts,
           NEW s \in Resolved,
           \/ Resolve({held[t]}, JobOf[held[t]], s)
           \/ Resolve({held[t]} \cup In(JobOf[held[t]], "pending"), JobOf[held[t]], s)
    PROVE  Resolves(t)
<1>1. /\ pc[t] = "record"
      /\ pc' = [pc EXCEPT ![t] = "settle"]
      /\ tries' = [tries EXCEPT ![t] = 0]
      /\ note' = [note EXCEPT ![t] = "none"]
      /\ UNCHANGED <<status, held, history>>
  BY DEF Recorded
<1>2. \A u \in Threads \ {t} : tries'[u] = tries[u] /\ note'[u] = note[u]
  BY <1>1 DEF TypeOK, ThreadTypes
<1>3. \E r \in Resolved : \E M \in {{held[t]}, {held[t]} \cup In(JobOf[held[t]], "pending")} :
            Resolve(M, JobOf[held[t]], r)
  OBVIOUS
<1>4. QED
  BY <1>1, <1>2, <1>3 DEF Resolves

\* A recorded retry requeues it.
LEMMA RecordingRequeues ==
    ASSUME TypeOK, NEW t \in Threads, Recorded(t), UNCHANGED count, NEW bump \in {0, 1},
           bump = 1 => tries[t] + 1 < ITEM_MAX_ATTEMPTS,
           Requeue(held[t], bump)
    PROVE  Requeues(t)
<1>1. /\ pc[t] = "record"
      /\ UNCHANGED <<status, history>>
  BY DEF Recorded
<1>2. \E where \in {"poll", "settle"} : /\ pc' = [pc EXCEPT ![t] = where]
                                        /\ where = "settle" => held' = held
  BY DEF Recorded, Release
<1>3. \A u \in Threads \ {t} : held'[u] = held[u] /\ tries'[u] = tries[u] /\ note'[u] = note[u]
  BY DEF Recorded, Release, TypeOK, ThreadTypes
<1>4. QED
  BY <1>1, <1>2, <1>3 DEF Requeues

\* Steps that write nothing.
LEMMA MovingSteps ==
    ASSUME TypeOK, NEW t \in Threads,
           \/ Register(t) \/ Exit(t) \/ CheckParent(t) \/ (\E o \in Outcomes : Execute(t, o))
           \/ LoseResult(t) \/ ThreadDies(t) \/ (Settle(t) /\ Release(t, "poll"))
    PROVE  Moves
<1>1. UNCHANGED <<jobVars, itemVars, history>>
  BY DEF Register, Exit, CheckParent, Execute, LoseResult, Recorded, ThreadDies, Settle,
         jobVars
<1>2. ASSUME NEW u \in Threads \ {t}
      PROVE  pc'[u] = pc[u] /\ held'[u] = held[u] /\ tries'[u] = tries[u] /\ note'[u] = note[u]
  BY DEF Register, Exit, CheckParent, Execute, LoseResult, Recorded, ThreadDies, Release,
         TypeOK, ThreadTypes
<1>3. \/ pc'[t] \notin Busy
      \/ /\ pc[t] \in Working /\ pc'[t] \in Working \cup {"settle"}
         /\ held'[t] = held[t]
         /\ pc'[t] \in Working => tries'[t] = tries[t]
  <2>1. CASE Register(t) \/ Exit(t) \/ ThreadDies(t) \/ (Settle(t) /\ Release(t, "poll"))
    BY <2>1 DEF Register, Exit, ThreadDies, Release, Busy, Working, TypeOK, ThreadTypes
  <2>2. CASE CheckParent(t) \/ \E o \in Outcomes : Execute(t, o)
    BY <2>2 DEF CheckParent, Execute, Busy, Working, TypeOK, ThreadTypes
  <2>3. CASE LoseResult(t)
    BY <2>3 DEF LoseResult, Recorded, Release, Busy, Working, TypeOK, ThreadTypes
  <2>4. QED
    BY <2>1, <2>2, <2>3
<1>4. QED
  BY <1>1, <1>2, <1>3 DEF Moves

\* Every step does one of these things.
LEMMA StepCases ==
    ASSUME TypeOK, [Next]_vars
    PROVE  \/ \E j \in Jobs : \/ CreateJob(j) \/ RequestPause(j) \/ RequestResume(j)
                              \/ RequestCancel(j) \/ RetryFailed(j) \/ DeleteJob(j)
           \/ \E t \in Threads : \/ Claim(t) \/ Resolves(t) \/ Requeues(t) \/ Judges(t)
                                 \/ Finalize(t)
           \/ Recovers \/ Moves
<1>1. ASSUME NEW t \in Threads, SkipInactive(t)
      PROVE  Resolves(t)
  <2>1. /\ pc[t] = "skip"
        /\ pc' = [pc EXCEPT ![t] = "settle"]
        /\ tries' = [tries EXCEPT ![t] = 0]
        /\ UNCHANGED <<status, attempts, held, note, history>>
    BY <1>1 DEF SkipInactive
  <2>2. \A u \in Threads \ {t} : tries'[u] = tries[u] /\ note'[u] = note[u]
    BY <2>1 DEF TypeOK, ThreadTypes
  <2>3. Resolve({held[t]}, JobOf[held[t]], "skipped") /\ "skipped" \in Resolved
    BY <1>1 DEF SkipInactive, Resolved
  <2>4. QED
    BY <2>1, <2>2, <2>3 DEF Resolves
<1>2. ASSUME NEW t \in Threads, RequeuePaused(t)
      PROVE  Requeues(t)
  <2>1. /\ pc[t] = "requeue"
        /\ Requeue(held[t], 0)
        /\ Release(t, "poll")
        /\ UNCHANGED <<status, count, history>>
    BY <1>2 DEF RequeuePaused, jobVars
  <2>2. \A u \in Threads \ {t} : held'[u] = held[u] /\ tries'[u] = tries[u] /\ note'[u] = note[u]
    BY <2>1 DEF Release, TypeOK, ThreadTypes
  <2>3. pc' = [pc EXCEPT ![t] = "poll"]
    BY <2>1 DEF Release
  <2>4. QED
    BY <2>1, <2>2, <2>3 DEF Requeues
<1>3. ASSUME NEW t \in Threads, MarkSucceeded(t) \/ MarkSkipped(t) \/ MarkFailed(t) \/ FailJob(t)
      PROVE  Resolves(t)
  <2>1. Recorded(t) /\ note[t] # "starved" /\ UNCHANGED attempts
    BY <1>3 DEF MarkSucceeded, MarkSkipped, MarkFailed, FailJob
  <2>2. \E s \in Resolved :
           \/ Resolve({held[t]}, JobOf[held[t]], s)
           \/ Resolve({held[t]} \cup In(JobOf[held[t]], "pending"), JobOf[held[t]], s)
    BY <1>3 DEF MarkSucceeded, MarkSkipped, MarkFailed, FailJob, Resolved
  <2>3. QED
    BY <2>1, <2>2, RecordingResolves
<1>4. ASSUME NEW t \in Threads, RequeueThrottled(t) \/ RequeueTransient(t)
      PROVE  Requeues(t)
  <2>1. Recorded(t) /\ UNCHANGED count
    BY <1>4 DEF RequeueThrottled, RequeueTransient
  <2>2. tries[t] \in Nat /\ ITEM_MAX_ATTEMPTS \in Nat
    BY AttemptsAssumption DEF TypeOK, ThreadTypes
  <2>3. \E bump \in {0, 1} : /\ bump = 1 => tries[t] + 1 < ITEM_MAX_ATTEMPTS
                             /\ Requeue(held[t], bump)
    BY <1>4, <2>2 DEF RequeueThrottled, RequeueTransient, GivesUp
  <2>4. QED
    BY <2>1, <2>3, RecordingRequeues
<1>5. ASSUME NEW t \in Threads, Settle(t)
      PROVE  Judges(t) \/ Moves
  <2>1. CASE Release(t, "poll")
    BY <1>5, <2>1, MovingSteps
  <2>2. CASE ~Release(t, "poll")
    BY <1>5, <2>2 DEF Settle, Judges, jobVars, itemVars
  <2>3. QED
    BY <2>1, <2>2
<1>6. CASE Crash \/ Shutdown \/ UNCHANGED vars
  <2>1. UNCHANGED <<jobVars, itemVars, history>>
    BY <1>6 DEF Crash, Shutdown, vars, jobVars, itemVars, history
  <2>2. ASSUME NEW u \in Threads
        PROVE  \/ pc'[u] \notin Busy
               \/ /\ pc'[u] = pc[u] /\ held'[u] = held[u]
                  /\ tries'[u] = tries[u] /\ note'[u] = note[u]
    BY <1>6 DEF Crash, Shutdown, vars, threadVars, Busy, Working
  <2>3. QED
    BY <2>1, <2>2 DEF Moves
<1>7. CASE Boot
  <2>1. CASE UNCHANGED <<item, shared>>
    BY <1>7, <2>1 DEF Boot, Moves, threadVars, itemVars, history
  <2>2. CASE ~UNCHANGED <<item, shared>>
    BY <1>7, <2>2 DEF Boot, Recovers
  <2>3. QED
    BY <2>1, <2>2
<1>8. QED
  BY <1>1, <1>2, <1>3, <1>4, <1>5, <1>6, <1>7, MovingSteps
     DEF Next, UserStep, ThreadStep, Record, FaultStep, Spawn, LateSpawn

\* What users do leaves the threads as they are.
LEMMA UsersApart ==
    ASSUME NEW j \in Jobs,
           \/ CreateJob(j) \/ RequestPause(j) \/ RequestResume(j)
           \/ RequestCancel(j) \/ RetryFailed(j) \/ DeleteJob(j)
    PROVE  UNCHANGED <<pc, held, tries, note, shared, overtaken>>
BY DEF CreateJob, RequestPause, RequestResume, RequestCancel, RetryFailed, DeleteJob,
       threadVars, history

\* The history only grows: a job that is sound was sound.
LEMMA HistoryGrows ==
    ASSUME TypeOK, [Next]_vars
    PROVE  /\ shared \subseteq shared' /\ overtaken \subseteq overtaken'
           /\ \A j \in Jobs : Unshared(j)' => Unshared(j)
           /\ \A j \in Jobs : Sound(j)' => Sound(j)
<1>1. shared \subseteq shared' /\ overtaken \subseteq overtaken'
  BY StepCases, UsersApart DEF Claim, Resolves, Requeues, Judges, Finalize, Recovers,
     Moves, history
<1>2. ASSUME NEW j \in Jobs PROVE Unshared(j)' => Unshared(j)
  BY <1>1 DEF Unshared
<1>3. ASSUME NEW j \in Jobs PROVE Sound(j)' => Sound(j)
  BY <1>1, <1>2 DEF Sound
<1>4. QED
  BY <1>1, <1>2, <1>3

-----------------------------------------------------------------------------
(* The invariant is inductive: one lemma per conjunct, one step per kind of step. *)

\* A row is created and deleted with its job.
LEMMA RowsStep ==
    ASSUME TypeOK, RowsFollowJobs, BusyThreadHoldsItem, VerdictReady, [Next]_vars
    PROVE  RowsFollowJobs'
<1>1. SUFFICES ASSUME NEW i \in Items
               PROVE  item'[i] = "none" <=> ~Exists(JobOf[i])'
  BY DEF RowsFollowJobs
<1>2. JobOf[i] \in Jobs
  BY OwnerAssumption
<1>3. ASSUME NEW j \in Jobs, \/ CreateJob(j) \/ RequestPause(j) \/ RequestResume(j)
                             \/ RetryFailed(j) \/ DeleteJob(j)
      PROVE  item'[i] = "none" <=> ~Exists(JobOf[i])'
  BY <1>2, <1>3 DEF CreateJob, RequestPause, RequestResume, RetryFailed, DeleteJob, TypeOK,
     RowTypes, JobTypes, Exists, RowsFollowJobs, In, ItemsOf, Terminal, itemVars
<1>4. ASSUME NEW j \in Jobs, RequestCancel(j)
      PROVE  item'[i] = "none" <=> ~Exists(JobOf[i])'
  BY <1>2, <1>4 DEF RequestCancel, Resolve, TypeOK, RowTypes, JobTypes, Exists,
     RowsFollowJobs, In, ItemsOf, Unfinished
<1>5. ASSUME NEW t \in Threads, Claim(t)
      PROVE  item'[i] = "none" <=> ~Exists(JobOf[i])'
  <2>1. PICK k \in Claimable(Serves[t]) : item' = [item EXCEPT ![k] = "in_progress"]
    BY <1>5 DEF Claim
  <2>2. \A j \in Jobs : Exists(j)' <=> Exists(j)
    BY <1>5 DEF Claim, Exists, TypeOK, JobTypes
  <2>3. item[k] = "pending" /\ k \in Items
    BY <2>1 DEF Claimable
  <2>4. item'[i] = "none" <=> item[i] = "none"
    BY <2>1, <2>3 DEF TypeOK, RowTypes
  <2>5. QED
    BY <1>2, <2>2, <2>4 DEF RowsFollowJobs
<1>6. ASSUME NEW t \in Threads, Resolves(t) \/ Requeues(t)
      PROVE  item'[i] = "none" <=> ~Exists(JobOf[i])'
  <2>1. held[t] \in Items /\ JobOf[held[t]] \in Jobs
    BY <1>6, OwnerAssumption DEF Resolves, Requeues, BusyThreadHoldsItem, Busy, Working
  <2>2. Exists(JobOf[i])' <=> Exists(JobOf[i])
    BY <1>6 DEF Resolves, Requeues, Exists
  <2>3. item'[i] = "none" <=> item[i] = "none"
    <3>1. CASE Resolves(t)
      <4>1. PICK s \in Resolved, M \in {{held[t]}, {held[t]} \cup In(JobOf[held[t]], "pending")} :
                Resolve(M, JobOf[held[t]], s)
        BY <3>1 DEF Resolves
      <4>2. \A k \in M : k \in Items /\ JobOf[k] = JobOf[held[t]]
        BY <2>1, <4>1 DEF In, ItemsOf
      <4>3. QED
        BY <4>1, <4>2 DEF Resolve, RowsFollowJobs, Resolved
    <3>2. CASE Requeues(t)
      BY <2>1, <3>2 DEF Requeues, Requeue, RowsFollowJobs, TypeOK, RowTypes
    <3>3. QED
      BY <1>6, <3>1, <3>2
  <2>4. QED
    BY <2>2, <2>3 DEF RowsFollowJobs
<1>7. ASSUME NEW t \in Threads, Finalize(t)
      PROVE  item'[i] = "none" <=> ~Exists(JobOf[i])'
  <2>1. note[t] \in {"completed", "failed"}
    BY <1>7 DEF Finalize, VerdictReady
  <2>2. QED
    BY <1>2, <1>7, <2>1 DEF Finalize, Exists, Unfinished, RowsFollowJobs, TypeOK, JobTypes,
       itemVars
<1>8. ASSUME Moves \/ Recovers \/ \E t \in Threads : Judges(t)
      PROVE  item'[i] = "none" <=> ~Exists(JobOf[i])'
  BY <1>8 DEF Moves, Recovers, Judges, Exists, RowsFollowJobs, jobVars, itemVars
<1>9. QED
  BY <1>3, <1>4, <1>5, <1>6, <1>7, <1>8, StepCases

\* A thread takes an item at the claim only, and no job becomes absent again.
LEMMA BusyStep ==
    ASSUME TypeOK, BusyThreadHoldsItem, VerdictReady, [Next]_vars
    PROVE  BusyThreadHoldsItem'
<1>1. SUFFICES ASSUME NEW u \in Threads, pc'[u] \in Busy
               PROVE  /\ held'[u] \in Items
                      /\ status'[JobOf[held'[u]]] # "absent"
                      /\ AccountOf[JobOf[held'[u]]] = Serves[u]
  BY DEF BusyThreadHoldsItem, Busy, Working
<1>2. ASSUME NEW j \in Jobs, status[j] # "absent"
      PROVE  status'[j] # "absent"
  <2>1. ASSUME NEW t \in Threads, Finalize(t)
        PROVE  note[t] \in {"completed", "failed"}
    BY <2>1 DEF Finalize, VerdictReady
  <2>2. QED
    BY <1>2, <2>1, StepCases DEF CreateJob, RequestPause, RequestResume, RequestCancel,
       RetryFailed, DeleteJob, Claim, Resolves, Requeues, Judges, Finalize, Recovers, Moves,
       jobVars, TypeOK, JobTypes
<1>3. ASSUME pc[u] \in Busy, held'[u] = held[u]
      PROVE  /\ held'[u] \in Items
             /\ status'[JobOf[held'[u]]] # "absent"
             /\ AccountOf[JobOf[held'[u]]] = Serves[u]
  BY <1>2, <1>3, OwnerAssumption DEF BusyThreadHoldsItem
<1>4. ASSUME NEW t \in Threads, Claim(t), u = t
      PROVE  /\ held'[u] \in Items
             /\ status'[JobOf[held'[u]]] # "absent"
             /\ AccountOf[JobOf[held'[u]]] = Serves[u]
  <2>1. PICK i \in Claimable(Serves[t]) : held' = [held EXCEPT ![t] = i]
    BY <1>4 DEF Claim
  <2>2. held'[u] = i
    BY <1>4, <2>1 DEF TypeOK, ThreadTypes
  <2>3. /\ i \in Items /\ JobOf[i] \in Jobs
        /\ AccountOf[JobOf[i]] = Serves[t] /\ status[JobOf[i]] # "absent"
    BY <2>1, OwnerAssumption DEF Claimable
  <2>4. QED
    BY <1>2, <1>4, <2>2, <2>3
<1>5. \/ pc[u] \in Busy /\ held'[u] = held[u]
      \/ \E t \in Threads : Claim(t) /\ u = t
  <2>1. ASSUME NEW t \in Threads,
               (Claim(t) /\ u # t) \/ Resolves(t) \/ Requeues(t) \/ Judges(t) \/ Finalize(t)
        PROVE  pc[u] \in Busy /\ held'[u] = held[u]
    BY <1>1, <2>1 DEF Claim, Resolves, Requeues, Judges, Finalize, Release, Busy, Working,
       TypeOK, ThreadTypes
  <2>2. ASSUME Moves \/ Recovers
        PROVE  pc[u] \in Busy /\ held'[u] = held[u]
    BY <1>1, <2>2 DEF Moves, Recovers, Busy, threadVars
  <2>3. QED
    BY <1>1, <2>1, <2>2, StepCases, UsersApart
<1>6. QED
  BY <1>3, <1>4, <1>5

\* A thread at work was at work with the same item, or has just claimed it.
LEMMA WorkStep ==
    ASSUME TypeOK, [Next]_vars, NEW u \in Threads, pc'[u] \in Working
    PROVE  \/ pc[u] \in Working /\ held'[u] = held[u] /\ tries'[u] = tries[u]
           \/ Claim(u)
<1>1. ASSUME NEW t \in Threads, Claim(t), u # t
      PROVE  pc[u] \in Working /\ held'[u] = held[u] /\ tries'[u] = tries[u]
  BY <1>1 DEF Claim, TypeOK, ThreadTypes
<1>2. ASSUME NEW t \in Threads, Resolves(t) \/ Requeues(t)
      PROVE  pc[u] \in Working /\ held'[u] = held[u] /\ tries'[u] = tries[u]
  BY <1>2 DEF Resolves, Requeues, Working, TypeOK, ThreadTypes
<1>3. ASSUME NEW t \in Threads, Judges(t) \/ Finalize(t)
      PROVE  pc[u] \in Working /\ held'[u] = held[u] /\ tries'[u] = tries[u]
  BY <1>3 DEF Judges, Finalize, Release, Working, TypeOK, ThreadTypes
<1>4. CASE Recovers \/ Moves
  BY <1>4 DEF Recovers, Moves, Busy, threadVars
<1>5. QED
  BY <1>1, <1>2, <1>3, <1>4, StepCases, UsersApart

\* The row of an item that is worked on, and was not put back, is left alone by
\* everybody else, but for the dismissal of its job.
LEMMA HeldStep ==
    ASSUME TypeOK, RowsFollowJobs, BusyThreadHoldsItem, ClaimIsExclusive, [Next]_vars,
           NEW u \in Threads, pc[u] \in Working, pc'[u] \in Working,
           held'[u] = held[u], held[u] \notin shared'
    PROVE  /\ held[u] \in Items /\ held[u] \notin shared
           /\ item'[held[u]] \in {"in_progress", "none"}
           /\ item[held[u]] = "none" => item'[held[u]] = "none"
           /\ item'[held[u]] # "none" => attempts'[held[u]] = attempts[held[u]]
<1>1. /\ held[u] \in Items /\ held[u] \notin shared
      /\ JobOf[held[u]] \in Jobs /\ status[JobOf[held[u]]] # "absent"
      /\ item[held[u]] \in {"in_progress", "none"}
  BY HistoryGrows, OwnerAssumption DEF BusyThreadHoldsItem, Busy, ClaimIsExclusive
<1>2. ASSUME NEW j \in Jobs, \/ CreateJob(j) \/ RequestPause(j) \/ RequestResume(j)
                             \/ RequestCancel(j) \/ RetryFailed(j)
      PROVE  item'[held[u]] = item[held[u]] /\ attempts'[held[u]] = attempts[held[u]]
  BY <1>1, <1>2 DEF CreateJob, RequestPause, RequestResume, RequestCancel, Resolve,
     RetryFailed, In, ItemsOf, itemVars
<1>3. ASSUME NEW j \in Jobs, DeleteJob(j)
      PROVE  /\ item'[held[u]] \in {item[held[u]], "none"}
             /\ attempts'[held[u]] = attempts[held[u]]
  BY <1>1, <1>3 DEF DeleteJob
<1>4. ASSUME NEW t \in Threads, Claim(t)
      PROVE  item'[held[u]] = item[held[u]] /\ attempts'[held[u]] = attempts[held[u]]
  <2>1. PICK i \in Claimable(Serves[t]) : item' = [item EXCEPT ![i] = "in_progress"]
    BY <1>4 DEF Claim
  <2>2. i # held[u]
    BY <1>1, <2>1 DEF Claimable
  <2>3. QED
    BY <1>1, <1>4, <2>1, <2>2 DEF Claim, TypeOK, RowTypes
<1>5. ASSUME NEW t \in Threads, Resolves(t) \/ Requeues(t)
      PROVE  item'[held[u]] = item[held[u]] /\ attempts'[held[u]] = attempts[held[u]]
  <2>1. t # u /\ pc[t] \in Working /\ held[t] \in Items
    BY <1>5 DEF Resolves, Requeues, Working, TypeOK, ThreadTypes, BusyThreadHoldsItem, Busy
  <2>2. held[t] # held[u]
    BY <1>1, <2>1 DEF ClaimIsExclusive
  <2>3. CASE Resolves(t)
    <3>1. PICK s \in Resolved, M \in {{held[t]}, {held[t]} \cup In(JobOf[held[t]], "pending")} :
              Resolve(M, JobOf[held[t]], s)
      BY <2>3 DEF Resolves
    <3>2. held[u] \notin M
      BY <1>1, <2>2, <3>1 DEF In
    <3>3. QED
      BY <1>1, <2>3, <3>1, <3>2 DEF Resolves, Resolve
  <2>4. CASE Requeues(t)
    BY <1>1, <2>1, <2>2, <2>4 DEF Requeues, Requeue, TypeOK, RowTypes
  <2>5. QED
    BY <1>5, <2>3, <2>4
<1>6. CASE Recovers
  BY <1>1, <1>6 DEF Recovers
<1>7. CASE Moves \/ \E t \in Threads : Judges(t) \/ Finalize(t)
  BY <1>1, <1>7 DEF Moves, Judges, Finalize, itemVars
<1>8. QED
  BY <1>1, <1>2, <1>3, <1>4, <1>5, <1>6, <1>7, StepCases

\* A claim takes a pending item, which no thread works on unless it was put back.
LEMMA ExclusiveStep ==
    ASSUME TypeOK, RowsFollowJobs, BusyThreadHoldsItem, ClaimIsExclusive, [Next]_vars
    PROVE  ClaimIsExclusive'
<1>1. SUFFICES ASSUME NEW u \in Threads, pc'[u] \in Working, held'[u] \notin shared'
               PROVE  /\ item'[held'[u]] \in {"in_progress", "none"}
                      /\ \A v \in Threads \ {u} : pc'[v] \in Working => held'[v] # held'[u]
  BY DEF ClaimIsExclusive, Working
<1>2. ASSUME NEW t \in Threads, Claim(t)
      PROVE  \E i \in Items : /\ item[i] = "pending" /\ item'[i] = "in_progress"
                              /\ held'[t] = i
  <2>1. PICK i \in Claimable(Serves[t]) : /\ item' = [item EXCEPT ![i] = "in_progress"]
                                          /\ held' = [held EXCEPT ![t] = i]
    BY <1>2 DEF Claim
  <2>2. QED
    BY <2>1 DEF Claimable, TypeOK, RowTypes, ThreadTypes
<1>3. shared \subseteq shared'
  BY HistoryGrows
<1>4. ASSUME NEW v \in Threads, NEW w \in Threads, Claim(v), Claim(w)
      PROVE  v = w
  BY <1>4 DEF Claim, TypeOK, ThreadTypes
<1>5. CASE Claim(u)
  <2>1. PICK i \in Items : item[i] = "pending" /\ item'[i] = "in_progress" /\ held'[u] = i
    BY <1>2, <1>5
  <2>2. ASSUME NEW v \in Threads \ {u}, pc'[v] \in Working
        PROVE  held'[v] # i
    <3>1. pc[v] \in Working /\ held'[v] = held[v]
      BY <1>4, <1>5, <2>2, WorkStep
    <3>2. QED
      BY <1>1, <1>3, <2>1, <3>1 DEF ClaimIsExclusive
  <2>3. QED
    BY <2>1, <2>2
<1>6. CASE ~Claim(u)
  <2>1. pc[u] \in Working /\ held'[u] = held[u] /\ held[u] \notin shared
    BY <1>1, <1>3, <1>6, WorkStep
  <2>2. item'[held[u]] \in {"in_progress", "none"}
    BY <1>1, <2>1, HeldStep
  <2>3. ASSUME NEW v \in Threads \ {u}, pc'[v] \in Working
        PROVE  held'[v] # held[u]
    <3>1. CASE Claim(v)
      BY <1>2, <2>1, <3>1 DEF ClaimIsExclusive
    <3>2. CASE ~Claim(v)
      BY <2>1, <2>3, <3>2, WorkStep DEF ClaimIsExclusive
    <3>3. QED
      BY <3>1, <3>2
  <2>4. QED
    BY <2>1, <2>2, <2>3
<1>7. QED
  BY <1>5, <1>6

\* Requeue spends an attempt only below the limit; the claim reads the count.
LEMMA AttemptsStep ==
    ASSUME TypeOK, BusyThreadHoldsItem, RowsFollowJobs, ClaimIsExclusive, AttemptsKnown,
           [Next]_vars
    PROVE  AttemptsKnown'
<1>1. shared \subseteq shared'
  BY HistoryGrows
<1>2. ASSUME NEW i \in Items \ shared'
      PROVE  attempts'[i] < ITEM_MAX_ATTEMPTS
  <2>1. attempts[i] < ITEM_MAX_ATTEMPTS /\ attempts[i] \in Nat
    BY <1>1, <1>2 DEF AttemptsKnown, TypeOK, RowTypes
  <2>2. ASSUME NEW j \in Jobs, \/ CreateJob(j) \/ RequestPause(j) \/ RequestResume(j)
                               \/ RequestCancel(j) \/ RetryFailed(j) \/ DeleteJob(j)
        PROVE  attempts'[i] \in {0, attempts[i]}
    BY <2>2 DEF CreateJob, RequestPause, RequestResume, RequestCancel, RetryFailed, DeleteJob,
       itemVars
  <2>3. ASSUME NEW t \in Threads, Requeues(t)
        PROVE  attempts'[i] < ITEM_MAX_ATTEMPTS
    <3>1. PICK bump \in {0, 1} : /\ bump = 1 => tries[t] + 1 < ITEM_MAX_ATTEMPTS
                                 /\ Requeue(held[t], bump)
      BY <2>3 DEF Requeues
    <3>2. pc[t] \in Working /\ held[t] \in Items
      BY <2>3 DEF Requeues, Working, BusyThreadHoldsItem, Busy
    <3>3. CASE i # held[t] \/ ~Exists(JobOf[held[t]])
      BY <2>1, <3>1, <3>2, <3>3 DEF Requeue, TypeOK, RowTypes
    <3>4. CASE i = held[t] /\ Exists(JobOf[held[t]])
      <4>1. tries[t] = attempts[i]
        BY <1>1, <3>2, <3>4 DEF AttemptsKnown, RowsFollowJobs
      <4>2. attempts'[i] = attempts[i] + bump
        BY <3>1, <3>4 DEF Requeue, TypeOK, RowTypes
      <4>3. QED
        BY <2>1, <3>1, <4>1, <4>2
    <3>5. QED
      BY <3>3, <3>4
  <2>4. ASSUME \/ \E t \in Threads : Claim(t) \/ Resolves(t) \/ Judges(t) \/ Finalize(t)
               \/ Recovers \/ Moves
        PROVE  attempts'[i] = attempts[i]
    BY <2>4 DEF Claim, Resolves, Judges, Finalize, Recovers, Moves, itemVars
  <2>5. QED
    BY <2>1, <2>2, <2>3, <2>4, StepCases, AttemptsAssumption
<1>3. ASSUME NEW u \in Threads, pc'[u] \in Working, held'[u] \notin shared'
      PROVE  tries'[u] = attempts'[held'[u]] \/ item'[held'[u]] = "none"
  <2>1. CASE Claim(u)
    <3>1. PICK i \in Items : /\ held' = [held EXCEPT ![u] = i]
                             /\ tries' = [tries EXCEPT ![u] = attempts[i]]
      BY <2>1 DEF Claim, Claimable
    <3>2. QED
      BY <2>1, <3>1 DEF Claim, TypeOK, ThreadTypes
  <2>2. CASE ~Claim(u)
    <3>1. pc[u] \in Working /\ held'[u] = held[u] /\ tries'[u] = tries[u]
      BY <1>3, <2>2, WorkStep
    <3>2. QED
      BY <1>3, <3>1, HeldStep DEF AttemptsKnown
  <2>3. QED
    BY <2>1, <2>2
<1>4. QED
  BY <1>2, <1>3 DEF AttemptsKnown, Working

\* Statements about one job leave the counters of another right.
LEMMA ResolveElsewhere ==
    ASSUME CountTypes, NEW j \in Jobs, NEW k \in Jobs, j # k, Counted(j), NEW s \in Resolved,
           NEW M, M \subseteq ItemsOf(k), Resolve(M, k, s)
    PROVE  Counted(j)'
<1>1. count'[j] = count[j]
  BY DEF Resolve, CountTypes
<1>2. \A i \in ItemsOf(j) : item'[i] = item[i]
  BY DEF Resolve, ItemsOf
<1>3. QED
  BY <1>1, <1>2, OpenMovesKeepCounters

\* Resolving steps move the counter of what they resolve, the others no counter.
LEMMA CountersStep ==
    ASSUME TypeOK, BusyThreadHoldsItem, RowsFollowJobs, ClaimIsExclusive, CountersMatchItems,
           [Next]_vars
    PROVE  CountersMatchItems'
<1>1. SUFFICES ASSUME NEW j \in Jobs, Unshared(j)'
               PROVE  Counted(j)'
  BY DEF CountersMatchItems, Counted
<1>2. Unshared(j) /\ Counted(j) /\ CountTypes
  BY <1>1, HistoryGrows DEF CountersMatchItems, Counted, TypeOK
<1>3. ASSUME NEW k \in Jobs, CreateJob(k) \/ RequestPause(k) \/ RequestResume(k)
      PROVE  Counted(j)'
  <2>1. count' = count
    BY <1>3 DEF CreateJob, RequestPause, RequestResume
  <2>2. \A i \in ItemsOf(j) : item[i] \in Resolved \/ item'[i] \in Resolved => item'[i] = item[i]
    BY <1>3 DEF CreateJob, RequestPause, RequestResume, RowsFollowJobs, Exists, Resolved,
       ItemsOf, itemVars
  <2>3. QED
    BY <1>2, <2>1, <2>2, OpenMovesKeepCounters
<1>4. ASSUME NEW k \in Jobs, RequestCancel(k)
      PROVE  Counted(j)'
  <2>1. Resolve(In(k, "pending"), k, "skipped") /\ "skipped" \in Resolved
    BY <1>4 DEF RequestCancel, Resolved
  <2>2. In(k, "pending") \subseteq ItemsOf(k) /\ \A i \in In(k, "pending") : item[i] \in Open
    BY DEF In, Open
  <2>3. CASE k = j
    BY <1>2, <2>1, <2>2, <2>3, ResolveKeepsCounters
  <2>4. CASE k # j
    BY <1>2, <2>1, <2>2, <2>4, ResolveElsewhere
  <2>5. QED
    BY <2>3, <2>4
<1>5. ASSUME NEW k \in Jobs, RetryFailed(k)
      PROVE  Counted(j)'
  <2>1. SUFFICES ASSUME NEW s \in Resolved
                 PROVE  count'[j][s] = Cardinality(In(j, s)')
    BY DEF Counted
  <2>2. count[j][s] = Cardinality(In(j, s)) /\ count[j][s] \in Nat
    BY <1>2 DEF Counted, CountTypes
  <2>3. item' = [i \in Items |-> IF i \in In(k, "failed") THEN "pending" ELSE item[i]]
    BY <1>5 DEF RetryFailed
  <2>4. CASE k = j /\ s = "failed"
    <3>1. In(j, s)' = {}
      BY <2>3, <2>4 DEF In, ItemsOf
    <3>2. count'[j]["failed"] = 0
      BY <1>2, <1>5, <2>2, <2>4 DEF RetryFailed, CountTypes
    <3>3. QED
      BY <2>4, <3>1, <3>2, FS_EmptySet
  <2>5. CASE ~(k = j /\ s = "failed")
    <3>1. In(j, s)' = In(j, s)
      BY <2>3, <2>5 DEF In, ItemsOf, Resolved
    <3>2. count'[j][s] = count[j][s]
      BY <1>2, <1>5, <2>5 DEF RetryFailed, CountTypes
    <3>3. QED
      BY <2>2, <3>1, <3>2
  <2>6. QED
    BY <2>4, <2>5
<1>6. ASSUME NEW k \in Jobs, DeleteJob(k)
      PROVE  Counted(j)'
  <2>1. item' = [i \in Items |-> IF JobOf[i] = k THEN "none" ELSE item[i]]
    BY <1>6 DEF DeleteJob
  <2>2. CASE k = j
    <3>1. ASSUME NEW s \in Resolved
          PROVE  count'[j][s] = Cardinality(In(j, s)')
      <4>1. In(j, s)' = {}
        BY <2>1, <2>2 DEF In, ItemsOf, Resolved
      <4>2. count'[j][s] = 0
        BY <1>2, <1>6, <2>2 DEF DeleteJob, CountTypes
      <4>3. QED
        BY <4>1, <4>2, FS_EmptySet
    <3>2. QED
      BY <3>1 DEF Counted
  <2>3. CASE k # j
    <3>1. count'[j] = count[j]
      BY <1>2, <1>6, <2>3 DEF DeleteJob, CountTypes
    <3>2. \A i \in ItemsOf(j) : item'[i] = item[i]
      BY <2>1, <2>3 DEF ItemsOf
    <3>3. QED
      BY <1>2, <3>1, <3>2, OpenMovesKeepCounters
  <2>4. QED
    BY <2>2, <2>3
<1>7. ASSUME NEW t \in Threads, Claim(t)
      PROVE  Counted(j)'
  <2>1. PICK i \in Claimable(Serves[t]) : item' = [item EXCEPT ![i] = "in_progress"]
    BY <1>7 DEF Claim
  <2>2. i \in Items /\ item[i] = "pending" /\ count' = count
    BY <1>7, <2>1 DEF Claimable, Claim
  <2>3. \A k \in Items : item[k] \in Resolved \/ item'[k] \in Resolved => item'[k] = item[k]
    BY <2>1, <2>2 DEF TypeOK, RowTypes, Resolved
  <2>4. QED
    BY <1>2, <2>2, <2>3, OpenMovesKeepCounters DEF ItemsOf
<1>8. ASSUME NEW t \in Threads, Resolves(t) \/ Requeues(t)
      PROVE  Counted(j)'
  <2>1. held[t] \in Items /\ JobOf[held[t]] \in Jobs /\ pc[t] \in Working
    BY <1>8, OwnerAssumption DEF Resolves, Requeues, BusyThreadHoldsItem, Busy, Working
  <2>2. JobOf[held[t]] = j => item[held[t]] \in {"in_progress", "none"}
    BY <1>2, <2>1 DEF ClaimIsExclusive, Unshared
  <2>3. CASE Resolves(t)
    <3>1. PICK s \in Resolved, M \in {{held[t]}, {held[t]} \cup In(JobOf[held[t]], "pending")} :
              Resolve(M, JobOf[held[t]], s)
      BY <2>3 DEF Resolves
    <3>2. M \subseteq ItemsOf(JobOf[held[t]])
      BY <2>1, <3>1 DEF In, ItemsOf
    <3>3. CASE JobOf[held[t]] = j
      <4>1. Exists(j) => \A i \in M : item[i] \in Open
        BY <2>1, <2>2, <3>1, <3>3 DEF RowsFollowJobs, In, Open
      <4>2. QED
        BY <1>2, <3>1, <3>2, <3>3, <4>1, ResolveKeepsCounters
    <3>4. CASE JobOf[held[t]] # j
      BY <1>2, <2>1, <3>1, <3>2, <3>4, ResolveElsewhere
    <3>5. QED
      BY <3>3, <3>4
  <2>4. CASE Requeues(t)
    <3>1. count' = count
      BY <2>4 DEF Requeues
    <3>2. \A i \in ItemsOf(j) : item[i] \in Resolved \/ item'[i] \in Resolved => item'[i] = item[i]
      BY <2>1, <2>2, <2>4 DEF Requeues, Requeue, TypeOK, RowTypes, Resolved, ItemsOf
    <3>3. QED
      BY <1>2, <3>1, <3>2, OpenMovesKeepCounters
  <2>5. QED
    BY <1>8, <2>3, <2>4
<1>9. ASSUME Recovers \/ Moves \/ \E t \in Threads : Judges(t) \/ Finalize(t)
      PROVE  Counted(j)'
  <2>1. count' = count
    BY <1>9 DEF Recovers, Moves, Judges, Finalize, jobVars
  <2>2. \A i \in ItemsOf(j) : item[i] \in Resolved \/ item'[i] \in Resolved => item'[i] = item[i]
    BY <1>9 DEF Recovers, Moves, Judges, Finalize, itemVars, Resolved, ItemsOf
  <2>3. QED
    BY <1>2, <2>1, <2>2, OpenMovesKeepCounters
<1>10. QED
  BY <1>3, <1>4, <1>5, <1>6, <1>7, <1>8, <1>9, StepCases

\* A thread has a verdict ready since an earlier step, or has just computed it.
LEMMA VerdictKept ==
    ASSUME TypeOK, [Next]_vars, NEW u \in Threads, pc'[u] = "finalize"
    PROVE  \/ pc[u] = "finalize" /\ held'[u] = held[u] /\ note'[u] = note[u]
           \/ Judges(u)
<1>1. ASSUME NEW t \in Threads, Claim(t) \/ Resolves(t) \/ Requeues(t) \/ Finalize(t)
      PROVE  pc[u] = "finalize" /\ held'[u] = held[u] /\ note'[u] = note[u]
  BY <1>1 DEF Claim, Resolves, Requeues, Finalize, Release, TypeOK, ThreadTypes
<1>2. ASSUME NEW t \in Threads, Judges(t), t # u
      PROVE  pc[u] = "finalize" /\ held'[u] = held[u] /\ note'[u] = note[u]
  BY <1>2 DEF Judges, TypeOK, ThreadTypes
<1>3. CASE Recovers \/ Moves
  BY <1>3 DEF Recovers, Moves, Busy, Working, threadVars
<1>4. QED
  BY <1>1, <1>2, <1>3, StepCases, UsersApart

\* A job that is worked on has an open item, so it has no verdict; and what is
\* claimed of it when its verdict is ready is on record.
LEMMA NoWorkStep ==
    ASSUME TypeOK, RowsFollowJobs, BusyThreadHoldsItem, ClaimIsExclusive,
           NoWorkUnderVerdict, [Next]_vars
    PROVE  NoWorkUnderVerdict'
<1>1. SUFFICES ASSUME NEW t \in Threads, NEW u \in Threads, NEW j \in Jobs,
                      pc'[t] = "finalize", pc'[u] \in Working, Sound(j)',
                      JobOf[held'[t]] = j, JobOf[held'[u]] = j
               PROVE  FALSE
  <2>1. ASSUME NEW t \in Threads, pc'[t] = "finalize"
        PROVE  held'[t] \in Items /\ JobOf[held'[t]] \in Jobs
    <3>1. pc[t] \in Busy /\ held'[t] = held[t]
      BY <2>1, VerdictKept DEF Judges, Busy
    <3>2. QED
      BY <3>1, OwnerAssumption DEF BusyThreadHoldsItem
  <2>2. QED
    BY <2>1 DEF NoWorkUnderVerdict, Sound, Unshared, Working
<1>2. Sound(j)
  BY <1>1, HistoryGrows
<1>3. CASE Judges(t)
  <2>1. u # t /\ held'[u] = held[u] /\ pc[u] \in Working /\ held'[t] = held[t]
    BY <1>1, <1>3 DEF Judges, TypeOK, ThreadTypes, Working
  <2>2. held[u] \in Items /\ held[u] \notin shared
    BY <1>1, <1>2, <2>1 DEF BusyThreadHoldsItem, Busy, Sound, Unshared
  <2>3. item[held[u]] \in {"in_progress", "none"}
    BY <2>1, <2>2 DEF ClaimIsExclusive
  <2>4. status[j] \in Unfinished /\ Drained(j)
    BY <1>1, <1>3, <2>1 DEF Judges
  <2>5. item[held[u]] # "none"
    BY <1>1, <2>1, <2>2, <2>4 DEF RowsFollowJobs, Exists, Unfinished
  <2>6. QED
    BY <1>1, <2>1, <2>2, <2>3, <2>4, <2>5 DEF Drained, ItemsOf, Open
<1>4. CASE pc[t] = "finalize" /\ held'[t] = held[t]
  <2>1. CASE Claim(u)
    <3>1. PICK i \in Items : /\ held' = [held EXCEPT ![u] = i]
                             /\ overtaken' = overtaken \cup Judged({JobOf[i]})
      BY <2>1 DEF Claim, Claimable
    <3>2. held'[u] = i
      BY <3>1 DEF TypeOK, ThreadTypes
    <3>3. j \in overtaken'
      BY <1>1, <1>4, <3>1, <3>2 DEF Judged
    <3>4. QED
      BY <1>1, <3>3 DEF Sound
  <2>2. CASE ~Claim(u)
    BY <1>1, <1>2, <1>4, <2>2, WorkStep DEF NoWorkUnderVerdict
  <2>3. QED
    BY <2>1, <2>2
<1>5. QED
  BY <1>1, <1>3, <1>4, VerdictKept

\* The verdict v agrees with the counters of job j.
Agrees(j, v) ==
    /\ v = "failed" => count[j]["succeeded"] = 0
    /\ v = "completed" => count[j]["failed"] = 0 \/ count[j]["succeeded"] > 0

\* While nobody works on a job, handlers only make its counters more lenient.
LEMMA AgreementStays ==
    ASSUME TypeOK, BusyThreadHoldsItem, [Next]_vars, NEW j \in Jobs, NEW v, Agrees(j, v),
           \A u \in Threads : pc[u] \in Working => JobOf[held[u]] # j
    PROVE  Agrees(j, v)'
<1>1. ASSUME NEW k \in Jobs, RequestCancel(k)
      PROVE  Agrees(j, v)'
  BY <1>1 DEF RequestCancel, Resolve, Agrees, TypeOK, CountTypes, Resolved
<1>2. ASSUME NEW k \in Jobs, RetryFailed(k)
      PROVE  Agrees(j, v)'
  <2>1. Cardinality(In(k, "failed")) \in Nat
    BY ItemSetsFinite DEF In
  <2>2. /\ count'[j]["succeeded"] = count[j]["succeeded"]
        /\ count[j]["failed"] = 0 => count'[j]["failed"] = 0
    BY <1>2, <2>1 DEF RetryFailed, TypeOK, CountTypes, Resolved
  <2>3. QED
    BY <2>2 DEF Agrees
<1>3. ASSUME NEW k \in Jobs, DeleteJob(k)
      PROVE  Agrees(j, v)'
  BY <1>3 DEF DeleteJob, Agrees, TypeOK, CountTypes, Resolved
<1>4. ASSUME NEW t \in Threads, Resolves(t)
      PROVE  Agrees(j, v)'
  <2>1. pc[t] \in Working
    BY <1>4 DEF Resolves, Working
  <2>2. PICK s \in Resolved, M \in {{held[t]}, {held[t]} \cup In(JobOf[held[t]], "pending")} :
            Resolve(M, JobOf[held[t]], s)
    BY <1>4 DEF Resolves
  <2>3. count'[j] = count[j]
    BY <2>1, <2>2 DEF Resolve, TypeOK, CountTypes
  <2>4. QED
    BY <2>3 DEF Agrees
<1>5. ASSUME \/ \E k \in Jobs : CreateJob(k) \/ RequestPause(k) \/ RequestResume(k)
             \/ \E t \in Threads : Claim(t) \/ Requeues(t) \/ Judges(t) \/ Finalize(t)
             \/ Recovers \/ Moves
      PROVE  Agrees(j, v)'
  BY <1>5 DEF CreateJob, RequestPause, RequestResume, Claim, Requeues, Judges, Finalize,
     Recovers, Moves, Agrees, jobVars
<1>6. QED
  BY <1>1, <1>2, <1>3, <1>4, <1>5, StepCases

\* A verdict is computed from the counters, and they stay in agreement with it.
LEMMA VerdictStep ==
    ASSUME TypeOK, BusyThreadHoldsItem, NoWorkUnderVerdict, VerdictReady, [Next]_vars
    PROVE  VerdictReady'
<1>1. SUFFICES ASSUME NEW u \in Threads, pc'[u] = "finalize",
                      NEW j \in Jobs, j = JobOf[held'[u]]
               PROVE  \E v \in {"completed", "failed"} :
                        note'[u] = v /\ (Sound(j)' => Agrees(j, v)')
  <2>1. ASSUME NEW u \in Threads, pc'[u] = "finalize"
        PROVE  held'[u] \in Items /\ JobOf[held'[u]] \in Jobs
    <3>1. pc[u] \in Busy /\ held'[u] = held[u]
      BY <2>1, VerdictKept DEF Judges, Busy
    <3>2. QED
      BY <3>1, OwnerAssumption DEF BusyThreadHoldsItem
  <2>2. QED
    BY <2>1 DEF VerdictReady, Sound, Unshared, Agrees
<1>2. CASE Judges(u)
  <2>1. held' = held /\ note'[u] = Verdict(j) /\ count' = count
    BY <1>1, <1>2 DEF Judges, jobVars, TypeOK, ThreadTypes
  <2>2. count[j]["failed"] \in Nat /\ count[j]["succeeded"] \in Nat
    BY DEF TypeOK, CountTypes, Resolved
  <2>3. QED
    BY <2>1, <2>2 DEF Verdict, Agrees
<1>3. CASE pc[u] = "finalize" /\ held'[u] = held[u] /\ note'[u] = note[u]
  <2>1. PICK v \in {"completed", "failed"} : note[u] = v /\ (Sound(j) => Agrees(j, v))
    BY <1>1, <1>3 DEF VerdictReady, Agrees
  <2>2. ASSUME Sound(j)'
        PROVE  Agrees(j, v)'
    <3>1. Sound(j)
      BY <2>2, HistoryGrows
    <3>2. \A w \in Threads : pc[w] \in Working => JobOf[held[w]] # j
      BY <1>1, <1>3, <3>1 DEF NoWorkUnderVerdict
    <3>3. QED
      BY <2>1, <3>1, <3>2, AgreementStays
  <2>3. QED
    BY <1>3, <2>1, <2>2
<1>4. QED
  BY <1>1, <1>2, <1>3, VerdictKept

\* Only a verdict finalizes a job, and nobody works under a verdict.
LEMMA WorkedOnStep ==
    ASSUME TypeOK, BusyThreadHoldsItem, NoWorkUnderVerdict, WorkedOnIsOpen, [Next]_vars
    PROVE  WorkedOnIsOpen'
<1>1. SUFFICES ASSUME NEW u \in Threads, pc'[u] \in Working, NEW j \in Jobs,
                      j = JobOf[held'[u]], Sound(j)'
               PROVE  status'[j] \notin {"completed", "failed"}
  <2>1. ASSUME NEW u \in Threads, pc'[u] \in Working
        PROVE  held'[u] \in Items /\ JobOf[held'[u]] \in Jobs
    <3>1. CASE Claim(u)
      BY <3>1, OwnerAssumption DEF Claim, Claimable, TypeOK, ThreadTypes
    <3>2. CASE ~Claim(u)
      BY <2>1, <3>2, WorkStep, OwnerAssumption DEF BusyThreadHoldsItem, Busy
    <3>3. QED
      BY <3>1, <3>2
  <2>2. QED
    BY <2>1 DEF WorkedOnIsOpen, Working, Sound, Unshared
<1>2. Sound(j)
  BY <1>1, HistoryGrows
<1>3. CASE Claim(u)
  <2>1. PICK i \in Claimable(Serves[u]) : held' = [held EXCEPT ![u] = i]
    BY <1>3 DEF Claim
  <2>2. i \in Items /\ j = JobOf[i] /\ status[j] \in {"queued", "running"}
    BY <1>1, <2>1 DEF Claimable, TypeOK, ThreadTypes
  <2>3. QED
    BY <1>3, <2>2 DEF Claim
<1>4. CASE ~Claim(u)
  <2>1. /\ pc[u] \in Working /\ held'[u] = held[u]
        /\ status[j] \notin {"completed", "failed"}
    BY <1>1, <1>2, <1>4, WorkStep DEF WorkedOnIsOpen
  <2>2. ASSUME NEW t \in Threads, Finalize(t)
        PROVE  status'[j] = status[j]
    BY <1>1, <1>2, <2>1, <2>2 DEF Finalize, NoWorkUnderVerdict, TypeOK, JobTypes
  <2>3. QED
    BY <2>1, <2>2, StepCases DEF CreateJob, RequestPause, RequestResume, RequestCancel,
       RetryFailed, DeleteJob, Claim, Resolves, Requeues, Judges, Recovers, Moves, jobVars,
       TypeOK, JobTypes
<1>5. QED
  BY <1>3, <1>4

\* Finalize writes the verdict; nothing then counts into a finalized job.
LEMMA HonestStep ==
    ASSUME TypeOK, BusyThreadHoldsItem, WorkedOnIsOpen, VerdictReady, VerdictIsHonest,
           [Next]_vars
    PROVE  VerdictIsHonest'
<1>1. SUFFICES ASSUME NEW j \in Jobs, Sound(j)', status'[j] \in {"completed", "failed"}
               PROVE  \E v \in {"completed", "failed"} : status'[j] = v /\ Agrees(j, v)'
  BY DEF VerdictIsHonest, Agrees
<1>2. Sound(j)
  BY <1>1, HistoryGrows
<1>3. CASE status'[j] = status[j]
  <2>1. PICK v \in {"completed", "failed"} : status[j] = v /\ Agrees(j, v)
    BY <1>1, <1>2, <1>3 DEF VerdictIsHonest, Agrees
  <2>2. \A u \in Threads : pc[u] \in Working => JobOf[held[u]] # j
    BY <1>2, <2>1 DEF WorkedOnIsOpen
  <2>3. QED
    BY <1>3, <2>1, <2>2, AgreementStays
<1>4. ASSUME NEW t \in Threads, Finalize(t), status'[j] # status[j]
      PROVE  \E v \in {"completed", "failed"} : status'[j] = v /\ Agrees(j, v)'
  <2>1. j = JobOf[held[t]] /\ status'[j] = note[t] /\ count' = count
    BY <1>4 DEF Finalize, TypeOK, JobTypes
  <2>2. QED
    BY <1>2, <1>4, <2>1 DEF Finalize, VerdictReady, Agrees
<1>5. ASSUME ~\E t \in Threads : Finalize(t)
      PROVE  status'[j] = status[j]
  BY <1>1, <1>5, StepCases DEF CreateJob, RequestPause, RequestResume, RequestCancel,
     RetryFailed, DeleteJob, Claim, Resolves, Requeues, Judges, Recovers, Moves, jobVars,
     TypeOK, JobTypes
<1>6. QED
  BY <1>3, <1>4, <1>5

-----------------------------------------------------------------------------

\* The invariant holds initially.
LEMMA InitEstablishes ==
    ASSUME Init
    PROVE  IInv
<1>1. TypeOK
  BY SwitchAssumption DEF Init, TypeOK, JobTypes, CountTypes, RowTypes, WorkerTypes,
     ThreadTypes, HistoryTypes, Status, PCs
<1>2. CountersMatchItems
  <2>1. SUFFICES ASSUME NEW j \in Jobs, NEW s \in Resolved
                 PROVE  count[j][s] = Cardinality(In(j, s))
    BY DEF CountersMatchItems
  <2>2. In(j, s) = {}
    BY DEF Init, In, ItemsOf, Resolved
  <2>3. QED
    BY <2>2, FS_EmptySet DEF Init
<1>3. RowsFollowJobs /\ VerdictIsHonest
  BY OwnerAssumption DEF Init, RowsFollowJobs, Exists, VerdictIsHonest
<1>4. /\ BusyThreadHoldsItem /\ ClaimIsExclusive /\ AttemptsKnown
      /\ WorkedOnIsOpen /\ VerdictReady /\ NoWorkUnderVerdict
  BY AttemptsAssumption DEF Init, Busy, Working, BusyThreadHoldsItem, ClaimIsExclusive,
     AttemptsKnown, WorkedOnIsOpen, VerdictReady, NoWorkUnderVerdict
<1>5. QED
  BY <1>1, <1>2, <1>3, <1>4 DEF IInv

\* It is inductive.
LEMMA IInvStep ==
    ASSUME IInv, [Next]_vars
    PROVE  IInv'
<1>1. TypeOK' /\ RowsFollowJobs' /\ BusyThreadHoldsItem'
  BY TypeStep, RowsStep, BusyStep DEF IInv
<1>2. ClaimIsExclusive' /\ AttemptsKnown' /\ CountersMatchItems'
  BY ExclusiveStep, AttemptsStep, CountersStep DEF IInv
<1>3. WorkedOnIsOpen' /\ VerdictReady' /\ NoWorkUnderVerdict' /\ VerdictIsHonest'
  BY WorkedOnStep, VerdictStep, NoWorkStep, HonestStep DEF IInv
<1>4. QED
  BY <1>1, <1>2, <1>3 DEF IInv

\* The inductive invariant, in every behaviour.
THEOREM Invariance == Spec => []IInv
<1>1. IInv /\ [Next]_vars => IInv'
  BY IInvStep
<1>2. QED
  BY InitEstablishes, <1>1, PTL DEF Spec

\* Every variable keeps its type, with any number of jobs, items and threads.
THEOREM TypeCorrect == Spec => []TypeOK
<1>1. IInv => TypeOK
  BY DEF IInv
<1>2. QED
  BY <1>1, Invariance, PTL

\* The progress counters are the numbers of resolved items (mark_item_*,
\* request_cancel, fail_remaining_pending, retry_failed) of every job none of whose
\* items was put back under a living thread.
THEOREM CountersCorrect == Spec => []CountersMatchItems
<1>1. IInv => CountersMatchItems
  BY DEF IInv
<1>2. QED
  BY <1>1, Invariance, PTL

\* claim_next_pending_for_account gives an item to one thread at a time, among the
\* threads of all workers there were, and only the recovery of start() undoes it.
THEOREM ClaimCorrect == Spec => []ClaimIsExclusive
<1>1. IInv => ClaimIsExclusive
  BY DEF IInv
<1>2. QED
  BY <1>1, Invariance, PTL

\* No open item has spent ITEM_MAX_ATTEMPTS.
THEOREM AttemptsBounded == Spec => []AttemptsWithinBudget
<1>1. IInv => AttemptsWithinBudget
  BY DEF IInv, AttemptsKnown, AttemptsWithinBudget
<1>2. QED
  BY <1>1, Invariance, PTL

\* The verdict of finalize_job_if_drained agrees with the counters although it
\* is computed from a snapshot.
THEOREM VerdictCorrect == Spec => []VerdictIsHonest
<1>1. IInv => VerdictIsHonest
  BY DEF IInv
<1>2. QED
  BY <1>1, Invariance, PTL

-----------------------------------------------------------------------------
(* Results and verdicts, step by step. *)

\* A step leaves a result as it is, dismisses it or is the user's retry.
LEMMA ResultStep ==
    ASSUME IInv, NEW i \in Items \ shared, [Next]_vars
    PROVE  /\ item[i] \in {"succeeded", "skipped"} => item'[i] \in {item[i], "none"}
           /\ item[i] = "failed" => item'[i] \in {"failed", "none"} \/ RetryFailed(JobOf[i])
<1>1. ASSUME NEW j \in Jobs, CreateJob(j) \/ RequestPause(j) \/ RequestResume(j)
      PROVE  item[i] = item'[i] \/ item[i] = "none"
  BY <1>1 DEF CreateJob, RequestPause, RequestResume, itemVars, IInv, RowsFollowJobs, Exists
<1>2. ASSUME NEW j \in Jobs, RequestCancel(j)
      PROVE  item[i] = item'[i] \/ item[i] = "pending"
  BY <1>2 DEF RequestCancel, Resolve, In
<1>3. ASSUME NEW j \in Jobs, RetryFailed(j)
      PROVE  item[i] = item'[i] \/ (item[i] = "failed" /\ RetryFailed(JobOf[i]))
  BY <1>3 DEF RetryFailed, In, ItemsOf
<1>4. ASSUME NEW j \in Jobs, DeleteJob(j)
      PROVE  item'[i] \in {item[i], "none"}
  BY <1>4 DEF DeleteJob
<1>5. ASSUME NEW t \in Threads, Claim(t)
      PROVE  item[i] = item'[i] \/ item[i] = "pending"
  BY <1>5 DEF Claim, Claimable, IInv, TypeOK, RowTypes
<1>6. ASSUME NEW t \in Threads, Resolves(t) \/ Requeues(t)
      PROVE  item[i] = item'[i] \/ item[i] \in {"none", "pending", "in_progress"}
  <2>1. /\ held[t] \in Items
        /\ held[t] = i => item[i] \in {"in_progress", "none"}
    BY <1>6 DEF Resolves, Requeues, IInv, BusyThreadHoldsItem, Busy, Working, ClaimIsExclusive
  <2>2. CASE Resolves(t)
    BY <2>1, <2>2 DEF Resolves, Resolve, In
  <2>3. CASE Requeues(t)
    BY <2>1, <2>3 DEF Requeues, Requeue, IInv, TypeOK, RowTypes
  <2>4. QED
    BY <1>6, <2>2, <2>3
<1>7. ASSUME Recovers \/ Moves \/ \E t \in Threads : Judges(t) \/ Finalize(t)
      PROVE  item[i] = item'[i] \/ item[i] = "in_progress"
  BY <1>7 DEF Recovers, Moves, Judges, Finalize, itemVars
<1>8. TypeOK
  BY DEF IInv
<1>9. QED
  BY <1>1, <1>2, <1>3, <1>4, <1>5, <1>6, <1>7, <1>8, StepCases

\* A recorded result is final until the user retries or dismisses it, whatever
\* claims, cascades, cancels and recoveries run beside it.
THEOREM ResultsCorrect == Spec => ResultsAreFinal
<1>1. ASSUME IInv, [Next]_vars
      PROVE  [\A i \in Items \ shared :
                /\ item[i] \in {"succeeded", "skipped"} => item'[i] \in {item[i], "none"}
                /\ item[i] = "failed" => \/ item'[i] \in {"failed", "none"}
                                        \/ RetryFailed(JobOf[i])]_vars
  BY <1>1, ResultStep
<1>2. QED
  BY <1>1, Invariance, PTL DEF Spec, ResultsAreFinal

\* Only the user's retry or dismissal takes a job out of a terminal status.
LEMMA TerminalStep ==
    ASSUME TypeOK, NEW j \in Jobs, status[j] \in Terminal, [Next]_vars
    PROVE  status'[j] = status[j] \/ RetryFailed(j) \/ DeleteJob(j)
<1>1. ASSUME NEW k \in Jobs,
             RequestPause(k) \/ RequestResume(k) \/ RequestCancel(k) \/ CreateJob(k)
      PROVE  status'[j] = status[j]
  BY <1>1 DEF RequestPause, RequestResume, RequestCancel, CreateJob,
              TypeOK, JobTypes, Terminal, Unfinished
<1>2. ASSUME NEW k \in Jobs, RetryFailed(k) \/ DeleteJob(k)
      PROVE  status'[j] = status[j] \/ RetryFailed(j) \/ DeleteJob(j)
  BY <1>2 DEF RetryFailed, DeleteJob, TypeOK, JobTypes
<1>3. ASSUME NEW t \in Threads, Claim(t)
      PROVE  status'[j] = status[j]
  BY <1>3 DEF Claim, Terminal
<1>4. ASSUME NEW t \in Threads, Finalize(t)
      PROVE  status'[j] = status[j]
  BY <1>4 DEF Finalize, TypeOK, JobTypes, Terminal, Unfinished
<1>5. ASSUME Recovers \/ Moves \/ \E t \in Threads : Resolves(t) \/ Requeues(t) \/ Judges(t)
      PROVE  status'[j] = status[j]
  BY <1>5 DEF Recovers, Moves, Resolves, Requeues, Judges, jobVars
<1>6. QED
  BY <1>1, <1>2, <1>3, <1>4, <1>5, StepCases

\* A cancel that falls between finalize_job_if_drained's snapshot and its
\* update is not overwritten.
THEOREM TerminalCorrect == Spec => TerminalIsLeftByUser
<1>1. ASSUME TypeOK, [Next]_vars
      PROVE  [\A j \in Jobs : status[j] \in Terminal =>
                status'[j] = status[j] \/ RetryFailed(j) \/ DeleteJob(j)]_vars
  BY <1>1, TerminalStep
<1>2. QED
  BY <1>1, TypeCorrect, PTL DEF Spec, TerminalIsLeftByUser

-----------------------------------------------------------------------------
(* BulkJobs implements Ledger: initial states map to its initial state, and  *)
(* every step to one of its steps or to none.                                *)

\* Where jobs move among the unfinished statuses and items among the open states, the
\* ledger loses at most the jobs in which two workers have met.
LEMMA HiddenStep ==
    ASSUME TypeOK, [Next]_vars,
           \A j \in Jobs : Sound(j)' => Told(j)' = Told(j),
           \A i \in Items : Sound(JobOf[i])' => Result(i)' = Result(i)
    PROVE  Promise!Next
<1> DEFINE J == {j \in Jobs : ~Sound(j)'}
<1>1. ASSUME NEW j \in Jobs
      PROVE  Told(j)' = IF j \in J THEN "void" ELSE Told(j)
  BY DEF Told
<1>2. ASSUME NEW i \in Items
      PROVE  Result(i)' = IF JobOf[i] \in J THEN "none" ELSE Result(i)
  BY OwnerAssumption DEF Result
<1>3. Promise!Void(J) /\ J \in SUBSET Jobs
  BY <1>1, <1>2 DEF Promise!Void
<1>4. QED
  BY <1>3 DEF Promise!Next

\* So it is with a step in a job that was unsound before.
LEMMA UnsoundStep ==
    ASSUME TypeOK, [Next]_vars, NEW j \in Jobs, ~Sound(j),
           \A k \in Jobs : k # j => status'[k] = status[k],
           \A i \in Items : JobOf[i] # j => item'[i] = item[i]
    PROVE  Promise!Next
<1>1. ASSUME NEW k \in Jobs, Sound(k)'
      PROVE  Told(k)' = Told(k)
  BY <1>1, HistoryGrows DEF Told
<1>2. ASSUME NEW i \in Items, Sound(JobOf[i])'
      PROVE  Result(i)' = Result(i)
  <2>1. Sound(JobOf[i])
    BY <1>2, HistoryGrows, OwnerAssumption
  <2>2. QED
    BY <1>2, <2>1 DEF Result
<1>3. QED
  BY <1>1, <1>2, HiddenStep

\* The items of a sound job with a given result, and the open ones, as Ledger sees them.
LEMMA ResultsSeen ==
    ASSUME TypeOK, NEW j \in Jobs, Sound(j)
    PROVE  /\ Promise!Of(j) = ItemsOf(j)
           /\ \A r \in Resolved : Promise!With(j, r) = In(j, r)
           /\ Promise!With(j, "open") = {i \in ItemsOf(j) : item[i] \in Open}
<1>1. Promise!Of(j) = ItemsOf(j)
  BY DEF Promise!Of, ItemsOf
<1>2. ASSUME NEW i \in ItemsOf(j)
      PROVE  Result(i) = IF item[i] \in Open THEN "open" ELSE item[i]
  BY <1>2 DEF Result, ItemsOf
<1>3. ASSUME NEW r \in Resolved PROVE Promise!With(j, r) = In(j, r)
  BY <1>1, <1>2, <1>3 DEF Promise!With, In, ItemsOf, Open, Resolved
<1>4. Promise!With(j, "open") = {i \in ItemsOf(j) : item[i] \in Open}
  <2>1. ASSUME NEW i \in ItemsOf(j) PROVE Result(i) = "open" <=> item[i] \in Open
    BY <1>2, <2>1 DEF ItemsOf, TypeOK, RowTypes, Resolved, Open
  <2>2. QED
    BY <1>1, <2>1 DEF Promise!With, ItemsOf
<1>5. QED
  BY <1>1, <1>3, <1>4

\* One job that changes, with the others as they were, changes one line of the
\* ledger.
LEMMA OneJobTold ==
    ASSUME TypeOK, NEW j \in Jobs, NEW s, status' = [status EXCEPT ![j] = s],
           UNCHANGED history, NEW v, Told(j)' = v
    PROVE  [k \in Jobs |-> Told(k)]' = [[k \in Jobs |-> Told(k)] EXCEPT ![j] = v]
<1>1. ASSUME NEW k \in Jobs, k # j PROVE Told(k)' = Told(k)
  BY <1>1 DEF Told, Sound, Unshared, history, TypeOK, JobTypes
<1>2. QED
  BY <1>1

\* Items of one job that change, seen through the ledger.
LEMMA OneJobResults ==
    ASSUME NEW j \in Jobs, Sound(j), UNCHANGED history, NEW M, M \subseteq ItemsOf(j), NEW s,
           s \notin {"pending", "in_progress"},
           \A i \in Items : item'[i] = IF i \in M THEN s ELSE item[i]
    PROVE  \A i \in Items : Result(i)' = IF i \in M THEN s ELSE Result(i)
BY DEF Result, Sound, Unshared, history, Open, ItemsOf

\* What users do: they submit, cancel, retry and dismiss; a pause is not seen.
LEMMA UserLedger ==
    ASSUME IInv, NEW j \in Jobs,
           \/ CreateJob(j) \/ RequestPause(j) \/ RequestResume(j)
           \/ RequestCancel(j) \/ RetryFailed(j) \/ DeleteJob(j)
    PROVE  Promise!Next
<1> USE DEF IInv
<1>1. [Next]_vars /\ UNCHANGED history
  BY DEF Next, UserStep, CreateJob, RequestPause, RequestResume, RequestCancel, RetryFailed,
     DeleteJob
<1>2. /\ \A k \in Jobs : Sound(k)' <=> Sound(k)
      /\ \A i \in Items : Sound(JobOf[i])' <=> Sound(JobOf[i])
  BY <1>1 DEF Sound, Unshared, history
<1>3. CASE ~Sound(j)
  <2>1. \A k \in Jobs : k # j => status'[k] = status[k]
    BY DEF CreateJob, RequestPause, RequestResume, RequestCancel, RetryFailed, DeleteJob,
       TypeOK, JobTypes
  <2>2. \A i \in Items : JobOf[i] # j => item'[i] = item[i]
    BY DEF CreateJob, RequestPause, RequestResume, RequestCancel, Resolve, RetryFailed,
       DeleteJob, In, ItemsOf, itemVars
  <2>3. QED
    BY <1>1, <1>3, <2>1, <2>2, UnsoundStep
<1>4. ASSUME Sound(j), CreateJob(j) PROVE Promise!Submit(j)
  <2>1. Told(j) = "absent" /\ Told(j)' = "open"
    BY <1>2, <1>4 DEF CreateJob, Told, Unfinished, TypeOK, JobTypes
  <2>2. [k \in Jobs |-> Told(k)]' = [[k \in Jobs |-> Told(k)] EXCEPT ![j] = "open"]
    BY <1>1, <1>4, <2>1, OneJobTold DEF CreateJob
  <2>3. ASSUME NEW i \in Items
        PROVE  Result(i)' = IF i \in Promise!Of(j) THEN "open" ELSE Result(i)
    BY <1>2, <1>4 DEF CreateJob, Result, Open, Promise!Of
  <2> QED
    BY <2>1, <2>2, <2>3 DEF Promise!Submit
<1>5. ASSUME RequestPause(j) \/ RequestResume(j)
      PROVE  Promise!Next
  <2>1. ASSUME NEW k \in Jobs PROVE Told(k)' = Told(k)
    BY <1>2, <1>5 DEF RequestPause, RequestResume, Told, Unfinished, TypeOK, JobTypes
  <2>2. ASSUME NEW i \in Items PROVE Result(i)' = Result(i)
    BY <1>2, <1>5 DEF RequestPause, RequestResume, itemVars, Result
  <2> QED
    BY <1>1, <2>1, <2>2, HiddenStep
<1>6. ASSUME Sound(j), RequestCancel(j)
      PROVE  \E M \in SUBSET Items : Promise!Cancel(j, M)
  <2> DEFINE M == In(j, "pending")
  <2>1. Told(j) = "open" /\ Told(j)' = "cancelled" /\ Exists(j)
    BY <1>2, <1>6 DEF RequestCancel, Told, Exists, Unfinished, TypeOK, JobTypes
  <2>2. [k \in Jobs |-> Told(k)]' = [[k \in Jobs |-> Told(k)] EXCEPT ![j] = "cancelled"]
    BY <1>1, <1>6, <2>1, OneJobTold DEF RequestCancel
  <2>3. M \subseteq Promise!With(j, "open") /\ M \in SUBSET Items /\ M \subseteq ItemsOf(j)
    BY <1>6, ResultsSeen DEF In, ItemsOf, Open
  <2>4. \A i \in Items : item'[i] = IF i \in M THEN "skipped" ELSE item[i]
    BY <1>6, <2>1 DEF RequestCancel, Resolve
  <2>5. \A i \in Items : Result(i)' = IF i \in M THEN "skipped" ELSE Result(i)
    BY <1>1, <1>6, <2>3, <2>4, OneJobResults
  <2>6. Promise!Cancel(j, M)
    BY <2>1, <2>2, <2>3, <2>5 DEF Promise!Cancel
  <2> QED
    BY <2>3, <2>6
<1>7. ASSUME Sound(j), RetryFailed(j) PROVE Promise!Retry(j)
  <2>1. Told(j) \notin {"absent", "gone", "void"} /\ Told(j)' = "open"
    BY <1>2, <1>7 DEF RetryFailed, Exists, Told, Unfinished, TypeOK, JobTypes, Status, Terminal
  <2>2. [k \in Jobs |-> Told(k)]' = [[k \in Jobs |-> Told(k)] EXCEPT ![j] = "open"]
    BY <1>1, <1>7, <2>1, OneJobTold DEF RetryFailed
  <2>3. Promise!With(j, "failed") = In(j, "failed")
    BY <1>7, ResultsSeen DEF Resolved
  <2>4. ASSUME NEW i \in Items
        PROVE  Result(i)' = IF i \in In(j, "failed") THEN "open" ELSE Result(i)
    BY <1>2, <1>7 DEF RetryFailed, Result, Open, In, ItemsOf
  <2>5. In(j, "failed") # {}
    BY <1>7 DEF RetryFailed
  <2> QED
    BY <2>1, <2>2, <2>3, <2>4, <2>5 DEF Promise!Retry
<1>8. ASSUME Sound(j), DeleteJob(j) PROVE Promise!Dismiss(j)
  <2>1. Told(j) \in {"completed", "failed", "cancelled"} /\ Told(j)' = "gone"
    BY <1>2, <1>8 DEF DeleteJob, Told, Unfinished, Terminal, TypeOK, JobTypes
  <2>2. [k \in Jobs |-> Told(k)]' = [[k \in Jobs |-> Told(k)] EXCEPT ![j] = "gone"]
    BY <1>1, <1>8, <2>1, OneJobTold DEF DeleteJob
  <2>3. ASSUME NEW i \in Items
        PROVE  Result(i)' = IF i \in Promise!Of(j) THEN "none" ELSE Result(i)
    BY <1>2, <1>8 DEF DeleteJob, Result, Open, Promise!Of
  <2> QED
    BY <2>1, <2>2, <2>3 DEF Promise!Dismiss
<1> QED
  BY <1>3, <1>4, <1>5, <1>6, <1>7, <1>8 DEF Promise!Next

\* A thread that resolves its item, or with it what is left of its job, gives open
\* items of a job without a verdict their result; in a dismissed job, nothing.
LEMMA ResolvesSettles ==
    ASSUME IInv, [Next]_vars, NEW t \in Threads, Resolves(t) PROVE Promise!Next
<1> USE DEF IInv
<1>1. PICK j \in Jobs : j = JobOf[held[t]] /\ held[t] \in Items /\ pc[t] \in Working
  BY OwnerAssumption DEF Resolves, BusyThreadHoldsItem, Busy, Working
<1>2. PICK r \in Resolved, M \in {{held[t]}, {held[t]} \cup In(j, "pending")} :
        Resolve(M, j, r)
  BY <1>1 DEF Resolves
<1>3. UNCHANGED <<status, history>>
  BY DEF Resolves
<1>4. M \subseteq ItemsOf(j)
  BY <1>1, <1>2 DEF In, ItemsOf
<1>5. CASE ~Sound(j)
  <2>1. \A i \in Items : JobOf[i] # j => item'[i] = item[i]
    BY <1>2, <1>4 DEF Resolve, ItemsOf
  <2>2. QED
    BY <1>3, <1>5, <2>1, UnsoundStep
<1>6. ASSUME NEW k \in Jobs PROVE Told(k)' = Told(k)
  BY <1>3 DEF Told, Sound, Unshared, history
<1>7. CASE Sound(j) /\ ~Exists(j)
  <2>1. ASSUME NEW i \in Items PROVE Result(i)' = Result(i)
    BY <1>2, <1>3, <1>7 DEF Resolve, Result, Sound, Unshared, history
  <2> QED
    BY <1>6, <2>1, HiddenStep
<1>8. CASE Sound(j) /\ Exists(j)
  <2>1. item[held[t]] = "in_progress" /\ status[j] \notin {"absent", "completed", "failed"}
    BY <1>1, <1>8 DEF RowsFollowJobs, ClaimIsExclusive, WorkedOnIsOpen, Sound, Unshared, Exists
  <2>2. M \subseteq {i \in ItemsOf(j) : item[i] \in Open} /\ M \in SUBSET Items
    BY <1>1, <1>2, <2>1 DEF In, ItemsOf, Open
  <2>3. M \subseteq Promise!With(j, "open")
    BY <1>8, <2>2, ResultsSeen
  <2>4. Told(j) \in {"open", "cancelled"}
    BY <1>8, <2>1 DEF Told, Exists, TypeOK, JobTypes, Status, Terminal
  <2>5. \A i \in Items : item'[i] = IF i \in M THEN r ELSE item[i]
    BY <1>2, <1>8 DEF Resolve
  <2>6. r \notin {"pending", "in_progress"}
    BY DEF Resolved
  <2>7. \A i \in Items : Result(i)' = IF i \in M THEN r ELSE Result(i)
    BY <1>3, <1>4, <1>8, <2>5, <2>6, OneJobResults
  <2>8. Promise!Settle(j, M, r)
    BY <1>6, <2>3, <2>4, <2>7 DEF Promise!Settle
  <2> QED
    BY <2>2, <2>8 DEF Promise!Next, Resolved
<1> QED
  BY <1>5, <1>7, <1>8

\* A thread that puts its item back is not seen.
LEMMA RequeueUnseen ==
    ASSUME IInv, [Next]_vars, NEW t \in Threads, Requeues(t) PROVE Promise!Next
<1> USE DEF IInv
<1>1. PICK j \in Jobs : j = JobOf[held[t]] /\ held[t] \in Items /\ pc[t] \in Working
  BY OwnerAssumption DEF Requeues, BusyThreadHoldsItem, Busy, Working
<1>2. UNCHANGED <<status, history>> /\ \A i \in Items : i # held[t] => item'[i] = item[i]
  BY DEF Requeues, Requeue, TypeOK, RowTypes
<1>3. CASE ~Sound(j)
  BY <1>1, <1>2, <1>3, UnsoundStep
<1>4. CASE Sound(j)
  <2>1. ASSUME NEW k \in Jobs PROVE Told(k)' = Told(k)
    BY <1>2 DEF Told, Sound, Unshared, history
  <2>2. item[held[t]] \in {"in_progress", "none"} /\ (Exists(j) => item[held[t]] # "none")
    BY <1>1, <1>4 DEF ClaimIsExclusive, RowsFollowJobs, Sound, Unshared
  <2>3. item'[held[t]] \in Open \/ item'[held[t]] = item[held[t]]
    BY <1>1 DEF Requeues, Requeue, Open, TypeOK, RowTypes
  <2>4. Exists(j) => item[held[t]] \in Open
    BY <2>2 DEF Open
  <2>5. ~Exists(j) => item'[held[t]] = item[held[t]]
    BY <1>1 DEF Requeues, Requeue
  <2>6. ASSUME NEW i \in Items PROVE Result(i)' = Result(i)
    BY <1>2, <2>3, <2>4, <2>5 DEF Result, Sound, Unshared, history
  <2> QED
    BY <2>1, <2>6, HiddenStep
<1> QED
  BY <1>3, <1>4

\* The update of finalize_job_if_drained is the verdict, unless the user has settled
\* the job since the snapshot.
LEMMA FinalizeDecides ==
    ASSUME IInv, [Next]_vars, NEW t \in Threads, Finalize(t) PROVE Promise!Next
<1> USE DEF IInv
<1>1. JobOf[held[t]] \in Jobs /\ note[t] \in {"completed", "failed"}
  BY OwnerAssumption DEF Finalize, BusyThreadHoldsItem, Busy, VerdictReady
<1> PICK j \in Jobs, v \in {"completed", "failed"} : j = JobOf[held[t]] /\ v = note[t]
  BY <1>1
<1>2. /\ UNCHANGED history /\ item' = item
      /\ \A k \in Jobs : k # j => status'[k] = status[k]
  BY DEF Finalize, itemVars, TypeOK, JobTypes
<1>3. CASE ~Sound(j)
  BY <1>2, <1>3, UnsoundStep
<1>4. ASSUME NEW i \in Items PROVE Result(i)' = Result(i)
  BY <1>2 DEF Result, Sound, Unshared, history
<1>5. CASE status[j] \notin Unfinished
  <2>1. ASSUME NEW k \in Jobs PROVE Told(k)' = Told(k)
    BY <1>2, <1>5 DEF Finalize, Told, Sound, Unshared, history
  <2> QED
    BY <1>4, <2>1, HiddenStep
<1>6. CASE Sound(j) /\ status[j] \in Unfinished
  <2>1. status' = [status EXCEPT ![j] = v]
    BY <1>6 DEF Finalize
  <2>2. Told(j) = "open" /\ Told(j)' = v
    BY <1>2, <1>6, <2>1 DEF Told, Sound, Unshared, history, Unfinished, TypeOK, JobTypes
  <2>3. [k \in Jobs |-> Told(k)]' = [[k \in Jobs |-> Told(k)] EXCEPT ![j] = v]
    BY <1>2, <2>1, <2>2, OneJobTold
  <2>4. ASSUME NEW r \in Resolved PROVE count[j][r] = 0 <=> Promise!With(j, r) = {}
    <3>1. count[j][r] = Cardinality(In(j, r)) /\ IsFiniteSet(In(j, r))
      BY <1>6, ItemSetsFinite DEF CountersMatchItems, In, ItemsOf, Sound
    <3> QED
      BY <1>6, <3>1, FS_EmptySet, ResultsSeen
  <2>5. count[j]["succeeded"] \in Nat
    BY DEF TypeOK, CountTypes, Resolved
  <2>6. /\ v = "failed" => Promise!With(j, "succeeded") = {}
        /\ v = "completed" => \/ Promise!With(j, "failed") = {}
                              \/ Promise!With(j, "succeeded") # {}
    BY <1>6, <2>4, <2>5 DEF Finalize, VerdictReady, Resolved
  <2>7. Promise!Decide(j, v)
    BY <1>4, <2>2, <2>3, <2>6 DEF Promise!Decide
  <2> QED
    BY <2>7 DEF Promise!Next
<1> QED
  BY <1>3, <1>5, <1>6

\* A claim is not seen, nor is a boot that puts back what dead threads held; of jobs
\* in which threads met, nothing is promised any more.
LEMMA ClaimUnseen ==
    ASSUME IInv, [Next]_vars, (\E t \in Threads : Claim(t)) \/ Recovers PROVE Promise!Next
<1> USE DEF IInv
<1>1. ASSUME NEW k \in Jobs, Sound(k)' PROVE Told(k)' = Told(k)
  <2>1. Sound(k)
    BY <1>1, HistoryGrows
  <2>2. \/ status'[k] = status[k]
        \/ status[k] \in Unfinished /\ status'[k] \in Unfinished
    BY DEF Claim, Recovers, jobVars, Unfinished
  <2>3. QED
    BY <1>1, <2>1, <2>2 DEF Told, Unfinished
<1>2. ASSUME NEW i \in Items, Sound(JobOf[i])' PROVE Result(i)' = Result(i)
  <2>1. Sound(JobOf[i])
    BY <1>2, HistoryGrows, OwnerAssumption
  <2>2. \/ item'[i] = item[i]
        \/ item[i] \in Open /\ item'[i] \in Open
    BY DEF Claim, Claimable, Recovers, Open, TypeOK, RowTypes
  <2>3. QED
    BY <1>2, <2>1, <2>2 DEF Result
<1> QED
  BY <1>1, <1>2, HiddenStep

\* Every step.
LEMMA StepLedger ==
    ASSUME IInv, [Next]_vars PROVE Promise!Next
<1>1. ASSUME Moves \/ \E t \in Threads : Judges(t) PROVE Promise!Next
  <2>1. UNCHANGED <<status, item, history>>
    BY <1>1 DEF Moves, Judges, jobVars, itemVars
  <2>2. ASSUME NEW k \in Jobs PROVE Told(k)' = Told(k)
    BY <2>1 DEF Told, Sound, Unshared, history
  <2>3. ASSUME NEW i \in Items PROVE Result(i)' = Result(i)
    BY <2>1 DEF Result, Sound, Unshared, history
  <2>4. QED
    BY <2>2, <2>3, HiddenStep DEF IInv
<1> QED
  BY <1>1, StepCases, UserLedger, ResolvesSettles, RequeueUnseen, FinalizeDecides, ClaimUnseen
     DEF IInv

\* BulkJobs implements Ledger: under any interleaving of handlers, threads, failed
\* commits, crashes and boots, each item of a job gets one result, none after the
\* verdict, the verdict agrees with the items, and only the user reopens it, in every
\* job in which no two workers' threads have met.
THEOREM BulkJobsImplementLedger == Spec => ImplementsLedger
<1>1. Init => Promise!Init
  BY DEF Init, Promise!Init, Told, Result, Sound, Unshared, Unfinished, Open
<1>2. IInv /\ [Next]_vars => [Promise!Next]_(Promise!vars)
  BY StepLedger
<1> QED
  BY <1>1, <1>2, Invariance, PTL DEF Spec, ImplementsLedger, Promise!Spec
=============================================================================
