-------------------------- MODULE DeltaSyncProofs --------------------------
(***************************************************************************)
(* Proofs about DeltaSync, for every set of mails, limit and set of        *)
(* faults.  Types hold for any number of workers; what is lost, and who is *)
(* answered, is known as long as one worker at a time syncs the account.   *)
(* Planned says what a sync in hand knows of the events it fetched: each   *)
(* is passed over, is behind the checkpoint already, or will be mirrored   *)
(* by its commit.                                                          *)
(***************************************************************************)
EXTENDS DeltaSync, TLAPS

\* A worker that reads the history has a checkpoint to read it from.
DeltaHasCheckpoint == \A w \in Workers : job[w].pc = "delta" => cp # Absent

\* A job speaks of events that have been.
Bounded == \A w \in Workers : job[w].fetched <= Len(log) /\ Absent <= job[w].next

Typed == TypeOK /\ DeltaHasCheckpoint /\ Bounded

\* A mail arrives once.
LogOnce == \A i, j \in DOMAIN log : log[i][1] = "new" /\ log[i] = log[j] => i = j

\* What a sync has fetched and not committed.
InHand(j) == j.pc \in {"history", "store", "mark"}

\* Its commit mirrors the event i.
Handled(j, i) ==
    IF log[i][1] = "new"
      THEN log[i][2] \in j.left \cup j.ins \cup rows \cup Of("gone", Happened)
      ELSE log[i][2] \in j.del \/ log[i][2] \notin rows \cup j.left \cup j.ins

Planned(j) ==
    /\ j.fetched <= Len(log)
    /\ j.way = "delta" => cp # Absent /\ cp <= j.fetched /\ j.next = j.fetched
    /\ \A i \in 1..j.fetched : i \in j.lax \/ (j.way = "delta" /\ i <= cp) \/ Handled(j, i)
    /\ j.del \subseteq Of("gone", Happened)
    /\ \A i \in 1..j.fetched : log[i][1] = "gone" => log[i][2] \notin j.left \cup j.ins

\* Nothing is in the session before the batch is stored, or after its commit.
Clean(j) ==
    /\ ~InHand(j) => j.left = {}
    /\ j.pc # "store" => j.ins = {} /\ j.del = {} /\ j.staged = {}
    /\ j.pc = "mark" => j.way = "delta" /\ j.left = {}
    /\ j.pc = "history" => j.way = "stamp"
    /\ j.pc # "idle" => j.since = at

\* Nobody who is old gets an answer: his mail arrived before the time of the last sync
\* and before the checkpoint.
OldKnown ==
    /\ \A m \in old : \E i \in DOMAIN log :
         log[i] = <<"new", m>> /\ i <= at /\ (cp # Absent => i <= cp)
    /\ at = Absent => cp = Absent /\ old = {} /\ replied = {}
Unanswered(j) ==
    /\ (j.left \cup j.staged) \cap old = {}
    /\ at = Absent => j.staged = {} /\ (j.pc = "store" => ~j.answer)
    /\ j.pc \in {"store", "mark"} /\ j.next # Absent =>
         j.fetched <= j.next /\ Seen(cp, at) <= j.next

JobInv(j) == Clean(j) /\ (InHand(j) => Planned(j)) /\ Unanswered(j)
Inv ==
    /\ Typed /\ LogOnce /\ LossesAreKnown /\ OldMailIsNotAnswered /\ OldKnown
    /\ \A w \in Workers : JobInv(job[w])

-----------------------------------------------------------------------------
(* Types. *)

\* The events of the log.
LEMMA LogFacts ==
    ASSUME TypeOK
    PROVE  /\ Len(log) \in Nat /\ Happened = 1..Len(log)
           /\ \A i \in Happened : log[i] \in Events /\ log[i][1] \in {"new", "gone"}
                                  /\ log[i][2] \in Mails
           /\ \A kind \in {"new", "gone"}, S \in SUBSET Happened : Of(kind, S) \subseteq Mails
           /\ Present \subseteq Mails
           /\ \A n : From(n) \subseteq Happened
           /\ \A kind, S : Index(kind, S) \subseteq Happened
PROOF
<1>1. Len(log) \in Nat /\ Happened = 1..Len(log)
  BY DEF TypeOK, Happened
<1>2. \A i \in Happened : log[i] \in Events /\ log[i][1] \in {"new", "gone"} /\ log[i][2] \in Mails
  BY <1>1 DEF TypeOK, Events
<1>3. \A kind \in {"new", "gone"}, S \in SUBSET Happened : Of(kind, S) \subseteq Mails
  BY <1>2 DEF Of
<1>4. Present \subseteq Mails
  BY <1>2 DEF Present, Of
<1> QED
  BY <1>1, <1>2, <1>3, <1>4 DEF From, Index

\* A commit keeps the types, with a checkpoint and a time that have been.
LEMMA CommitTypes ==
    ASSUME TypeOK, NEW w \in Workers, NEW c \in Absent..Len(log), NEW t \in Absent..Len(log),
           Commit(w, c, t)
    PROVE  /\ rows' \subseteq Mails /\ cp' = c /\ at' = t
           /\ remembered' \subseteq Mails /\ replied' \subseteq Mails
           /\ gap' \subseteq DOMAIN log
PROOF
<1>1. job[w].ins \subseteq Mails /\ job[w].staged \subseteq Mails
  BY DEF TypeOK, Job
<1> QED
  BY <1>1 DEF TypeOK, Commit, Drain, Happened

\* The worker at rest, and the session after a rollback.
LEMMA IdleFacts ==
    /\ Idle \in Job /\ Idle.pc = "idle" /\ Idle.way = "stamp" /\ Idle.since = Absent
    /\ Idle.fetched = 0 /\ Idle.next = Absent /\ Idle.left = {} /\ Idle.ins = {}
    /\ Idle.del = {} /\ Idle.answer = FALSE /\ Idle.staged = {} /\ Idle.lax = {}
  BY DEF Idle, Job, Absent

After(w, pc) == [RolledBack(w) EXCEPT !.pc = pc]

LEMMA AfterFacts ==
    ASSUME NEW w, job[w] \in Job, NEW pc \in {"fetch", "mark"}
    PROVE  /\ After(w, pc) \in Job /\ After(w, pc).pc = pc
           /\ After(w, pc).ins = {} /\ After(w, pc).del = {} /\ After(w, pc).staged = {}
           /\ After(w, pc).left = {} /\ After(w, pc).since = job[w].since
           /\ After(w, pc).next = job[w].next /\ After(w, pc).way = job[w].way
           /\ After(w, pc).fetched = job[w].fetched /\ After(w, pc).lax = job[w].lax
           /\ After(w, pc).answer = job[w].answer
PROOF
<1> DEFINE r == RolledBack(w)
<1>1. /\ r \in Job /\ r.since = job[w].since /\ r.next = job[w].next /\ r.way = job[w].way
      /\ r.fetched = job[w].fetched /\ r.lax = job[w].lax /\ r.answer = job[w].answer
      /\ r.ins = {} /\ r.del = {} /\ r.staged = {} /\ r.left = {}
  BY DEF RolledBack, Job
<1> HIDE DEF r
<1>2. After(w, pc) = [r EXCEPT !.pc = pc]
  BY DEF After, r
<1> QED
  BY <1>1, <1>2 DEF Job

\* A new job for one worker keeps the types, if its own are right.
LEMMA SetTypes ==
    ASSUME Typed, NEW w \in Workers, NEW j \in Job, Set(w, j),
           j.since <= Len(log), j.next <= Len(log), j.pc = "delta" => cp # Absent,
           j.fetched <= Len(log), Absent <= j.next,
           log' = log, rows' \subseteq Mails, cp' \in Absent..Len(log), at' \in Absent..Len(log),
           cp # Absent => cp' # Absent,
           remembered' \subseteq Mails, replied' \subseteq Mails, old' \subseteq Mails,
           gap' \subseteq DOMAIN log, faults' \in 0..MaxFaults
    PROVE  Typed'
PROOF
<1>1. job' \in [Workers -> Job] /\ job'[w] = j /\ \A v \in Workers \ {w} : job'[v] = job[v]
  BY DEF Typed, TypeOK, Set
<1>2. TypeOK'
  BY <1>1 DEF Typed, TypeOK
<1>3. DeltaHasCheckpoint'
  BY <1>1 DEF Typed, DeltaHasCheckpoint
<1>4. Bounded'
  BY <1>1 DEF Typed, Bounded
<1> QED
  BY <1>2, <1>3, <1>4 DEF Typed

\* What a fault costs.
LEMMA FaultTypes ==
    ASSUME TypeOK
    PROVE  /\ \A kind : Fault(kind) => faults' \in 0..MaxFaults
           /\ NoFault => faults' \in 0..MaxFaults
  BY DeltaAssumption DEF TypeOK, Fault, NoFault

-----------------------------------------------------------------------------
(* What the steps of a worker do to its job. *)

LEMMA BeginFacts ==
    ASSUME Typed, NEW w \in Workers, Begin(w)
    PROVE  \E j \in Job :
             /\ Set(w, j) /\ j.since = at /\ j.next = Absent /\ j.fetched = 0
             /\ j.pc = IF cp = Absent THEN "fetch" ELSE "delta"
             /\ j.left = {} /\ j.ins = {} /\ j.del = {} /\ j.staged = {}
             /\ UNCHANGED <<log, rows, cp, at, remembered, replied, gap, old, faults>>
PROOF
<1> DEFINE j == [Idle EXCEPT !.since = at, !.pc = IF cp = Absent THEN "fetch" ELSE "delta"]
<1>1. at \in Int
  BY DEF Typed, TypeOK, Absent
<1>2. /\ j \in Job /\ j.since = at /\ j.pc = IF cp = Absent THEN "fetch" ELSE "delta"
      /\ j.left = {} /\ j.ins = {} /\ j.del = {} /\ j.staged = {} /\ j.next = Absent
      /\ j.fetched = 0
  BY <1>1, IdleFacts DEF Job
<1> QED
  BY <1>2 DEF Begin, mirror

\* The job with what the history gave: removals D, new mails L, events X passed over.
Got(w, D, L, X) ==
    [job[w] EXCEPT !.pc = "store", !.way = "delta", !.fetched = Len(log),
                   !.next = Len(log), !.answer = TRUE, !.del = D, !.left = L, !.lax = X]

LEMMA GotFacts ==
    ASSUME NEW w, job[w] \in Job, Len(log) \in Nat, NEW D \in SUBSET Mails,
           NEW L \in SUBSET Mails, NEW X \in SUBSET Nat
    PROVE  /\ Got(w, D, L, X) \in Job /\ Got(w, D, L, X).pc = "store"
           /\ Got(w, D, L, X).way = "delta"
           /\ Got(w, D, L, X).fetched = Len(log) /\ Got(w, D, L, X).next = Len(log)
           /\ Got(w, D, L, X).del = D /\ Got(w, D, L, X).left = L /\ Got(w, D, L, X).lax = X
           /\ Got(w, D, L, X).since = job[w].since /\ Got(w, D, L, X).ins = job[w].ins
           /\ Got(w, D, L, X).staged = job[w].staged
PROOF
<1> DEFINE n == Len(log)
           j1 == [job[w] EXCEPT !.pc = "store", !.way = "delta", !.fetched = n, !.next = n]
<1>1. n \in Nat /\ n \in Int
  OBVIOUS
<1> HIDE DEF n
<1>2. /\ j1 \in Job /\ j1.pc = "store" /\ j1.way = "delta" /\ j1.fetched = n /\ j1.next = n
      /\ j1.since = job[w].since /\ j1.ins = job[w].ins /\ j1.staged = job[w].staged
  BY <1>1 DEF Job
<1>3. Got(w, D, L, X) = [j1 EXCEPT !.answer = TRUE, !.del = D, !.left = L, !.lax = X]
  BY DEF Got, n
<1> HIDE DEF j1
<1> QED
  BY <1>2, <1>3 DEF Job, n

\* The history: every event behind the checkpoint is fetched or passed over; after a
\* transient error nothing is; otherwise the mails are fetched.
LEMMA HistoryFacts ==
    ASSUME Typed, LogOnce, NEW w \in Workers, History(w)
    PROVE  \E j \in Job :
             /\ job[w].pc = "delta" /\ Set(w, j) /\ j.since = job[w].since
             /\ j.ins = job[w].ins /\ j.staged = job[w].staged
             /\ UNCHANGED <<log, rows, cp, at, remembered, replied, gap, old>>
             /\ faults' \in 0..MaxFaults
             /\ \/ /\ j.pc = "store" /\ j.way = "delta"
                   /\ j.fetched = Len(log) /\ j.next = Len(log)
                   /\ j.del = Of("gone", From(cp))
                   /\ j.left \subseteq Of("new", From(cp)) \cap Present
                   /\ \A i \in From(cp) : log[i][1] = "new" /\ log[i][2] \in Present =>
                        i \in j.lax \/ log[i][2] \in j.left
                \/ /\ j.pc = "store" /\ j.way = "delta"
                   /\ j.fetched = cp /\ j.next = cp
                   /\ j.del = job[w].del /\ j.left = job[w].left
                \/ /\ j.pc = "fetch" /\ j.next = job[w].next /\ j.fetched = job[w].fetched
                   /\ j.del = job[w].del /\ j.left = job[w].left
PROOF
<1> DEFINE since == From(cp)
           added == Index("new", Of("new", since)) \cap since
           first == {i \in added : Cardinality({j \in added : j < i}) < LIMIT}
           got == Got(w, Of("gone", since), Of("new", first) \cap Present, added \ first)
<1> USE DEF Typed
<1>1. /\ job[w] \in Job /\ Len(log) \in Nat /\ cp \in Nat
      /\ since \subseteq Happened /\ first \subseteq added /\ added \subseteq since
      /\ Happened \subseteq Nat
  <2>1. job[w].pc = "delta"
    BY DEF History
  <2>2. cp \in Nat
    BY <2>1 DEF TypeOK, DeltaHasCheckpoint, Absent
  <2> QED
    BY <2>2, LogFacts DEF TypeOK
<1>2. /\ Of("gone", since) \in SUBSET Mails /\ Of("new", first) \cap Present \in SUBSET Mails
      /\ added \ first \in SUBSET Nat
  <2>1. Of("gone", since) \subseteq Mails
    BY <1>1, LogFacts
  <2> QED
    BY <1>1, <2>1, LogFacts
<1>3. \A i \in since : log[i][1] = "new" => i \in added
  BY <1>1 DEF Index, Of
<1>4. Of("new", first) \subseteq Of("new", since)
  BY <1>1 DEF Of
<1>5. /\ \A i \in first : log[i][1] = "new" => log[i][2] \in Of("new", first)
      /\ \A i \in first : log[i][1] = "new"
  BY DEF Of, Index
<1>6. \/ Set(w, got) /\ NoFault
      \/ \E i \in first :
           /\ Fault("unreadable")
           /\ Set(w, [got EXCEPT !.left = @ \ {log[i][2]}, !.lax = @ \cup {i}])
      \/ /\ Fault("transient")
         /\ Set(w, [job[w] EXCEPT !.pc = "store", !.way = "delta", !.fetched = cp,
                      !.next = cp, !.answer = TRUE])
      \/ /\ Fault("expired") \/ Fault("broken")
         /\ Set(w, [job[w] EXCEPT !.pc = "fetch"])
  BY Zenon DEF History, Got
<1>7. /\ UNCHANGED <<log, rows, cp, at, remembered, replied, gap, old>> /\ job[w].pc = "delta"
      /\ faults' \in 0..MaxFaults
  <2>1. UNCHANGED <<log, rows, cp, at, remembered, replied, gap, old>> /\ job[w].pc = "delta"
    BY DEF History, mirror
  <2> QED
    BY <1>6, <2>1, FaultTypes
<1> DEFINE lefts == Of("new", first) \cap Present
           dels == Of("gone", since)
           laxes == added \ first
           lost(i) == [got EXCEPT !.left = @ \ {log[i][2]}, !.lax = @ \cup {i}]
           same == [job[w] EXCEPT !.pc = "store", !.way = "delta", !.fetched = cp,
                      !.next = cp, !.answer = TRUE]
           back == [job[w] EXCEPT !.pc = "fetch"]
<1>8. \A i \in since : log[i][1] = "new" /\ log[i][2] \in Present => i \in laxes \/ log[i][2] \in lefts
  BY <1>3, <1>5
<1>9. lefts \subseteq Of("new", since) \cap Present
  BY <1>4
<1>10. dels \in SUBSET Mails /\ lefts \in SUBSET Mails /\ laxes \in SUBSET Nat /\ first \subseteq Nat
  BY <1>1, <1>2
<1>11. /\ got \in Job /\ got.pc = "store" /\ got.way = "delta" /\ got.fetched = Len(log)
       /\ got.next = Len(log) /\ got.del = dels /\ got.left = lefts /\ got.lax = laxes
       /\ got.since = job[w].since /\ got.ins = job[w].ins /\ got.staged = job[w].staged
  <2>1. got = Got(w, dels, lefts, laxes)
    OBVIOUS
  <2> HIDE DEF got, since, added, first, lefts, dels, laxes
  <2> QED
    <3>1. job[w] \in Job /\ Len(log) \in Nat
      BY <1>1
    <3> QED
      BY ONLY <1>10, <2>1, <3>1, GotFacts
<1>12. CASE Set(w, got)
  <2> HIDE DEF since, added, first, lefts, laxes, got
  <2> QED
    BY <1>7, <1>8, <1>9, <1>11, <1>12 DEF since
<1>13. ASSUME NEW i \in first, Set(w, lost(i))
       PROVE  \E j \in Job :
             /\ job[w].pc = "delta" /\ Set(w, j) /\ j.since = job[w].since
             /\ j.ins = job[w].ins /\ j.staged = job[w].staged
             /\ j.pc = "store" /\ j.way = "delta"
             /\ j.fetched = Len(log) /\ j.next = Len(log)
             /\ j.del = Of("gone", From(cp))
             /\ j.left \subseteq Of("new", From(cp)) \cap Present
             /\ \A k \in From(cp) : log[k][1] = "new" /\ log[k][2] \in Present =>
                  k \in j.lax \/ log[k][2] \in j.left
  <2>1. /\ lost(i) \in Job /\ lost(i).pc = "store" /\ lost(i).way = "delta"
        /\ lost(i).fetched = Len(log) /\ lost(i).next = Len(log) /\ lost(i).del = dels
        /\ lost(i).left = lefts \ {log[i][2]} /\ lost(i).lax = laxes \cup {i}
        /\ lost(i).since = job[w].since /\ lost(i).ins = job[w].ins
        /\ lost(i).staged = job[w].staged
    <3> HIDE DEF got, lefts, laxes, dels, first, since, added
    <3> QED
      BY <1>10, <1>11 DEF Job
  <2>2. \A k \in since : log[k][1] = "new" /\ log[k][2] = log[i][2] => k = i
    <3> SUFFICES ASSUME NEW k \in since, log[k][1] = "new", log[k][2] = log[i][2] PROVE k = i
      OBVIOUS
    <3>1. log[i][1] = "new" /\ i \in Happened /\ k \in Happened
      BY <1>1, <1>5
    <3>2. log[i] \in Events /\ log[k] \in Events
      BY <3>1, LogFacts
    <3>3. log[k] = log[i]
      BY <3>1, <3>2 DEF Events
    <3> QED
      BY <3>1, <3>3 DEF LogOnce, Happened
  <2> HIDE DEF since, added, first, lefts, laxes, got, lost
  <2>3. \A k \in since : log[k][1] = "new" /\ log[k][2] \in Present =>
                  k \in lost(i).lax \/ log[k][2] \in lost(i).left
    BY <1>8, <2>1, <2>2
  <2> QED
    BY <1>7, <1>9, <1>13, <2>1, <2>3 DEF since
<1>14. /\ same \in Job /\ same.pc = "store" /\ same.way = "delta" /\ same.fetched = cp
       /\ same.next = cp /\ same.del = job[w].del /\ same.left = job[w].left
       /\ same.since = job[w].since /\ same.ins = job[w].ins /\ same.staged = job[w].staged
  <2>1. job[w] \in Job /\ cp \in Nat /\ cp \in Int
    BY <1>1
  <2> QED
    BY ONLY <2>1 DEF Job, same
<1>15. CASE Set(w, same)
  <2> HIDE DEF same
  <2> QED
    BY <1>7, <1>14, <1>15
<1>16. /\ back \in Job /\ back.pc = "fetch" /\ back.next = job[w].next
       /\ back.fetched = job[w].fetched
       /\ back.del = job[w].del /\ back.left = job[w].left
       /\ back.since = job[w].since /\ back.ins = job[w].ins /\ back.staged = job[w].staged
  BY <1>1 DEF Job
<1>17. CASE Set(w, back)
  <2> HIDE DEF back
  <2> QED
    BY <1>7, <1>16, <1>17
<1> HIDE DEF since, added, first, lefts, laxes, got, lost, same, back
<1>18. Set(w, got) \/ (\E i \in first : Set(w, lost(i))) \/ Set(w, same) \/ Set(w, back)
  BY <1>6 DEF lost, same, back
<1>19. CASE \E i \in first : Set(w, lost(i))
  BY <1>7, <1>13, <1>19
<1> QED
  BY <1>12, <1>15, <1>17, <1>18, <1>19

\* The fetch: every event is passed over, or it is a mail that is fetched or gone.
LEMMA FetchFacts ==
    ASSUME Typed, LogOnce, NEW w \in Workers, Fetch(w)
    PROVE  \E j \in Job :
             /\ job[w].pc = "fetch" /\ Set(w, j)
             /\ UNCHANGED <<log, rows, cp, at, remembered, replied, gap, old>>
             /\ faults' \in 0..MaxFaults
             /\ \/ j = Idle
                \/ /\ j.pc = "history" /\ j.way = "stamp" /\ j.since = job[w].since
                   /\ j.fetched = Len(log) /\ j.next = job[w].next
                   /\ j.ins = job[w].ins /\ j.del = job[w].del /\ j.staged = job[w].staged
                   /\ j.left \subseteq Of("new", From(job[w].since)) \cap Present
                   /\ \A i \in Happened :
                        i \in j.lax \/ (log[i][1] = "new" /\ log[i][2] \in j.left)
                                    \/ (log[i][1] = "new" /\ log[i][2] \notin Present)
PROOF
<1> DEFINE since == From(job[w].since)
           there == Index("new", Present) \cap since
           last == {i \in there : Cardinality({j \in there : j > i}) < LIMIT}
           lefts == Of("new", last)
           laxes == (Happened \ since) \cup (there \ last) \cup Index("gone", Mails)
           j1 == [job[w] EXCEPT !.pc = "history", !.way = "stamp", !.fetched = Len(log),
                                !.left = lefts, !.lax = laxes]
           lost(i) == [j1 EXCEPT !.left = @ \ {log[i][2]}, !.lax = @ \cup {i}]
<1> USE DEF Typed
<1>1. /\ UNCHANGED <<log, rows, cp, at, remembered, replied, gap, old>> /\ job[w].pc = "fetch"
      /\ \/ NoFault /\ Set(w, j1)
         \/ \E i \in last : Fault("unreadable") /\ Set(w, lost(i))
         \/ Fault("broken") /\ Set(w, Idle)
  BY Zenon DEF Fetch, mirror
<1>2. faults' \in 0..MaxFaults
  BY <1>1, FaultTypes
<1>3. job[w] \in Job /\ Len(log) \in Nat /\ Happened \subseteq Nat
  BY LogFacts DEF TypeOK
<1>4. last \subseteq there /\ there \subseteq since /\ since \subseteq Happened
  BY LogFacts
<1>5. lefts \in SUBSET Mails /\ laxes \in SUBSET Nat
  <2>1. lefts \subseteq Mails
    BY <1>4, LogFacts
  <2>2. Index("gone", Mails) \subseteq Nat
    BY <1>3, LogFacts
  <2> QED
    BY <1>3, <1>4, <2>1, <2>2
<1>6. lefts \subseteq Of("new", since) \cap Present
  BY <1>4 DEF Of, Index
<1>7. \A i \in Happened :
        i \in laxes \/ (log[i][1] = "new" /\ log[i][2] \in lefts)
                    \/ (log[i][1] = "new" /\ log[i][2] \notin Present)
  <2> SUFFICES ASSUME NEW i \in Happened, i \notin laxes
               PROVE  log[i][1] = "new" /\ (log[i][2] \in lefts \/ log[i][2] \notin Present)
    OBVIOUS
  <2>1. log[i][1] = "new" /\ i \in since
    BY LogFacts DEF Index
  <2>2. log[i][2] \in Present => i \in last
    BY <2>1 DEF Index
  <2> QED
    BY <2>1, <2>2 DEF Of
<1> HIDE DEF since, there, last, lefts, laxes
<1>8. /\ j1 \in Job /\ j1.pc = "history" /\ j1.way = "stamp" /\ j1.fetched = Len(log)
      /\ j1.left = lefts /\ j1.lax = laxes /\ j1.since = job[w].since /\ j1.next = job[w].next
      /\ j1.ins = job[w].ins /\ j1.del = job[w].del /\ j1.staged = job[w].staged
  BY <1>3, <1>5 DEF Job
<1>9. CASE Set(w, j1)
  <2> HIDE DEF j1
  <2> QED
    BY <1>1, <1>2, <1>6, <1>7, <1>8, <1>9 DEF since
<1>10. CASE Set(w, Idle)
  BY <1>1, <1>2, <1>10, IdleFacts
<1>11. ASSUME NEW i \in last, Set(w, lost(i))
       PROVE  \E j \in Job :
                /\ Set(w, j) /\ j.pc = "history" /\ j.way = "stamp" /\ j.since = job[w].since
                /\ j.fetched = Len(log) /\ j.next = job[w].next
                /\ j.ins = job[w].ins /\ j.del = job[w].del /\ j.staged = job[w].staged
                /\ j.left \subseteq Of("new", From(job[w].since)) \cap Present
                /\ \A k \in Happened :
                     k \in j.lax \/ (log[k][1] = "new" /\ log[k][2] \in j.left)
                                 \/ (log[k][1] = "new" /\ log[k][2] \notin Present)
  <2>1. i \in Happened /\ log[i][1] = "new" /\ i \in Nat
    BY <1>3, <1>4, <1>11 DEF there, Index
  <2>2. /\ lost(i) \in Job /\ lost(i).pc = "history" /\ lost(i).way = "stamp"
        /\ lost(i).fetched = Len(log) /\ lost(i).next = job[w].next
        /\ lost(i).left = lefts \ {log[i][2]} /\ lost(i).lax = laxes \cup {i}
        /\ lost(i).since = job[w].since /\ lost(i).ins = job[w].ins
        /\ lost(i).del = job[w].del /\ lost(i).staged = job[w].staged
    <3> HIDE DEF j1
    <3> QED
      BY <1>5, <1>8, <2>1 DEF Job
  <2>3. \A k \in Happened : log[k][1] = "new" /\ log[k][2] = log[i][2] => k = i
    <3> SUFFICES ASSUME NEW k \in Happened, log[k][1] = "new", log[k][2] = log[i][2] PROVE k = i
      OBVIOUS
    <3>1. log[i] \in Events /\ log[k] \in Events
      BY <2>1, LogFacts
    <3>2. log[k] = log[i]
      BY <2>1, <3>1 DEF Events
    <3> QED
      BY <2>1, <3>2 DEF LogOnce, Happened
  <2> HIDE DEF j1, lost
  <2>4. \A k \in Happened :
          k \in lost(i).lax \/ (log[k][1] = "new" /\ log[k][2] \in lost(i).left)
                            \/ (log[k][1] = "new" /\ log[k][2] \notin Present)
    BY <1>7, <2>2, <2>3
  <2>5. lost(i).left \subseteq Of("new", From(job[w].since)) \cap Present
    BY <1>6, <2>2 DEF since
  <2> QED
    BY <1>11, <2>2, <2>4, <2>5
<1> HIDE DEF j1, lost
<1>12. CASE \E i \in last : Set(w, lost(i))
  BY <1>1, <1>2, <1>11, <1>12
<1> QED
  BY <1>1, <1>9, <1>10, <1>12

\* The history id of the provider, which may be ahead of the fetch; or the end.
LEMMA CurrentFacts ==
    ASSUME Typed, NEW w \in Workers, Current(w)
    PROVE  \/ /\ job[w].pc = "history" /\ Set(w, Idle) /\ faults' \in 0..MaxFaults
              /\ UNCHANGED <<log, rows, cp, at, remembered, replied, gap, old>>
           \/ \E j \in Job :
             /\ job[w].pc = "history" /\ Set(w, j)
             /\ UNCHANGED <<log, rows, cp, at, remembered, replied, gap, old>>
             /\ faults' \in 0..MaxFaults
             /\ j.pc = "store" /\ j.next \in {Len(log), Absent}
             /\ j.answer = (job[w].since # Absent)
             /\ j.way = job[w].way /\ j.since = job[w].since /\ j.fetched = job[w].fetched
             /\ j.left = job[w].left /\ j.ins = job[w].ins /\ j.del = job[w].del
             /\ j.staged = job[w].staged /\ j.lax = job[w].lax
PROOF
<1>0. CASE Set(w, Idle) /\ Fault("broken")
  BY <1>0, FaultTypes DEF Typed, Current, mirror
<1> SUFFICES ASSUME ~(Set(w, Idle) /\ Fault("broken"))
             PROVE  \E j \in Job :
             /\ job[w].pc = "history" /\ Set(w, j)
             /\ UNCHANGED <<log, rows, cp, at, remembered, replied, gap, old>>
             /\ faults' \in 0..MaxFaults
             /\ j.pc = "store" /\ j.next \in {Len(log), Absent}
             /\ j.answer = (job[w].since # Absent)
             /\ j.way = job[w].way /\ j.since = job[w].since /\ j.fetched = job[w].fetched
             /\ j.left = job[w].left /\ j.ins = job[w].ins /\ j.del = job[w].del
             /\ j.staged = job[w].staged /\ j.lax = job[w].lax
  BY <1>0
<1>1. PICK n \in {Len(log), Absent} :
        /\ IF n = Absent THEN Fault("broken") ELSE NoFault
        /\ Set(w, [job[w] EXCEPT !.pc = "store", !.next = n, !.answer = job[w].since # Absent])
  BY DEF Current
<1>2. /\ UNCHANGED <<log, rows, cp, at, remembered, replied, gap, old>>
      /\ job[w].pc = "history"
  BY DEF Current, mirror
<1>3. faults' \in 0..MaxFaults
  BY <1>1, FaultTypes DEF Typed
<1> DEFINE j == [job[w] EXCEPT !.pc = "store", !.next = n, !.answer = job[w].since # Absent]
<1>4. job[w] \in Job /\ n \in Int /\ (job[w].since # Absent) \in BOOLEAN
  BY LogFacts DEF Typed, TypeOK, Absent
<1>5. /\ j \in Job /\ j.pc = "store" /\ j.next = n /\ j.answer = (job[w].since # Absent)
      /\ j.way = job[w].way /\ j.since = job[w].since /\ j.fetched = job[w].fetched
      /\ j.left = job[w].left /\ j.ins = job[w].ins /\ j.del = job[w].del
      /\ j.staged = job[w].staged /\ j.lax = job[w].lax
  BY <1>4 DEF Job
<1>6. Set(w, j)
  BY <1>1
<1> HIDE DEF j
<1> QED
  BY <1>2, <1>3, <1>5, <1>6

\* One mail: it has a row, gets one, or is passed over.
LEMMA StoreFacts ==
    ASSUME Typed, NEW w \in Workers, NEW m \in Mails, Store(w, m)
    PROVE  \E j \in Job :
             /\ job[w].pc = "store" /\ m \in job[w].left /\ Set(w, j)
             /\ UNCHANGED <<log, rows, cp, at, gap, old>>
             /\ faults' \in 0..MaxFaults
             /\ remembered' \subseteq Mails /\ replied' \subseteq replied \cup job[w].staged
             /\ j.pc = "store" /\ j.left = job[w].left \ {m}
             /\ j.way = job[w].way /\ j.since = job[w].since /\ j.fetched = job[w].fetched
             /\ j.next = job[w].next /\ j.del = job[w].del /\ j.answer = job[w].answer
             /\ \/ /\ m \in rows /\ j.ins = job[w].ins /\ j.lax = job[w].lax
                   /\ j.staged \subseteq job[w].staged
                \/ /\ j.ins = job[w].ins \cup {m} /\ j.lax = job[w].lax
                   /\ j.staged = IF job[w].answer THEN {m} ELSE {}
                \/ /\ j.ins = job[w].ins /\ j.lax = job[w].lax \cup Index("new", {m})
                   /\ j.staged = {} /\ replied' = replied
PROOF
<1> DEFINE rest == [job[w] EXCEPT !.left = @ \ {m}]
           j1 == [rest EXCEPT !.staged = {}]
           j2 == [rest EXCEPT !.ins = @ \cup {m}, !.staged = IF job[w].answer THEN {m} ELSE {}]
           j3 == [rest EXCEPT !.staged = {}, !.lax = @ \cup Index("new", {m})]
<1>1. /\ job[w].pc = "store" /\ m \in job[w].left
      /\ UNCHANGED <<log, rows, cp, at, gap, old>>
  BY DEF Store, mirror
<1>2. \/ m \in rows /\ Set(w, rest) /\ UNCHANGED <<remembered, replied>> /\ NoFault
      \/ m \in rows /\ Set(w, j1) /\ Drain(job[w].staged) /\ NoFault
      \/ Set(w, j2) /\ Drain(job[w].staged) /\ NoFault
      \/ Fault("insert") /\ Set(w, j3) /\ UNCHANGED <<remembered, replied>>
  BY Zenon DEF Store
<1>3. faults' \in 0..MaxFaults
  BY <1>2, FaultTypes DEF Typed
<1>4. job[w] \in Job /\ Index("new", {m}) \in SUBSET Nat
  BY LogFacts DEF Typed, TypeOK
<1>5. remembered' \subseteq Mails /\ replied' \subseteq replied \cup job[w].staged
  BY <1>2, <1>4 DEF Typed, TypeOK, Drain, Job
<1>6. /\ rest \in Job /\ rest.pc = job[w].pc /\ rest.left = job[w].left \ {m}
      /\ rest.way = job[w].way /\ rest.since = job[w].since /\ rest.fetched = job[w].fetched
      /\ rest.next = job[w].next /\ rest.del = job[w].del /\ rest.answer = job[w].answer
      /\ rest.ins = job[w].ins /\ rest.lax = job[w].lax /\ rest.staged = job[w].staged
  BY <1>4 DEF Job
<1> HIDE DEF rest
<1>12. /\ j1 \in Job /\ j1.pc = rest.pc /\ j1.left = rest.left
       /\ j1.way = rest.way /\ j1.since = rest.since /\ j1.fetched = rest.fetched
       /\ j1.next = rest.next /\ j1.del = rest.del /\ j1.answer = rest.answer
       /\ j1.ins = rest.ins /\ j1.lax = rest.lax /\ j1.staged = {}
  BY <1>6 DEF Job
<1>7. /\ j2 \in Job /\ j2.pc = rest.pc /\ j2.left = rest.left
      /\ j2.way = rest.way /\ j2.since = rest.since /\ j2.fetched = rest.fetched
      /\ j2.next = rest.next /\ j2.del = rest.del /\ j2.answer = rest.answer
      /\ j2.ins = rest.ins \cup {m} /\ j2.lax = rest.lax
      /\ j2.staged = IF job[w].answer THEN {m} ELSE {}
  <2>1. (IF job[w].answer THEN {m} ELSE {}) \in SUBSET Mails
    OBVIOUS
  <2> QED
    BY <1>6, <2>1 DEF Job
<1>8. /\ j3 \in Job /\ j3.pc = rest.pc /\ j3.left = rest.left
      /\ j3.way = rest.way /\ j3.since = rest.since /\ j3.fetched = rest.fetched
      /\ j3.next = rest.next /\ j3.del = rest.del /\ j3.answer = rest.answer
      /\ j3.ins = rest.ins /\ j3.lax = rest.lax \cup Index("new", {m}) /\ j3.staged = {}
  BY <1>4, <1>6 DEF Job
<1> HIDE DEF j1, j2, j3
<1>13. CASE m \in rows /\ Set(w, j1) /\ Drain(job[w].staged)
  BY <1>1, <1>3, <1>5, <1>6, <1>12, <1>13
<1>9. CASE m \in rows /\ Set(w, rest) /\ UNCHANGED <<remembered, replied>>
  BY <1>1, <1>3, <1>5, <1>6, <1>9
<1>10. CASE Set(w, j2) /\ Drain(job[w].staged)
  BY <1>1, <1>3, <1>5, <1>6, <1>7, <1>10
<1>11. CASE Set(w, j3) /\ UNCHANGED <<remembered, replied>>
  BY <1>1, <1>3, <1>5, <1>6, <1>8, <1>11
<1> QED
  BY <1>2, <1>9, <1>10, <1>11, <1>13

\* A removal that fails is passed over; where the transaction is aborted, everything is.
LEMMA RemovalFacts ==
    ASSUME Typed, NEW w \in Workers, RemovalFails(w)
    PROVE  \E j \in Job :
             /\ job[w].pc = "store" /\ job[w].way = "delta" /\ Set(w, j)
             /\ UNCHANGED <<log, rows, cp, at, remembered, replied, gap, old>>
             /\ faults' \in 0..MaxFaults
             /\ j.pc = "store" /\ j.way = "delta" /\ j.left = job[w].left
             /\ j.since = job[w].since /\ j.fetched = job[w].fetched /\ j.next = job[w].next
             /\ j.answer = job[w].answer /\ j.staged = job[w].staged
             /\ j.ins \subseteq job[w].ins /\ j.del \subseteq job[w].del
             /\ \/ /\ j.ins = job[w].ins
                   /\ \A i \in Happened : log[i][1] = "gone" /\ log[i][2] \in job[w].del \ j.del
                                           => i \in j.lax
                   /\ job[w].lax \subseteq j.lax
                \/ j.lax = 1..job[w].fetched
PROOF
<1>1. PICK m \in job[w].del :
        \/ /\ Fault("removal")
           /\ Set(w, [job[w] EXCEPT !.del = @ \ {m}, !.lax = @ \cup Index("gone", {m})])
        \/ /\ Fault("aborted")
           /\ Set(w, [job[w] EXCEPT !.ins = {}, !.del = {}, !.lax = 1..job[w].fetched])
  BY DEF RemovalFails
<1>2. /\ UNCHANGED <<log, rows, cp, at, remembered, replied, gap, old>>
      /\ job[w].pc = "store" /\ job[w].way = "delta" /\ job[w] \in Job
  BY DEF RemovalFails, mirror, Typed, TypeOK
<1>3. faults' \in 0..MaxFaults
  BY <1>1, FaultTypes DEF Typed
<1> DEFINE j1 == [job[w] EXCEPT !.del = @ \ {m}, !.lax = @ \cup Index("gone", {m})]
           j2 == [job[w] EXCEPT !.ins = {}, !.del = {}, !.lax = 1..job[w].fetched]
<1>4. Index("gone", {m}) \in SUBSET Nat
  BY LogFacts DEF Typed
<1>5. /\ j1 \in Job /\ j1.pc = "store" /\ j1.way = "delta" /\ j1.left = job[w].left
      /\ j1.since = job[w].since /\ j1.fetched = job[w].fetched /\ j1.next = job[w].next
      /\ j1.answer = job[w].answer /\ j1.staged = job[w].staged /\ j1.ins = job[w].ins
      /\ j1.del = job[w].del \ {m} /\ j1.lax = job[w].lax \cup Index("gone", {m})
  BY <1>2, <1>4 DEF Job
<1>6. /\ j2 \in Job /\ j2.pc = "store" /\ j2.way = "delta" /\ j2.left = job[w].left
      /\ j2.since = job[w].since /\ j2.fetched = job[w].fetched /\ j2.next = job[w].next
      /\ j2.answer = job[w].answer /\ j2.staged = job[w].staged /\ j2.ins = {}
      /\ j2.del = {} /\ j2.lax = 1..job[w].fetched
  <2>1. 1..job[w].fetched \in SUBSET Nat
    BY <1>2 DEF Job
  <2> QED
    BY <1>2, <2>1 DEF Job
<1>7. Set(w, j1) \/ Set(w, j2)
  BY <1>1
<1> HIDE DEF j1, j2
<1>8. CASE Set(w, j1)
  BY <1>2, <1>3, <1>5, <1>8 DEF Index
<1>9. CASE Set(w, j2)
  BY <1>2, <1>3, <1>6, <1>9
<1> QED
  BY <1>7, <1>8, <1>9

\* An exception leaves nothing in the session.
LEMMA GiveUpFacts ==
    ASSUME Typed, NEW w \in Workers, GiveUp(w)
    PROVE  \E j \in Job :
             /\ Set(w, j) /\ (j = Idle \/ j = After(w, "fetch"))
             /\ UNCHANGED <<log, rows, cp, at, remembered, replied, gap, old>>
PROOF
<1>1. job[w] \in Job
  BY DEF Typed, TypeOK
<1> QED
  BY <1>1, IdleFacts, AfterFacts DEF GiveUp, After, mirror

\* Types are kept by every step.
LEMMA StepTypes ==
    ASSUME Typed, LogOnce, NEW w \in Workers, Step(w)
    PROVE  Typed'
PROOF
<1> USE DEF Typed
<1>1. /\ job[w] \in Job /\ job[w].since <= Len(log) /\ job[w].next \in Absent..Len(log)
      /\ job[w].next <= Len(log) /\ Absent <= job[w].next /\ job[w].fetched <= Len(log)
      /\ Len(log) \in Nat /\ cp \in Absent..Len(log) /\ at \in Absent..Len(log)
      /\ rows \subseteq Mails /\ remembered \subseteq Mails /\ replied \subseteq Mails
      /\ old \subseteq Mails /\ gap \subseteq DOMAIN log /\ faults \in 0..MaxFaults
      /\ Absent <= Len(log) /\ Absent \in Absent..Len(log) /\ Len(log) \in Absent..Len(log)
      /\ job[w].staged \subseteq Mails
  <2>1. job[w] \in Job /\ Len(log) \in Nat
    BY LogFacts DEF TypeOK
  <2>2. job[w].staged \subseteq Mails
    BY <2>1 DEF Job
  <2>3. job[w].next \in Absent..Len(log)
    BY <2>1 DEF Job, Bounded, TypeOK, Absent
  <2> QED
    BY <2>1, <2>2, <2>3 DEF TypeOK, Bounded, Absent
<1>2. ASSUME NEW j \in Job, Set(w, j), j.since <= Len(log), j.next <= Len(log), j.fetched <= Len(log), Absent <= j.next,
             j.pc = "delta" => cp # Absent, faults' \in 0..MaxFaults,
             UNCHANGED <<log, rows, cp, at, gap, old>>,
             remembered' \subseteq Mails, replied' \subseteq Mails
      PROVE  Typed'
  BY <1>1, <1>2, SetTypes
<1>3. CASE Begin(w)
  <2>1. PICK j \in Job :
             /\ Set(w, j) /\ j.since = at /\ j.next = Absent /\ j.fetched = 0
             /\ j.pc = IF cp = Absent THEN "fetch" ELSE "delta"
             /\ j.left = {} /\ j.ins = {} /\ j.del = {} /\ j.staged = {}
             /\ UNCHANGED <<log, rows, cp, at, remembered, replied, gap, old, faults>>
    BY <1>3, BeginFacts
  <2>2. j.since <= Len(log) /\ j.next <= Len(log) /\ j.fetched <= Len(log) /\ Absent <= j.next
    BY <1>1, <2>1 DEF Absent
  <2> QED
    BY <1>1, <1>2, <2>1, <2>2
<1>4. CASE History(w)
  <2>1. PICK j \in Job :
             /\ job[w].pc = "delta" /\ Set(w, j) /\ j.since = job[w].since
             /\ UNCHANGED <<log, rows, cp, at, remembered, replied, gap, old>>
             /\ faults' \in 0..MaxFaults
             /\ j.pc # "delta" /\ j.next \in {Len(log), cp, job[w].next}
             /\ j.fetched \in {Len(log), cp, job[w].fetched}
    BY <1>4, HistoryFacts
  <2>2. j.next <= Len(log) /\ j.fetched <= Len(log) /\ Absent <= j.next
    BY <1>1, <2>1 DEF Absent
  <2> QED
    BY <1>1, <1>2, <2>1, <2>2
<1>5. CASE Fetch(w)
  <2>1. PICK j \in Job :
             /\ Set(w, j)
             /\ UNCHANGED <<log, rows, cp, at, remembered, replied, gap, old>>
             /\ faults' \in 0..MaxFaults
             /\ j = Idle \/ (j.pc = "history" /\ j.since = job[w].since /\ j.next = job[w].next
                              /\ j.fetched = Len(log))
    BY <1>5, FetchFacts
  <2>2. j.since <= Len(log) /\ j.next <= Len(log) /\ j.fetched <= Len(log) /\ Absent <= j.next
        /\ j.pc # "delta"
    BY <1>1, <2>1, IdleFacts
  <2> QED
    BY <1>1, <1>2, <2>1, <2>2
<1>6. CASE Current(w)
  <2>1. PICK j \in Job :
             /\ Set(w, j)
             /\ UNCHANGED <<log, rows, cp, at, remembered, replied, gap, old>>
             /\ faults' \in 0..MaxFaults
             /\ \/ j = Idle
                \/ /\ j.pc = "store" /\ j.next \in {Len(log), Absent}
                   /\ j.since = job[w].since /\ j.fetched = job[w].fetched
    BY <1>6, CurrentFacts, IdleFacts
  <2>2. j.since <= Len(log) /\ j.next <= Len(log) /\ j.fetched <= Len(log) /\ Absent <= j.next
        /\ j.pc # "delta"
    BY <1>1, <2>1, IdleFacts
  <2> QED
    BY <1>1, <1>2, <2>1, <2>2
<1>7. ASSUME NEW m \in Mails, Store(w, m) PROVE Typed'
  <2>1. PICK j \in Job :
             /\ Set(w, j) /\ UNCHANGED <<log, rows, cp, at, gap, old>>
             /\ faults' \in 0..MaxFaults
             /\ remembered' \subseteq Mails /\ replied' \subseteq replied \cup job[w].staged
             /\ j.pc = "store" /\ j.since = job[w].since /\ j.next = job[w].next
             /\ j.fetched = job[w].fetched
    BY <1>7, StoreFacts, ZenonT(60)
  <2> QED
    BY <1>1, <1>2, <2>1
<1>8. ASSUME GiveUp(w), faults' \in 0..MaxFaults PROVE Typed'
  <2>1. PICK j \in Job :
             /\ Set(w, j) /\ (j = Idle \/ j = After(w, "fetch"))
             /\ UNCHANGED <<log, rows, cp, at, remembered, replied, gap, old>>
    BY <1>8, GiveUpFacts
  <2>2. j.since <= Len(log) /\ j.next <= Len(log) /\ j.fetched <= Len(log) /\ Absent <= j.next
        /\ j.pc # "delta"
    BY <1>1, <2>1, IdleFacts, AfterFacts
  <2> QED
    BY <1>1, <1>2, <1>8, <2>1, <2>2
<1>9. CASE StoreFails(w)
  BY <1>8, <1>9, FaultTypes DEF StoreFails
<1>13. CASE RemovalFails(w)
  <2>1. PICK j \in Job :
             /\ Set(w, j) /\ UNCHANGED <<log, rows, cp, at, remembered, replied, gap, old>>
             /\ faults' \in 0..MaxFaults
             /\ j.pc = "store" /\ j.since = job[w].since /\ j.fetched = job[w].fetched
             /\ j.next = job[w].next
    BY <1>13, RemovalFacts, ZenonT(60)
  <2> QED
    BY <1>1, <1>2, <2>1
<1>10. ASSUME NEW c \in Absent..Len(log), NEW t \in Absent..Len(log), Commit(w, c, t),
              cp # Absent => c # Absent, log' = log, old' \subseteq Mails,
              faults' \in 0..MaxFaults, NEW j \in Job, Set(w, j),
              j.since <= Len(log), j.next <= Len(log), j.pc # "delta",
              j.fetched <= Len(log), Absent <= j.next
       PROVE  Typed'
  BY <1>10, CommitTypes, SetTypes
<1>11. CASE Apply(w)
  <2>1. CASE Fault("commit") /\ GiveUp(w)
    BY <1>8, <2>1, FaultTypes
  <2>2. CASE NoFault /\ Commit(w, cp, at) /\ Set(w, After(w, "mark")) /\ UNCHANGED <<log, old>>
    BY <1>1, <1>10, <2>2, AfterFacts, FaultTypes
  <2> QED
    BY <1>11, <2>1, <2>2 DEF Apply, After
<1>12. CASE Checkpoint(w)
  <2>1. CASE Fault("commit") /\ GiveUp(w)
    BY <1>8, <2>1, FaultTypes
  <2>2. CASE /\ Fault("locked") /\ Set(w, Idle)
             /\ UNCHANGED <<log, mirror, remembered, replied, gap, old>>
    BY <1>1, <1>2, <2>2, IdleFacts, FaultTypes DEF mirror
  <2>3. CASE /\ NoFault /\ Commit(w, IF job[w].next = Absent THEN cp ELSE job[w].next, Len(log))
             /\ old' = IF at = Absent THEN Of("new", 1..job[w].fetched) ELSE old
             /\ Set(w, Idle) /\ UNCHANGED log
    <3> DEFINE c == IF job[w].next = Absent THEN cp ELSE job[w].next
    <3>1. c \in Absent..Len(log) /\ (cp # Absent => c # Absent)
      BY <1>1
    <3>2. 1..job[w].fetched \subseteq Happened
      BY <1>1, LogFacts DEF Job
    <3>3. old' \subseteq Mails
      <4>1. Of("new", 1..job[w].fetched) \subseteq Mails
        BY <3>2, LogFacts
      <4> QED
        BY <1>1, <2>3, <4>1
    <3>4. Commit(w, c, Len(log))
      BY <2>3
    <3> HIDE DEF c
    <3>5. Idle.since <= Len(log) /\ Idle.next <= Len(log) /\ Idle.pc # "delta"
          /\ Idle.fetched <= Len(log) /\ Absent <= Idle.next
      BY <1>1, IdleFacts DEF Absent
    <3>6. faults' \in 0..MaxFaults
      BY <2>3, FaultTypes
    <3> QED
      BY <1>1, <1>10, <2>3, <3>1, <3>3, <3>4, <3>5, <3>6, IdleFacts
  <2> QED
    BY <1>12, <2>1, <2>2, <2>3 DEF Checkpoint
<1> QED
  BY <1>3, <1>4, <1>5, <1>6, <1>7, <1>9, <1>11, <1>12, <1>13 DEF Step

-----------------------------------------------------------------------------
(* One worker. *)

\* The initial state satisfies the invariant: nothing has happened.
LEMMA InvInit == Init => Inv
PROOF
<1> SUFFICES ASSUME Init PROVE Inv
  OBVIOUS
<1>1. Len(log) = 0 /\ DOMAIN log = {} /\ log \in Seq(Events)
  BY DEF Init
<1>2. TypeOK
  BY <1>1, IdleFacts, DeltaAssumption DEF Init, TypeOK, Absent
<1>3. Typed
  BY <1>1, <1>2, IdleFacts DEF Init, Typed, DeltaHasCheckpoint, Bounded, Absent
<1>4. LogOnce /\ LossesAreKnown /\ OldMailIsNotAnswered /\ OldKnown
  BY <1>1 DEF Init, LogOnce, LossesAreKnown, Seen, OldMailIsNotAnswered, OldKnown, Absent
<1>5. \A w \in Workers : JobInv(job[w])
  BY IdleFacts DEF Init, JobInv, Clean, InHand, Unanswered
<1> QED
  BY <1>3, <1>4, <1>5 DEF Inv

\* A step that commits nothing keeps the invariant if it leaves a good job.
LEMMA QuietKeeps ==
    ASSUME Inv, NEW w, Workers = {w}, Typed', NEW j, Set(w, j), JobInv(j),
           UNCHANGED <<log, rows, cp, at, gap, old>>,
           replied' \subseteq replied \cup job[w].staged
    PROVE  Inv'
PROOF
<1>1. job'[w] = j
  BY DEF Inv, Typed, TypeOK, Set
<1>2. LogOnce' /\ LossesAreKnown'
  BY DEF Inv, LogOnce, LossesAreKnown, Seen, Mirrored, Of, Happened
<1>3. OldMailIsNotAnswered' /\ OldKnown'
  BY DEF Inv, OldMailIsNotAnswered, OldKnown, JobInv, Unanswered
<1>4. JobInv(j)'
  BY DEF JobInv, Clean, InHand, Planned, Handled, Unanswered, Seen, Of, Happened
<1>5. \A v \in Workers : JobInv(job[v])'
  <2>1. JobInv(job[w])'
    BY <1>1, <1>4 DEF JobInv, Clean, InHand, Planned, Handled, Unanswered
  <2> QED
    BY <2>1
<1> QED
  BY <1>2, <1>3, <1>5 DEF Inv

\* A mail that is behind the checkpoint, or the time of the last sync, is not among
\* those that arrived later.
LEMMA OldIsBehind ==
    ASSUME Inv, NEW n \in Int, NEW m \in old,
           \E i \in DOMAIN log : log[i] = <<"new", m>> /\ i <= n
    PROVE  m \notin Of("new", From(n))
PROOF
<1> SUFFICES ASSUME m \in Of("new", From(n)) PROVE FALSE
  OBVIOUS
<1>1. PICK i \in DOMAIN log : log[i] = <<"new", m>> /\ i <= n
  OBVIOUS
<1>2. PICK k \in From(n) : log[k][1] = "new" /\ log[k][2] = m
  BY DEF Of
<1>3. k \in Happened /\ k > n /\ i \in Happened
  BY <1>1 DEF From, Happened
<1>4. log[k] \in Events
  BY <1>3, LogFacts DEF Inv, Typed
<1>5. log[k] = log[i]
  BY <1>1, <1>2, <1>4 DEF Events
<1>6. k = i
  BY <1>1, <1>2, <1>3, <1>5 DEF Inv, LogOnce, Happened
<1>7. k \in Int /\ i \in Int
  BY <1>3, LogFacts DEF Inv, Typed
<1> QED
  BY <1>1, <1>3, <1>6, <1>7

LEMMA BeginKeeps ==
    ASSUME Inv, NEW w, Workers = {w}, Typed', Begin(w)
    PROVE  Inv'
PROOF
<1>1. Typed /\ w \in Workers
  BY DEF Inv
<1>2. PICK j \in Job :
             /\ Set(w, j) /\ j.since = at /\ j.next = Absent /\ j.fetched = 0
             /\ j.pc = IF cp = Absent THEN "fetch" ELSE "delta"
             /\ j.left = {} /\ j.ins = {} /\ j.del = {} /\ j.staged = {}
             /\ UNCHANGED <<log, rows, cp, at, remembered, replied, gap, old, faults>>
  BY <1>1, BeginFacts
<1>3. JobInv(j)
  BY <1>2 DEF JobInv, Clean, InHand, Unanswered
<1> QED
  BY <1>2, <1>3, QuietKeeps

LEMMA HistoryKeeps ==
    ASSUME Inv, NEW w, Workers = {w}, Typed', History(w)
    PROVE  Inv'
PROOF
<1>1. Typed /\ LogOnce /\ w \in Workers /\ JobInv(job[w]) /\ TypeOK
  BY DEF Inv, Typed
<1>2. PICK j \in Job :
             /\ job[w].pc = "delta" /\ Set(w, j) /\ j.since = job[w].since
             /\ j.ins = job[w].ins /\ j.staged = job[w].staged
             /\ UNCHANGED <<log, rows, cp, at, remembered, replied, gap, old>>
             /\ faults' \in 0..MaxFaults
             /\ \/ /\ j.pc = "store" /\ j.way = "delta"
                   /\ j.fetched = Len(log) /\ j.next = Len(log)
                   /\ j.del = Of("gone", From(cp))
                   /\ j.left \subseteq Of("new", From(cp)) \cap Present
                   /\ \A i \in From(cp) : log[i][1] = "new" /\ log[i][2] \in Present =>
                        i \in j.lax \/ log[i][2] \in j.left
                \/ /\ j.pc = "store" /\ j.way = "delta"
                   /\ j.fetched = cp /\ j.next = cp
                   /\ j.del = job[w].del /\ j.left = job[w].left
                \/ /\ j.pc = "fetch" /\ j.next = job[w].next /\ j.fetched = job[w].fetched
                   /\ j.del = job[w].del /\ j.left = job[w].left
  BY <1>1, HistoryFacts
<1>3. /\ cp # Absent /\ cp \in Nat /\ cp <= Len(log) /\ Len(log) \in Nat /\ Seen(cp, at) = cp
      /\ at # Absent
  BY <1>1, <1>2, LogFacts DEF Inv, Typed, TypeOK, DeltaHasCheckpoint, OldKnown, Seen, Absent
<1>4. /\ job[w].left = {} /\ job[w].ins = {} /\ job[w].del = {} /\ job[w].staged = {}
      /\ job[w].since = at
  BY <1>1, <1>2 DEF JobInv, Clean, InHand
<1>5. CASE /\ j.pc = "store" /\ j.way = "delta"
           /\ j.fetched = Len(log) /\ j.next = Len(log)
           /\ j.del = Of("gone", From(cp))
           /\ j.left \subseteq Of("new", From(cp)) \cap Present
           /\ \A i \in From(cp) : log[i][1] = "new" /\ log[i][2] \in Present =>
                i \in j.lax \/ log[i][2] \in j.left
  <2>1. ASSUME NEW i \in 1..Len(log), i > cp, i \notin j.lax PROVE Handled(j, i)
    <3>1. i \in Happened /\ i \in From(cp) /\ log[i][1] \in {"new", "gone"}
      BY <1>1, <2>1, LogFacts DEF From
    <3>2. CASE log[i][1] = "new"
      BY <1>5, <2>1, <3>1, <3>2 DEF Handled, Present, Of
    <3>3. CASE log[i][1] = "gone"
      BY <1>5, <3>1, <3>3 DEF Handled, Of
    <3> QED
      BY <3>1, <3>2, <3>3
  <2>2. \A i \in 1..Len(log) : log[i][1] = "gone" => log[i][2] \notin Present
    BY <1>1, LogFacts DEF Present, Of
  <2>3. j.del \subseteq Of("gone", Happened)
    BY <1>5 DEF Of, From
  <2>4. Planned(j)
    BY <1>2, <1>3, <1>4, <1>5, <2>1, <2>2, <2>3 DEF Planned
  <2>5. j.left \cap old = {}
    <3> SUFFICES ASSUME NEW m \in old PROVE m \notin Of("new", From(cp))
      BY <1>5
    <3>1. \E i \in DOMAIN log : log[i] = <<"new", m>> /\ i <= cp
      BY <1>3 DEF Inv, OldKnown
    <3> QED
      BY <1>3, <3>1, OldIsBehind
  <2>6. Unanswered(j)
    BY <1>2, <1>3, <1>4, <1>5, <2>5 DEF Unanswered
  <2>7. Clean(j)
    BY <1>2, <1>4, <1>5 DEF Clean, InHand
  <2> QED
    BY <1>2, <2>4, <2>6, <2>7, QuietKeeps DEF JobInv
<1>6. CASE /\ j.pc = "store" /\ j.way = "delta"
           /\ j.fetched = cp /\ j.next = cp
           /\ j.del = job[w].del /\ j.left = job[w].left
  <2>1. Planned(j)
    BY <1>2, <1>3, <1>4, <1>6 DEF Planned
  <2>2. Unanswered(j) /\ Clean(j)
    BY <1>2, <1>3, <1>4, <1>6 DEF Unanswered, Clean, InHand
  <2> QED
    BY <1>2, <2>1, <2>2, QuietKeeps DEF JobInv
<1>7. CASE /\ j.pc = "fetch" /\ j.del = job[w].del /\ j.left = job[w].left
  <2>1. Unanswered(j) /\ Clean(j) /\ ~InHand(j)
    BY <1>2, <1>3, <1>4, <1>7 DEF Unanswered, Clean, InHand
  <2> QED
    BY <1>2, <2>1, QuietKeeps DEF JobInv
<1> QED
  BY <1>2, <1>5, <1>6, <1>7

LEMMA FetchKeeps ==
    ASSUME Inv, NEW w, Workers = {w}, Typed', Fetch(w)
    PROVE  Inv'
PROOF
<1>1. Typed /\ LogOnce /\ w \in Workers /\ JobInv(job[w]) /\ TypeOK
  BY DEF Inv, Typed
<1>2. PICK j \in Job :
             /\ job[w].pc = "fetch" /\ Set(w, j)
             /\ UNCHANGED <<log, rows, cp, at, remembered, replied, gap, old>>
             /\ faults' \in 0..MaxFaults
             /\ \/ j = Idle
                \/ /\ j.pc = "history" /\ j.way = "stamp" /\ j.since = job[w].since
                   /\ j.fetched = Len(log) /\ j.next = job[w].next
                   /\ j.ins = job[w].ins /\ j.del = job[w].del /\ j.staged = job[w].staged
                   /\ j.left \subseteq Of("new", From(job[w].since)) \cap Present
                   /\ \A i \in Happened :
                        i \in j.lax \/ (log[i][1] = "new" /\ log[i][2] \in j.left)
                                    \/ (log[i][1] = "new" /\ log[i][2] \notin Present)
  BY <1>1, FetchFacts
<1>3. /\ job[w].ins = {} /\ job[w].del = {} /\ job[w].staged = {} /\ job[w].since = at
  BY <1>1, <1>2 DEF JobInv, Clean
<1>4. CASE j = Idle
  <2>1. JobInv(j)
    BY <1>4, IdleFacts DEF JobInv, Clean, InHand, Unanswered
  <2> QED
    BY <1>2, <2>1, QuietKeeps
<1>5. CASE j # Idle
  <2>1. \A i \in 1..Len(log) : i \in j.lax \/ Handled(j, i)
    <3>1. Happened = 1..Len(log)
      BY <1>1, LogFacts
    <3>2. ASSUME NEW i \in Happened, i \notin j.lax PROVE Handled(j, i)
      BY <1>2, <1>5, <3>2 DEF Handled, Present, Of
    <3> QED
      BY <3>1, <3>2
  <2>2. \A i \in 1..Len(log) : log[i][1] = "gone" => log[i][2] \notin Present
    BY <1>1, LogFacts DEF Present, Of
  <2>3. Len(log) \in Nat
    BY <1>1, LogFacts
  <2>4. Planned(j)
    BY <1>2, <1>3, <1>5, <2>1, <2>2, <2>3 DEF Planned
  <2>5. j.left \cap old = {}
    <3> SUFFICES ASSUME NEW m \in old PROVE m \notin Of("new", From(at))
      BY <1>2, <1>3, <1>5
    <3>1. \E i \in DOMAIN log : log[i] = <<"new", m>> /\ i <= at
      BY DEF Inv, OldKnown
    <3>2. at \in Int
      BY <1>1 DEF TypeOK, Absent
    <3> QED
      BY <3>1, <3>2, OldIsBehind
  <2>6. Unanswered(j) /\ Clean(j)
    BY <1>2, <1>3, <1>5, <2>5 DEF Unanswered, Clean, InHand
  <2> QED
    BY <1>2, <2>4, <2>6, QuietKeeps DEF JobInv
<1> QED
  BY <1>4, <1>5

LEMMA CurrentKeeps ==
    ASSUME Inv, NEW w, Workers = {w}, Typed', Current(w)
    PROVE  Inv'
PROOF
<1>1. Typed /\ w \in Workers /\ JobInv(job[w]) /\ TypeOK
  BY DEF Inv, Typed
<1>0. JobInv(Idle)
  BY IdleFacts DEF JobInv, Clean, InHand, Unanswered
<1> SUFFICES ASSUME ~(Set(w, Idle) /\ UNCHANGED <<log, rows, cp, at, gap, old, replied>>)
             PROVE  Inv'
  BY <1>0, QuietKeeps
<1>2. PICK j \in Job :
             /\ job[w].pc = "history" /\ Set(w, j)
             /\ UNCHANGED <<log, rows, cp, at, remembered, replied, gap, old>>
             /\ faults' \in 0..MaxFaults
             /\ j.pc = "store" /\ j.next \in {Len(log), Absent}
             /\ j.answer = (job[w].since # Absent)
             /\ j.way = job[w].way /\ j.since = job[w].since /\ j.fetched = job[w].fetched
             /\ j.left = job[w].left /\ j.ins = job[w].ins /\ j.del = job[w].del
             /\ j.staged = job[w].staged /\ j.lax = job[w].lax
  BY <1>1, CurrentFacts
<1>3. /\ Planned(job[w]) /\ Clean(job[w]) /\ Unanswered(job[w]) /\ job[w].way = "stamp"
      /\ job[w].since = at
  BY <1>1, <1>2 DEF JobInv, InHand, Clean
<1>4. Planned(j)
  BY <1>2, <1>3 DEF Planned, Handled
<1>5. Clean(j)
  BY <1>2, <1>3 DEF Clean, InHand
<1>6. Seen(cp, at) <= Len(log) /\ j.fetched <= Len(log)
  BY <1>1, <1>2 DEF Typed, Bounded, TypeOK, Seen, Absent
<1>7. Unanswered(j)
  BY <1>2, <1>3, <1>6 DEF Unanswered
<1> QED
  BY <1>2, <1>4, <1>5, <1>7, QuietKeeps DEF JobInv

LEMMA StoreKeeps ==
    ASSUME Inv, NEW w, Workers = {w}, Typed', NEW m \in Mails, Store(w, m)
    PROVE  Inv'
PROOF
<1>1. Typed /\ w \in Workers /\ JobInv(job[w]) /\ TypeOK
  BY DEF Inv, Typed
<1>2. PICK j \in Job :
             /\ job[w].pc = "store" /\ m \in job[w].left /\ Set(w, j)
             /\ UNCHANGED <<log, rows, cp, at, gap, old>>
             /\ faults' \in 0..MaxFaults
             /\ remembered' \subseteq Mails /\ replied' \subseteq replied \cup job[w].staged
             /\ j.pc = "store" /\ j.left = job[w].left \ {m}
             /\ j.way = job[w].way /\ j.since = job[w].since /\ j.fetched = job[w].fetched
             /\ j.next = job[w].next /\ j.del = job[w].del /\ j.answer = job[w].answer
             /\ \/ /\ m \in rows /\ j.ins = job[w].ins /\ j.lax = job[w].lax
                   /\ j.staged \subseteq job[w].staged
                \/ /\ j.ins = job[w].ins \cup {m} /\ j.lax = job[w].lax
                   /\ j.staged = IF job[w].answer THEN {m} ELSE {}
                \/ /\ j.ins = job[w].ins /\ j.lax = job[w].lax \cup Index("new", {m})
                   /\ j.staged = {} /\ replied' = replied
  BY <1>1, StoreFacts
<1>3. Planned(job[w]) /\ Clean(job[w]) /\ Unanswered(job[w]) /\ job[w].since = at
  BY <1>1, <1>2 DEF JobInv, InHand, Clean
<1>4. job[w].fetched \in Nat /\ j.fetched <= Len(log) /\ Happened = 1..Len(log)
      /\ Len(log) \in Nat
  BY <1>1, <1>2, <1>3, LogFacts DEF TypeOK, Job, Planned
<1>5. ASSUME NEW i \in 1..j.fetched, Handled(job[w], i), i \notin j.lax PROVE Handled(j, i)
  <2>1. i \in Happened
    BY <1>2, <1>4
  <2>2. CASE log[i][1] = "new" /\ log[i][2] = m
    BY <1>2, <1>5, <2>1, <2>2 DEF Handled, Index
  <2>3. CASE log[i][1] = "new" /\ log[i][2] # m
    BY <1>2, <1>5, <2>3 DEF Handled
  <2>4. CASE log[i][1] # "new"
    BY <1>2, <1>5, <2>4 DEF Handled
  <2> QED
    BY <2>2, <2>3, <2>4
<1>6. /\ job[w].lax \subseteq j.lax
      /\ j.left \cup j.ins \subseteq job[w].left \cup job[w].ins
  BY <1>2
<1>7. Planned(j)
  BY <1>2, <1>3, <1>5, <1>6 DEF Planned
<1>8. Unanswered(j) /\ Clean(j)
  BY <1>2, <1>3 DEF Unanswered, Clean, InHand
<1> QED
  BY <1>2, <1>7, <1>8, QuietKeeps DEF JobInv

LEMMA GiveUpKeeps ==
    ASSUME Inv, NEW w, Workers = {w}, Typed', job[w].pc # "idle", GiveUp(w)
    PROVE  Inv'
PROOF
<1>1. Typed /\ w \in Workers /\ JobInv(job[w]) /\ job[w] \in Job
  BY DEF Inv, Typed, TypeOK
<1>2. PICK j \in Job :
             /\ Set(w, j) /\ (j = Idle \/ j = After(w, "fetch"))
             /\ UNCHANGED <<log, rows, cp, at, remembered, replied, gap, old>>
  BY <1>1, GiveUpFacts
<1>3. job[w].since = at
  BY <1>1 DEF JobInv, Clean
<1>4. CASE j = Idle
  BY <1>4, <1>2, QuietKeeps, IdleFacts DEF JobInv, Clean, InHand, Unanswered
<1>5. CASE j = After(w, "fetch")
  <2>1. JobInv(j)
    BY <1>1, <1>3, <1>5, AfterFacts DEF JobInv, Clean, InHand, Unanswered
  <2> QED
    BY <1>2, <2>1, QuietKeeps
<1> QED
  BY <1>2, <1>4, <1>5

\* A commit after which every event behind the new checkpoint is mirrored or passed
\* over: those behind the old one stay as they were, the fetched ones are handled.
LEMMA CommitKeeps ==
    ASSUME Inv, NEW w, Workers = {w}, InHand(job[w]), job[w].left = {},
           NEW c \in Absent..Len(log), NEW t \in Absent..Len(log), Commit(w, c, t), log' = log
    PROVE  /\ LossesAreKnown'
           /\ replied' \subseteq replied \cup job[w].staged
           /\ \A i \in 1..job[w].fetched :
                i \in job[w].lax \/ (job[w].way = "delta" /\ i <= cp) \/ Mirrored(i, rows')
PROOF
<1> DEFINE r == (rows \cup job[w].ins) \ job[w].del
<1>1. TypeOK /\ Planned(job[w]) /\ job[w] \in Job
  BY DEF Inv, Typed, TypeOK, JobInv
<1>2. /\ rows' = r /\ cp' = c /\ at' = t /\ replied' \subseteq replied \cup job[w].staged
      /\ gap' = gap \cup {i \in (job[w].lax \cup From(job[w].fetched)) \cap Happened :
                             i <= Seen(c, t) /\ ~Mirrored(i, r)}
  BY DEF Commit, Drain
<1>3. Len(log) \in Nat /\ Happened = 1..Len(log) /\ job[w].fetched \in Nat
      /\ job[w].fetched <= Len(log)
  BY <1>1, LogFacts DEF Job, Planned
<1>4. ASSUME NEW i \in 1..job[w].fetched, Mirrored(i, rows) \/ Handled(job[w], i)
      PROVE  Mirrored(i, r)
  <2>1. CASE log[i][1] = "new"
    BY <1>1, <1>4, <2>1 DEF Mirrored, Handled, Planned
  <2>2. CASE log[i][1] # "new"
    <3>1. log[i][1] = "gone"
      BY <1>1, <1>3, <2>2, LogFacts
    <3>2. log[i][2] \notin job[w].ins
      BY <1>1, <3>1 DEF Planned
    <3> QED
      BY <1>4, <2>2, <3>2 DEF Mirrored, Handled
  <2> QED
    BY <2>1, <2>2
<1>5. \A i \in 1..job[w].fetched :
        i \in job[w].lax \/ (job[w].way = "delta" /\ i <= cp) \/ Mirrored(i, r)
  BY <1>1, <1>4 DEF Planned
<1>6. ASSUME NEW i \in 1..Seen(c, t) PROVE Mirrored(i, r) \/ i \in gap'
  <2>1. i \in Happened /\ i <= Seen(c, t)
    BY <1>3 DEF Seen, Absent
  <2>2. CASE i \in job[w].lax \cup From(job[w].fetched)
    BY <1>2, <2>1, <2>2
  <2>3. CASE i \notin job[w].lax \cup From(job[w].fetched)
    <3>1. i \in 1..job[w].fetched
      BY <1>3, <2>1, <2>3 DEF From
    <3>2. CASE job[w].way = "delta" /\ i <= cp
      <4>1. i \in 1..Seen(cp, at)
        BY <1>1, <2>1, <1>3, <3>2 DEF Seen, Planned, TypeOK, Absent
      <4>2. Mirrored(i, rows) \/ i \in gap
        BY <4>1 DEF Inv, LossesAreKnown
      <4> QED
        BY <1>2, <1>4, <3>1, <4>2
    <3> QED
      BY <1>5, <2>3, <3>1, <3>2
  <2> QED
    BY <2>2, <2>3
<1>7. LossesAreKnown'
  <2>1. \A i : Mirrored(i, rows)' <=> Mirrored(i, r)
    BY <1>2 DEF Mirrored, Of, Happened
  <2>2. Seen(cp, at)' = Seen(c, t)
    BY <1>2 DEF Seen
  <2> QED
    BY <1>6, <2>1, <2>2 DEF LossesAreKnown
<1> QED
  BY <1>2, <1>5, <1>7

LEMMA ApplyKeeps ==
    ASSUME Inv, NEW w, Workers = {w}, Typed', Apply(w)
    PROVE  Inv'
PROOF
<1>1. Typed /\ w \in Workers /\ JobInv(job[w]) /\ job[w] \in Job /\ TypeOK
  BY DEF Inv, Typed, TypeOK
<1>2. job[w].pc = "store" /\ job[w].way = "delta" /\ job[w].left = {}
  BY DEF Apply
<1>3. Planned(job[w]) /\ Clean(job[w]) /\ Unanswered(job[w])
  BY <1>1, <1>2 DEF JobInv, InHand
<1>4. CASE GiveUp(w)
  BY <1>2, <1>4, GiveUpKeeps
<1>5. CASE Commit(w, cp, at) /\ Set(w, After(w, "mark")) /\ UNCHANGED <<log, old>>
  <2>1. cp \in Absent..Len(log) /\ at \in Absent..Len(log) /\ InHand(job[w])
    BY <1>1, <1>2 DEF TypeOK, InHand
  <2>2. /\ LossesAreKnown'
        /\ replied' \subseteq replied \cup job[w].staged
        /\ \A i \in 1..job[w].fetched :
             i \in job[w].lax \/ (job[w].way = "delta" /\ i <= cp) \/ Mirrored(i, rows')
    BY <1>2, <1>5, <2>1, CommitKeeps
  <2>3. cp' = cp /\ at' = at /\ log' = log /\ old' = old
    BY <1>5 DEF Commit
  <2>6. LogOnce'
    BY <2>3 DEF Inv, LogOnce
  <2>7. OldMailIsNotAnswered' /\ OldKnown'
    BY <1>3, <2>2, <2>3 DEF Inv, OldMailIsNotAnswered, OldKnown, Unanswered
  <2>8. ASSUME NEW j, j = After(w, "mark") PROVE JobInv(j)'
    <3>1. /\ j.pc = "mark" /\ j.ins = {} /\ j.del = {} /\ j.staged = {} /\ j.left = {}
          /\ j.since = job[w].since /\ j.next = job[w].next /\ j.way = job[w].way
          /\ j.fetched = job[w].fetched /\ j.lax = job[w].lax /\ j.answer = job[w].answer
      BY <1>1, <2>8, AfterFacts
    <3>2. \A i \in 1..job[w].fetched : Mirrored(i, rows') => Handled(j, i)'
      BY <2>3, <3>1 DEF Mirrored, Handled, Of, Happened
    <3>3. Planned(j)'
      BY <1>3, <2>2, <2>3, <3>1, <3>2 DEF Planned
    <3>4. Clean(j)' /\ Unanswered(j)'
      BY <1>2, <1>3, <2>3, <3>1 DEF Clean, Unanswered, InHand, Seen
    <3> QED
      BY <3>3, <3>4 DEF JobInv
  <2>9. job'[w] = After(w, "mark")
    BY <1>1, <1>5 DEF TypeOK, Set
  <2>11. JobInv(job[w])'
    BY <2>8, <2>9 DEF JobInv, Planned, Clean, Unanswered, InHand, Handled
  <2> QED
    BY <2>2, <2>6, <2>7, <2>11 DEF Inv
<1> QED
  BY <1>4, <1>5 DEF Apply, After

LEMMA RemovalKeeps ==
    ASSUME Inv, NEW w, Workers = {w}, Typed', RemovalFails(w)
    PROVE  Inv'
PROOF
<1>1. Typed /\ w \in Workers /\ JobInv(job[w]) /\ TypeOK
  BY DEF Inv, Typed
<1>2. PICK j \in Job :
             /\ job[w].pc = "store" /\ job[w].way = "delta" /\ Set(w, j)
             /\ UNCHANGED <<log, rows, cp, at, remembered, replied, gap, old>>
             /\ faults' \in 0..MaxFaults
             /\ j.pc = "store" /\ j.way = "delta" /\ j.left = job[w].left
             /\ j.since = job[w].since /\ j.fetched = job[w].fetched /\ j.next = job[w].next
             /\ j.answer = job[w].answer /\ j.staged = job[w].staged
             /\ j.ins \subseteq job[w].ins /\ j.del \subseteq job[w].del
             /\ \/ /\ j.ins = job[w].ins
                   /\ \A i \in Happened : log[i][1] = "gone" /\ log[i][2] \in job[w].del \ j.del
                                           => i \in j.lax
                   /\ job[w].lax \subseteq j.lax
                \/ j.lax = 1..job[w].fetched
  BY <1>1, RemovalFacts
<1>3. Planned(job[w]) /\ Clean(job[w]) /\ Unanswered(job[w])
  BY <1>1, <1>2 DEF JobInv, InHand
<1>4. \A i \in 1..j.fetched :
        i \in j.lax \/ (j.way = "delta" /\ i <= cp) \/ Handled(j, i)
  <2>1. CASE j.lax = 1..job[w].fetched
    BY <1>2, <2>1
  <2>2. CASE /\ j.ins = job[w].ins /\ job[w].lax \subseteq j.lax
             /\ \A i \in Happened : log[i][1] = "gone" /\ log[i][2] \in job[w].del \ j.del
                                     => i \in j.lax
    <3> SUFFICES ASSUME NEW i \in 1..j.fetched, i \notin j.lax, ~(j.way = "delta" /\ i <= cp)
                 PROVE  Handled(j, i)
      OBVIOUS
    <3>1. Handled(job[w], i)
      BY <1>2, <1>3, <2>2 DEF Planned
    <3>2. i \in Happened
      <4>1. Len(log) \in Nat /\ Happened = 1..Len(log) /\ j.fetched \in Nat
        BY <1>1, <1>2, LogFacts DEF Job
      <4> QED
        BY <1>2, <1>3, <4>1 DEF Planned
    <3>3. CASE log[i][1] = "new"
      BY <1>2, <2>2, <3>1, <3>3 DEF Handled
    <3>4. CASE log[i][1] # "new"
      <4>1. log[i][1] = "gone"
        BY <1>1, <3>2, <3>4, LogFacts
      <4>2. log[i][2] \in job[w].del => log[i][2] \in j.del
        BY <2>2, <3>2, <4>1
      <4> QED
        BY <1>2, <2>2, <3>1, <3>4, <4>2 DEF Handled
    <3> QED
      BY <3>3, <3>4
  <2> QED
    BY <1>2, <2>1, <2>2
<1>5. Planned(j)
  BY <1>2, <1>3, <1>4 DEF Planned
<1>6. Clean(j) /\ Unanswered(j)
  BY <1>2, <1>3 DEF Clean, InHand, Unanswered
<1> QED
  BY <1>2, <1>5, <1>6, QuietKeeps DEF JobInv

LEMMA CheckpointKeeps ==
    ASSUME Inv, NEW w, Workers = {w}, Typed', Checkpoint(w)
    PROVE  Inv'
PROOF
<1>1. Typed /\ w \in Workers /\ JobInv(job[w]) /\ job[w] \in Job /\ TypeOK
  BY DEF Inv, Typed, TypeOK
<1>2. /\ job[w].pc \in {"store", "mark"} /\ job[w].left = {}
      /\ Planned(job[w]) /\ Clean(job[w]) /\ Unanswered(job[w])
  BY <1>1 DEF Checkpoint, JobInv, InHand, Clean
<1>3. CASE GiveUp(w)
  BY <1>2, <1>3, GiveUpKeeps
<1>4. JobInv(Idle) /\ JobInv(Idle)'
  BY IdleFacts DEF JobInv, Clean, InHand, Unanswered
<1>5. CASE Set(w, Idle) /\ UNCHANGED <<log, mirror, remembered, replied, gap, old>>
  BY <1>4, <1>5, QuietKeeps DEF mirror
<1> DEFINE c == IF job[w].next = Absent THEN cp ELSE job[w].next
<1>6. CASE /\ Commit(w, c, Len(log)) /\ Set(w, Idle) /\ UNCHANGED log
           /\ old' = IF at = Absent THEN Of("new", 1..job[w].fetched) ELSE old
  <2>1. /\ c \in Absent..Len(log) /\ Len(log) \in Absent..Len(log) /\ InHand(job[w])
        /\ Len(log) \in Nat /\ Happened = 1..Len(log) /\ at \in Absent..Len(log)
        /\ cp \in Absent..Len(log) /\ job[w].fetched \in Nat /\ job[w].next \in Absent..Len(log)
    <3>1. Len(log) \in Nat /\ Happened = 1..Len(log)
      BY <1>1, LogFacts
    <3>2. job[w].next \in Absent..Len(log)
      BY <1>1, <3>1 DEF Typed, Bounded, TypeOK, Job, Absent
    <3> QED
      BY <1>1, <1>2, <3>1, <3>2 DEF TypeOK, InHand, Job, Absent
  <2> HIDE DEF c
  <2>2. LossesAreKnown' /\ replied' \subseteq replied \cup job[w].staged
    BY <1>2, <1>6, <2>1, CommitKeeps
  <2>3. cp' = c /\ at' = Len(log) /\ log' = log /\ at' # Absent
    BY <1>6, <2>1 DEF Commit, Absent
  <2>4. job'[w] = Idle
    BY <1>1, <1>6 DEF TypeOK, Set
  <2>5. LogOnce'
    BY <2>3 DEF Inv, LogOnce
  <2>6. CASE at = Absent
    <3>1. replied' = {} /\ cp = Absent
      BY <1>2, <2>2, <2>6 DEF Inv, OldKnown, Unanswered
    <3>2. ASSUME NEW m \in old'
          PROVE  \E i \in DOMAIN log' : log'[i] = <<"new", m>> /\ i <= at' /\ (cp' # Absent => i <= cp')
      <4>1. PICK i \in 1..job[w].fetched : log[i][1] = "new" /\ log[i][2] = m
        BY <1>6, <2>6, <3>2 DEF Of
      <4>2. i \in Happened /\ log[i] = <<"new", m>>
        BY <1>1, <1>2, <2>1, <4>1, LogFacts DEF Planned, Events
      <4>3. i <= Len(log) /\ (cp' # Absent => i <= cp')
        BY <1>2, <2>1, <2>3, <3>1, <4>1, <4>2 DEF Unanswered, c
      <4> QED
        BY <2>3, <4>2, <4>3 DEF Happened
    <3> QED
      BY <1>4, <2>2, <2>3, <2>4, <2>5, <3>1, <3>2
      DEF Inv, OldMailIsNotAnswered, OldKnown, JobInv, Clean, InHand, Planned, Unanswered, Handled
  <2>7. CASE at # Absent
    <3>1. old' = old /\ OldMailIsNotAnswered'
      BY <1>2, <1>6, <2>2, <2>7 DEF Inv, OldMailIsNotAnswered, Unanswered
    <3>2. ASSUME NEW m \in old'
          PROVE  \E i \in DOMAIN log' : log'[i] = <<"new", m>> /\ i <= at' /\ (cp' # Absent => i <= cp')
      <4>1. PICK i \in DOMAIN log : log[i] = <<"new", m>> /\ i <= at /\ (cp # Absent => i <= cp)
        BY <3>1, <3>2 DEF Inv, OldKnown
      <4>2. i \in Nat /\ i <= Len(log)
        BY <2>1, <4>1 DEF Happened
      <4>3. i <= Seen(cp, at)
        BY <4>1 DEF Seen
      <4>4. Seen(cp, at) \in Int
        BY <2>1 DEF Seen, Absent
      <4>5. cp' # Absent => i <= cp'
        BY <1>2, <2>1, <2>3, <4>1, <4>2, <4>3, <4>4 DEF Unanswered, c, Absent
      <4> QED
        BY <2>3, <4>1, <4>2, <4>5
    <3> QED
      BY <1>4, <2>2, <2>3, <2>4, <2>5, <3>1, <3>2
      DEF Inv, OldKnown, JobInv, Clean, InHand, Planned, Unanswered, Handled
  <2> QED
    BY <2>6, <2>7
<1> QED
  BY <1>3, <1>5, <1>6 DEF Checkpoint

\* An event at the provider changes nothing that is known of the earlier ones.
LEMMA LogTypes ==
    ASSUME Typed, LogOnce, NEW m \in Mails, Arrive(m) \/ Vanish(m)
    PROVE  /\ Typed' /\ LogOnce' /\ Len(log) \in Nat /\ Len(log') = Len(log) + 1
           /\ \A i \in 1..Len(log) : log'[i] = log[i]
           /\ UNCHANGED <<mirror, job, remembered, replied, gap, old, faults>>
PROOF
<1>1. PICK e \in Events :
        /\ log' = Append(log, e)
        /\ e[1] = "new" => e[2] \notin Of("new", Happened)
        /\ UNCHANGED <<mirror, job, remembered, replied, gap, old, faults>>
  <2>1. <<"new", m>> \in Events /\ <<"gone", m>> \in Events
    BY DEF Events
  <2> QED
    BY <2>1 DEF Arrive, Vanish
<1>2. /\ log \in Seq(Events) /\ Len(log) \in Nat /\ log' \in Seq(Events)
      /\ Len(log') = Len(log) + 1 /\ DOMAIN log' = 1..(Len(log) + 1) /\ DOMAIN log = 1..Len(log)
      /\ log'[Len(log) + 1] = e
  BY <1>1 DEF Typed, TypeOK
<1>3. \A i \in 1..Len(log) : log'[i] = log[i]
  BY <1>1 DEF Typed, TypeOK
<1>4. LogOnce'
  <2> SUFFICES ASSUME NEW i \in DOMAIN log', NEW j \in DOMAIN log',
                      log'[i][1] = "new", log'[i] = log'[j], i # j
               PROVE  FALSE
    BY DEF LogOnce
  <2>1. \A k \in 1..Len(log) : log[k][1] = "new" => log[k][2] \in Of("new", Happened)
    BY <1>2 DEF Of, Happened
  <2>2. \A k \in 1..Len(log) : log[k] # e \/ e[1] # "new"
    BY <1>1, <2>1
  <2>3. CASE i \in 1..Len(log) /\ j \in 1..Len(log)
    BY <1>2, <1>3, <2>3 DEF LogOnce
  <2>4. CASE i = Len(log) + 1
    <3>1. j \in 1..Len(log)
      BY <1>2, <2>4
    <3> QED
      BY <1>2, <1>3, <2>2, <2>4, <3>1
  <2>5. CASE j = Len(log) + 1
    <3>1. i \in 1..Len(log)
      BY <1>2, <2>5
    <3> QED
      BY <1>2, <1>3, <2>2, <2>5, <3>1
  <2> QED
    BY <1>2, <2>3, <2>4, <2>5
<1>5. TypeOK'
  <2>1. \A n \in Int : n <= Len(log) => n <= Len(log')
    BY <1>2
  <2>2. \A n : n \in Absent..Len(log) => n \in Absent..Len(log')
    BY <1>2 DEF Absent
  <2>3. \A w \in Workers : job[w].since \in Int /\ job[w].next \in Int
    BY DEF Typed, TypeOK, Job
  <2>4. gap' \subseteq DOMAIN log'
    BY <1>1, <1>2 DEF Typed, TypeOK
  <2> QED
    BY <1>1, <1>2, <2>1, <2>2, <2>3, <2>4 DEF Typed, TypeOK, mirror
<1>6. DeltaHasCheckpoint' /\ Bounded'
  <2>1. \A w \in Workers : job[w].fetched \in Nat
    BY DEF Typed, TypeOK, Job
  <2> QED
    BY <1>1, <1>2, <2>1 DEF Typed, DeltaHasCheckpoint, Bounded, mirror
<1> QED
  BY <1>1, <1>2, <1>3, <1>4, <1>5, <1>6 DEF Typed

LEMMA LogKeeps ==
    ASSUME Inv, NEW m \in Mails, Arrive(m) \/ Vanish(m)
    PROVE  Inv'
PROOF
<1>1. /\ Typed' /\ LogOnce' /\ Len(log) \in Nat /\ Len(log') = Len(log) + 1
      /\ \A i \in 1..Len(log) : log'[i] = log[i]
      /\ UNCHANGED <<rows, cp, at, job, remembered, replied, gap, old, faults>>
  BY LogTypes DEF Inv, mirror
<1>2. TypeOK /\ TypeOK' /\ Happened = 1..Len(log) /\ Happened' = 1..(Len(log) + 1)
      /\ cp \in Absent..Len(log) /\ at \in Absent..Len(log)
  BY <1>1, LogFacts DEF Inv, Typed, TypeOK, Happened
<1>3. Of("gone", Happened) \subseteq Of("gone", Happened)'
  BY <1>1, <1>2 DEF Of
<1>4. LossesAreKnown'
  <2> SUFFICES ASSUME NEW i \in 1..Seen(cp, at) PROVE Mirrored(i, rows)' \/ i \in gap
    BY <1>1 DEF LossesAreKnown, Seen
  <2>1. i \in 1..Len(log)
    BY <1>1, <1>2 DEF Seen, Absent
  <2>2. Mirrored(i, rows) => Mirrored(i, rows)'
    BY <1>1, <1>3, <2>1 DEF Mirrored
  <2> QED
    BY <2>2 DEF Inv, LossesAreKnown
<1>5. OldMailIsNotAnswered' /\ OldKnown'
  <2>1. ASSUME NEW m2 \in old
        PROVE  \E i \in DOMAIN log' : log'[i] = <<"new", m2>> /\ i <= at /\ (cp # Absent => i <= cp)
    <3>1. PICK i \in DOMAIN log : log[i] = <<"new", m2>> /\ i <= at /\ (cp # Absent => i <= cp)
      BY DEF Inv, OldKnown
    <3>2. i \in 1..Len(log) /\ i \in DOMAIN log'
      BY <1>1, <1>2, <3>1 DEF Happened
    <3> QED
      BY <1>1, <3>1, <3>2
  <2> QED
    BY <1>1, <2>1 DEF Inv, OldMailIsNotAnswered, OldKnown
<1>6. ASSUME NEW w \in Workers PROVE JobInv(job[w])'
  <2> DEFINE j == job[w]
  <2>1. JobInv(j) /\ j \in Job
    BY <1>2 DEF Inv, TypeOK
  <2>2. ASSUME InHand(j) PROVE Planned(j)'
    <3>1. Planned(j) /\ j.fetched \in Nat
      BY <2>1, <2>2 DEF JobInv, Job
    <3>2. \A i \in 1..j.fetched : i \in 1..Len(log)
      BY <1>1, <3>1 DEF Planned
    <3>3. \A i \in 1..j.fetched : log'[i] = log[i]
      BY <1>1, <3>2
    <3>4. \A i \in 1..j.fetched : Handled(j, i) => Handled(j, i)'
      BY <1>1, <1>3, <3>3 DEF Handled
    <3>5. j.fetched <= Len(log')
      BY <1>1, <3>1 DEF Planned
    <3>6. /\ (j.way = "delta" => cp # Absent /\ cp <= j.fetched /\ j.next = j.fetched)'
          /\ (j.del \subseteq Of("gone", Happened))'
      BY <1>1, <1>3, <3>1 DEF Planned
    <3>7. (\A i \in 1..j.fetched : log[i][1] = "gone" => log[i][2] \notin j.left \cup j.ins)'
      BY <1>1, <3>1, <3>3 DEF Planned
    <3>8. (\A i \in 1..j.fetched : i \in j.lax \/ (j.way = "delta" /\ i <= cp) \/ Handled(j, i))'
      BY <1>1, <3>1, <3>4 DEF Planned
    <3> QED
      BY <1>1, <3>5, <3>6, <3>7, <3>8 DEF Planned
  <2>3. Clean(j)' /\ Unanswered(j)' /\ (InHand(j)' <=> InHand(j))
    BY <1>1, <2>1 DEF JobInv, Clean, Unanswered, InHand, Seen
  <2> QED
    BY <2>2, <2>3 DEF JobInv
<1> QED
  BY <1>1, <1>4, <1>5, <1>6 DEF Inv

\* A crash leaves idle workers.
LEMMA CrashTypes == ASSUME Typed, Crash PROVE Typed'
PROOF
<1>1. /\ job' = [w \in Workers |-> Idle] /\ remembered' = {}
      /\ UNCHANGED <<log, rows, cp, at, replied, gap, old>> /\ faults' \in 0..MaxFaults
  BY FaultTypes DEF Crash, mirror, Typed
<1>2. Len(log) \in Nat
  BY LogFacts DEF Typed
<1>3. TypeOK'
  BY <1>1, <1>2, IdleFacts DEF Typed, TypeOK, Absent
<1>4. DeltaHasCheckpoint' /\ Bounded'
  BY <1>1, <1>2, IdleFacts DEF DeltaHasCheckpoint, Bounded, Absent
<1> QED
  BY <1>3, <1>4 DEF Typed

LEMMA CrashKeeps == ASSUME Inv, Crash PROVE Inv'
PROOF
<1>1. Typed' /\ job' = [w \in Workers |-> Idle] /\ UNCHANGED <<log, rows, cp, at, replied, gap, old>>
  BY CrashTypes DEF Inv, Crash, mirror
<1>2. \A w \in Workers : JobInv(job[w])'
  BY <1>1, IdleFacts DEF JobInv, Clean, InHand, Unanswered
<1>3. LogOnce' /\ LossesAreKnown' /\ OldMailIsNotAnswered' /\ OldKnown'
  BY <1>1 DEF Inv, LogOnce, LossesAreKnown, Seen, Mirrored, Of, Happened,
              OldMailIsNotAnswered, OldKnown
<1> QED
  BY <1>1, <1>2, <1>3 DEF Inv

-----------------------------------------------------------------------------
(* Theorems. *)

LEMMA TypedNext == Typed /\ LogOnce /\ [Next]_vars => Typed' /\ LogOnce'
PROOF
<1> SUFFICES ASSUME Typed, LogOnce, [Next]_vars PROVE Typed' /\ LogOnce'
  OBVIOUS
<1>1. ASSUME NEW m \in Mails, Arrive(m) \/ Vanish(m) PROVE Typed' /\ LogOnce'
  BY <1>1, LogTypes
<1>2. ASSUME NEW w \in Workers, Step(w) PROVE Typed' /\ LogOnce'
  <2>1. log' = log
    BY <1>2 DEF Step, Begin, History, Fetch, Current, Store, StoreFails, RemovalFails, Apply, Checkpoint, GiveUp
  <2> QED
    BY <1>2, <2>1, StepTypes DEF LogOnce
<1>3. CASE Crash
  BY <1>3, CrashTypes DEF Crash, LogOnce
<1>4. CASE UNCHANGED vars
  BY <1>4 DEF vars, mirror, Typed, TypeOK, DeltaHasCheckpoint, Bounded, LogOnce
<1> QED
  BY <1>1, <1>2, <1>3, <1>4 DEF Next

LEMMA InvNext ==
    ASSUME NEW w, Workers = {w}
    PROVE  Inv /\ [Next]_vars => Inv'
PROOF
<1> SUFFICES ASSUME Inv, [Next]_vars PROVE Inv'
  OBVIOUS
<1>1. Typed'
  BY TypedNext DEF Inv
<1>2. ASSUME NEW m \in Mails, Arrive(m) \/ Vanish(m) PROVE Inv'
  BY <1>2, LogKeeps
<1>3. CASE Begin(w)
  BY <1>1, <1>3, BeginKeeps
<1>4. CASE History(w)
  BY <1>1, <1>4, HistoryKeeps
<1>5. CASE Fetch(w)
  BY <1>1, <1>5, FetchKeeps
<1>6. CASE Current(w)
  BY <1>1, <1>6, CurrentKeeps
<1>7. ASSUME NEW m \in Mails, Store(w, m) PROVE Inv'
  BY <1>1, <1>7, StoreKeeps
<1>8. CASE StoreFails(w)
  BY <1>1, <1>8, GiveUpKeeps DEF StoreFails
<1>9. CASE Apply(w)
  BY <1>1, <1>9, ApplyKeeps
<1>10. CASE Checkpoint(w)
  BY <1>1, <1>10, CheckpointKeeps
<1>13. CASE RemovalFails(w)
  BY <1>1, <1>13, RemovalKeeps
<1>11. CASE Crash
  BY <1>11, CrashKeeps
<1>12. CASE UNCHANGED vars
  BY <1>1, <1>12 DEF vars, mirror, Inv, LogOnce, LossesAreKnown, Seen, Mirrored, Of, Happened,
         OldMailIsNotAnswered, OldKnown, JobInv, Clean, InHand, Planned, Handled, Unanswered
<1> QED
  BY <1>2, <1>3, <1>4, <1>5, <1>6, <1>7, <1>8, <1>9, <1>10, <1>11, <1>12, <1>13 DEF Next, Step

\* Variables keep their types with any number of workers: checkpoint and time are of
\* the past.
THEOREM DeltaTypes == Spec => []TypeOK
PROOF
<1>1. Init => Typed /\ LogOnce
  BY InvInit DEF Inv
<1>2. Typed => TypeOK
  BY DEF Typed
<1> QED
  BY <1>1, <1>2, TypedNext, PTL DEF Spec

\* One worker at a time keeps the invariant.
THEOREM DeltaInvariant ==
    ASSUME NEW w, Workers = {w}
    PROVE  Spec => []Inv
PROOF
<1>1. Init => Inv
  BY InvInit
<1>2. Inv /\ [Next]_vars => Inv'
  BY InvNext
<1> QED
  BY <1>1, <1>2, PTL DEF Spec

\* With one worker at a time, an event behind the checkpoint is mirrored in the e-mail
\* table unless it was passed over in one of the ways gap names; no crash, rollback,
\* failed commit or locked database loses one.
THEOREM LossesCorrect ==
    ASSUME NEW w, Workers = {w}
    PROVE  Spec => []LossesAreKnown
PROOF
<1>1. Inv => LossesAreKnown
  BY DEF Inv
<1> QED
  BY <1>1, DeltaInvariant, PTL

\* With one worker at a time, no mail that the first sync found is answered, whatever
\* fails and however often.
THEOREM AnswersCorrect ==
    ASSUME NEW w, Workers = {w}
    PROVE  Spec => []OldMailIsNotAnswered
PROOF
<1>1. Inv => OldMailIsNotAnswered
  BY DEF Inv
<1> QED
  BY <1>1, DeltaInvariant, PTL
=============================================================================
