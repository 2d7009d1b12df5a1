----------------------------- MODULE DeltaSync -----------------------------
(***************************************************************************)
(* One sync of one account (_sync_account in                               *)
(* app/services/sync_service.py): what the provider's history says since   *)
(* the checkpoint is mirrored into the e-mail table; where the history     *)
(* cannot be read, the mails since the last sync are fetched instead.      *)
(* Rows and checkpoint are written in several transactions of a session    *)
(* that any error rolls back.  Replies to new mail are staged in the       *)
(* session and sent by its after_commit hook, which SQLAlchemy also calls  *)
(* when a savepoint is released.                                           *)
(***************************************************************************)
EXTENDS Integers, Sequences, FiniteSets

CONSTANTS
    Mails,
    Workers,    \* threads that sync the account (two, once a reservation was stale)
    LIMIT,      \* mails that one fetch returns
    Faults,     \* kinds of faults that may occur
    MaxFaults   \* bound: how many

FaultKinds == {"expired", "broken", "transient", "unreadable", "insert", "store",
               "removal", "aborted", "commit", "locked", "crash"}

ASSUME DeltaAssumption ==
    /\ LIMIT \in Nat \ {0} /\ MaxFaults \in Nat /\ Faults \subseteq FaultKinds
    /\ IsFiniteSet(Mails)

VARIABLES
    log,        \* the history at the provider: arrivals and removals of mails
    rows,       \* committed rows of the account
    cp,         \* Account.last_history_id: events seen, or Absent
    at,         \* Account.last_sync_at: events that had happened then, or Absent
    job,        \* what each worker is doing
    remembered, \* _REPLIED_SENDERS (in memory)
    replied,    \* history: mails that were answered
    gap,        \* history: events that were passed over in a way named below
    old,        \* history: mails that were there when the first sync fetched
    faults      \* counted up to MaxFaults

mirror == <<rows, cp, at>>
vars == <<log, mirror, job, remembered, replied, gap, old, faults>>

-----------------------------------------------------------------------------
Absent == -1
Events == {"new", "gone"} \X Mails

\* since: last_sync_at as read at the start.  fetched: events at the time of the
\* fetch.  left: fetched mails not stored yet.  ins, del: uncommitted changes.
\* next: the checkpoint to be written.  answer: replies are staged for new mail.
\* lax: events this sync passes over.
Job == [pc: {"idle", "delta", "fetch", "history", "store", "mark"},
        way: {"delta", "stamp"}, since: Int, fetched: Nat, next: Int,
        left: SUBSET Mails, ins: SUBSET Mails, del: SUBSET Mails,
        answer: BOOLEAN, staged: SUBSET Mails, lax: SUBSET Nat]

Idle == [pc |-> "idle", way |-> "stamp", since |-> Absent, fetched |-> 0, next |-> Absent,
         left |-> {}, ins |-> {}, del |-> {}, answer |-> FALSE, staged |-> {}, lax |-> {}]

TypeOK ==
    /\ log \in Seq(Events) /\ rows \subseteq Mails
    /\ cp \in Absent..Len(log) /\ at \in Absent..Len(log)
    /\ job \in [Workers -> Job]
    /\ \A w \in Workers : job[w].since <= Len(log) /\ job[w].next <= Len(log)
    /\ remembered \subseteq Mails /\ replied \subseteq Mails /\ old \subseteq Mails
    /\ gap \subseteq DOMAIN log
    /\ faults \in 0..MaxFaults

Init ==
    /\ log = <<>> /\ rows = {} /\ cp = Absent /\ at = Absent
    /\ job = [w \in Workers |-> Idle]
    /\ remembered = {} /\ replied = {} /\ gap = {} /\ old = {} /\ faults = 0

Fault(kind) == kind \in Faults /\ faults < MaxFaults /\ faults' = faults + 1
NoFault == UNCHANGED faults

Happened == DOMAIN log
Of(kind, S) == {log[i][2] : i \in {j \in S : log[j][1] = kind}}
Present == Of("new", Happened) \ Of("gone", Happened)
Index(kind, S) == {i \in Happened : log[i][1] = kind /\ log[i][2] \in S}
From(n) == {i \in Happened : i > n}

Set(w, j) == job' = [job EXCEPT ![w] = j]

-----------------------------------------------------------------------------
(* The mailbox at the provider. *)

Arrive(m) ==
    /\ m \notin Of("new", Happened)
    /\ log' = Append(log, <<"new", m>>)
    /\ UNCHANGED <<mirror, job, remembered, replied, gap, old, faults>>

Vanish(m) ==
    /\ m \in Present
    /\ log' = Append(log, <<"gone", m>>)
    /\ UNCHANGED <<mirror, job, remembered, replied, gap, old, faults>>

-----------------------------------------------------------------------------
(* The session. *)

\* _drain: the staged replies are sent, to senders that have not had one.
Drain(staged) ==
    /\ replied' = replied \cup (staged \ remembered)
    /\ remembered' = remembered \cup staged

\* Events behind the checkpoint (or the time of the last sync, for an account
\* without a checkpoint).
Seen(c, t) == IF c = Absent THEN t ELSE c
Mirrored(i, r) ==
    IF log[i][1] = "new" THEN log[i][2] \in r \cup Of("gone", Happened) ELSE log[i][2] \notin r

\* The commit of a session: its rows, with the checkpoint c and the time t.
Commit(w, c, t) ==
    LET r == (rows \cup job[w].ins) \ job[w].del
        passed == job[w].lax \cup From(job[w].fetched)
    IN  /\ rows' = r /\ cp' = c /\ at' = t
        /\ gap' = gap \cup {i \in passed \cap Happened : i <= Seen(c, t) /\ ~Mirrored(i, r)}
        /\ Drain(job[w].staged)

RolledBack(w) == [job[w] EXCEPT !.ins = {}, !.del = {}, !.staged = {}, !.left = {}]

\* Slip: the handler keeps the new history id, as it did before audit B-01.
GiveUpPersisting(w) ==
    /\ IF job[w].way = "delta" THEN Set(w, [RolledBack(w) EXCEPT !.pc = "fetch"]) ELSE Set(w, Idle)
    /\ cp' = IF job[w].way = "delta" /\ job[w].next # Absent THEN job[w].next ELSE cp
    /\ UNCHANGED <<log, rows, at, remembered, replied, gap, old>>

\* An exception: the delta falls back to the fetch, the fetch gives up.
GiveUp(w) ==
    /\ IF job[w].way = "delta" THEN Set(w, [RolledBack(w) EXCEPT !.pc = "fetch"]) ELSE Set(w, Idle)
    /\ UNCHANGED <<log, mirror, remembered, replied, gap, old>>

-----------------------------------------------------------------------------
(* _sync_account *)

Begin(w) ==
    /\ job[w].pc = "idle"
    /\ Set(w, [Idle EXCEPT !.since = at, !.pc = IF cp = Absent THEN "fetch" ELSE "delta"])
    /\ UNCHANGED <<log, mirror, remembered, replied, gap, old, faults>>

\* Slip: the new checkpoint is the number of the event to come.
HistoryAhead(w) ==
    /\ job[w].pc = "delta"
    /\ Set(w, [job[w] EXCEPT !.pc = "store", !.way = "delta", !.fetched = Len(log),
                 !.next = Len(log) + 1, !.answer = TRUE, !.del = Of("gone", From(cp)),
                 !.left = Of("new", From(cp)) \cap Present])
    /\ UNCHANGED <<log, mirror, remembered, replied, gap, old, faults>>

\* get_history_changes: events since the checkpoint, of new mail the first LIMIT;
\* a mail that cannot be read is passed over; a transient error (429, 500, 503)
\* gives no events and the old checkpoint.
History(w) ==
    LET since == From(cp)
        added == Index("new", Of("new", since)) \cap since
        first == {i \in added : Cardinality({j \in added : j < i}) < LIMIT}
        got == [job[w] EXCEPT !.pc = "store", !.way = "delta", !.fetched = Len(log),
                  !.next = Len(log), !.answer = TRUE, !.del = Of("gone", since),
                  !.left = Of("new", first) \cap Present, !.lax = added \ first]
    IN  /\ job[w].pc = "delta"
        /\ \/ Set(w, got) /\ NoFault
           \/ \E i \in first :
                /\ Fault("unreadable")
                /\ Set(w, [got EXCEPT !.left = @ \ {log[i][2]}, !.lax = @ \cup {i}])
           \/ /\ Fault("transient")
              /\ Set(w, [job[w] EXCEPT !.pc = "store", !.way = "delta", !.fetched = cp,
                           !.next = cp, !.answer = TRUE])
           \/ /\ Fault("expired") \/ Fault("broken")
              /\ Set(w, [job[w] EXCEPT !.pc = "fetch"])
        /\ UNCHANGED <<log, mirror, remembered, replied, gap, old>>

\* _fetch_emails_with_retry: the mails since the last sync, of those the last LIMIT
\* that can be read.
Fetch(w) ==
    LET since == From(job[w].since)
        there == Index("new", Present) \cap since
        last == {i \in there : Cardinality({j \in there : j > i}) < LIMIT}
        got == [job[w] EXCEPT !.pc = "history", !.way = "stamp", !.fetched = Len(log),
                  !.left = Of("new", last),
                  !.lax = (Happened \ since) \cup (there \ last) \cup Index("gone", Mails)]
    IN  /\ job[w].pc = "fetch"
        /\ \/ Set(w, got) /\ NoFault
           \/ \E i \in last :
                /\ Fault("unreadable")
                /\ Set(w, [got EXCEPT !.left = @ \ {log[i][2]}, !.lax = @ \cup {i}])
           \/ Fault("broken") /\ Set(w, Idle)
        /\ UNCHANGED <<log, mirror, remembered, replied, gap, old>>

\* Slip: also the first sync of an account answers the mail it finds.
CurrentAnswering(w) ==
    /\ job[w].pc = "history"
    /\ \E n \in {Len(log), Absent} :
         /\ IF n = Absent THEN Fault("broken") ELSE NoFault
         /\ Set(w, [job[w] EXCEPT !.pc = "store", !.next = n, !.answer = TRUE])
    /\ UNCHANGED <<log, mirror, remembered, replied, gap, old>>

\* get_current_history_id, which is None after an HttpError and raises any other.
Current(w) ==
    /\ job[w].pc = "history"
    /\ \/ \E n \in {Len(log), Absent} :
            /\ IF n = Absent THEN Fault("broken") ELSE NoFault
            /\ Set(w, [job[w] EXCEPT !.pc = "store", !.next = n, !.answer = job[w].since # Absent])
       \/ Fault("broken") /\ Set(w, Idle)
    /\ UNCHANGED <<log, mirror, remembered, replied, gap, old>>

\* One mail of _store_emails.  The savepoint of an insert that works, and that of a
\* contact created for a known mail, sends what was staged; an insert that fails, for
\* whatever reason, drops it and passes the mail over.
Store(w, m) ==
    LET rest == [job[w] EXCEPT !.left = @ \ {m}] IN
    /\ job[w].pc = "store" /\ m \in job[w].left
    /\ \A v \in Workers \ {w} : job[v].ins \cup job[v].del = {}
    /\ \/ /\ m \in rows /\ NoFault
          /\ \/ Set(w, rest) /\ UNCHANGED <<remembered, replied>>
             \/ Set(w, [rest EXCEPT !.staged = {}]) /\ Drain(job[w].staged)
       \/ /\ m \notin rows
          /\ Set(w, [rest EXCEPT !.ins = @ \cup {m},
                                 !.staged = IF job[w].answer THEN {m} ELSE {}])
          /\ Drain(job[w].staged) /\ NoFault
       \/ /\ m \notin rows /\ Fault("insert")
          /\ Set(w, [rest EXCEPT !.staged = {}, !.lax = @ \cup Index("new", {m})])
          /\ UNCHANGED <<remembered, replied>>
    /\ UNCHANGED <<log, mirror, gap, old>>

\* Another statement of the batch raises.
StoreFails(w) ==
    /\ job[w].pc = "store" /\ Fault("store")
    /\ GiveUp(w)

\* Delta: a removal raises, which is swallowed.  The row stays; where the error aborts
\* the transaction (PostgreSQL), so do all others, and the commit to come rolls the
\* batch back without a word.
RemovalFails(w) ==
    /\ job[w].pc = "store" /\ job[w].way = "delta" /\ job[w].left = {}
    /\ \E m \in job[w].del :
         \/ /\ Fault("removal")
            /\ Set(w, [job[w] EXCEPT !.del = @ \ {m}, !.lax = @ \cup Index("gone", {m})])
         \/ /\ Fault("aborted")
            /\ Set(w, [job[w] EXCEPT !.ins = {}, !.del = {}, !.lax = 1..job[w].fetched])
    /\ UNCHANGED <<log, mirror, remembered, replied, gap, old>>

\* The other removals, and the commit before the SENT pull.
Apply(w) ==
    /\ job[w].pc = "store" /\ job[w].way = "delta" /\ job[w].left = {}
    /\ \A v \in Workers \ {w} : job[v].ins \cup job[v].del = {}
    /\ \/ /\ NoFault
          /\ Commit(w, cp, at)
          /\ Set(w, [RolledBack(w) EXCEPT !.pc = "mark"])
          /\ UNCHANGED <<log, old>>
       \/ Fault("commit") /\ GiveUp(w)

\* Slip: the history id is written once and for all.
CheckpointOnce(w) ==
    /\ \/ job[w].pc = "mark"
       \/ job[w].pc = "store" /\ job[w].way = "stamp" /\ job[w].left = {}
    /\ NoFault
    /\ Commit(w, IF cp # Absent THEN cp ELSE job[w].next, Len(log))
    /\ old' = IF at = Absent THEN Of("new", 1..job[w].fetched) ELSE old
    /\ Set(w, Idle)
    /\ UNCHANGED log

\* update_sync_time and the last commit.  After "database is locked" it rolls back,
\* flushes nothing and reports success.
Checkpoint(w) ==
    /\ \/ job[w].pc = "mark"
       \/ job[w].pc = "store" /\ job[w].way = "stamp" /\ job[w].left = {}
    /\ \A v \in Workers \ {w} : job[v].ins \cup job[v].del = {}
    /\ \/ /\ NoFault
          /\ Commit(w, IF job[w].next = Absent THEN cp ELSE job[w].next, Len(log))
          /\ old' = IF at = Absent THEN Of("new", 1..job[w].fetched) ELSE old
          /\ Set(w, Idle)
          /\ UNCHANGED log
       \/ /\ Fault("locked")
          /\ Set(w, Idle)
          /\ UNCHANGED <<log, mirror, remembered, replied, gap, old>>
       \/ Fault("commit") /\ GiveUp(w)

\* The process dies: sessions and memory are gone.
Crash ==
    /\ Fault("crash")
    /\ job' = [w \in Workers |-> Idle]
    /\ remembered' = {}
    /\ UNCHANGED <<log, mirror, replied, gap, old>>

-----------------------------------------------------------------------------
Step(w) ==
    \/ Begin(w) \/ History(w) \/ Fetch(w) \/ Current(w)
    \/ (\E m \in Mails : Store(w, m)) \/ StoreFails(w)
    \/ RemovalFails(w) \/ Apply(w) \/ Checkpoint(w)

Next ==
    \/ \E m \in Mails : Arrive(m) \/ Vanish(m)
    \/ \E w \in Workers : Step(w)
    \/ Crash

Spec == Init /\ [][Next]_vars

\* The loop comes round and syncs go on.
FairSpec == Spec /\ \A w \in Workers : WF_vars(Step(w))

-----------------------------------------------------------------------------
(* Properties. *)

\* No event behind the checkpoint is lost by a crash, a rollback, a failed commit, a
\* locked database or an unreadable history.  The only losses are in gap: mails
\* over the limit, unreadable or not inserted, a removal whose error was swallowed
\* (and what it aborted), removals and mails before last_sync_at when the history
\* was not read, events during a fetch.
LossesAreKnown ==
    \A i \in 1..Seen(cp, at) : Mirrored(i, rows) \/ i \in gap

\* "we MUST NOT auto-reply to historical mail": nobody is answered whose mail was
\* there when the first sync of the account that came through fetched.
OldMailIsNotAnswered == replied \cap old = {}

\* Whatever fails, in the end every event is behind the checkpoint.
CheckpointAdvances ==
    \A n \in 1..(2 * Cardinality(Mails)) : (Len(log) >= n) ~> (Seen(cp, at) >= n)

\* "fire only AFTER a successful commit, and are dropped on rollback": who is
\* answered has a row that no rollback takes away.
RepliesFollowCommit == [][replied' \ replied \subseteq rows']_vars

\* "Transient Google error - preserve checkpoint ... will retry next cycle": a mail
\* that is there when a sync has ended has its row.
NothingIsSkipped == \A i \in 1..Seen(cp, at) : Mirrored(i, rows)
=============================================================================
