---------------------------- MODULE SyncService ----------------------------
(***************************************************************************)
(* Who may sync which account (app/services/sync_service.py).  A polling   *)
(* loop syncs all accounts one after the other; a Gmail push syncs one.    *)
(* Reservations under _sync_lock keep full and account syncs apart, bound  *)
(* the account syncs, and remember the pushes that have to wait.  A        *)
(* reservation that is ten minutes old is taken away from its thread,      *)
(* which cannot be stopped and may come back.  Accounts whose              *)
(* authentication fails are left alone for a while and in the end          *)
(* deactivated.                                                            *)
(***************************************************************************)
EXTENDS Integers, FiniteSets

CONSTANTS
    Accounts,   \* ids of the accounts
    CAP,        \* max_concurrent_account_syncs
    N,          \* _AUTH_DEACTIVATE_AFTER
    Gens,       \* numbers of reservations; a new one differs from all in use
    MaxCalls,   \* bound: calls to trigger_account_sync and trigger_sync
    MaxHangs,   \* bound: provider calls that do not return in ten minutes
    MaxMishaps  \* bound: failed loads of the accounts, syncs, authentications

All == 0
ASSUME SyncAssumption ==
    /\ Accounts \subseteq Nat \ {All} /\ IsFiniteSet(Accounts)
    /\ Gens \subseteq Nat \ {0}
    /\ CAP \in Nat \ {0} /\ N \in Nat \ {0}
    /\ MaxCalls \in Nat /\ MaxHangs \in Nat /\ MaxMishaps \in Nat

VARIABLES
    full,       \* _active_full_sync_generation, 0 for None
    active,     \* _active_account_sync_generations, 0 for no entry
    old,        \* reservations made _STALE_SYNC_SECONDS ago (All: the full one)
    pending,    \* _pending_account_sync_ids
    threads,    \* threads in _perform_sync
    failures,   \* failures in _auth_backoff, 0 for no entry, counted up to N
    waiting,    \* accounts whose next_retry lies ahead
    ahead,      \* those of which it lies past the `now` of a thread (Mark)
    enabled,    \* Account.is_active
    calls, hangs, mishaps,  \* counted up to their bounds
    owed,       \* history: accounts with a push that no sync has looked at yet
    streak,     \* history: failed authentications since the last success
    revoked     \* history: those at the end of the streak that were permanent

slotVars == <<full, active, old, pending, threads>>
authVars == <<failures, waiting, ahead, enabled, streak, revoked>>
countVars == <<calls, hangs, mishaps>>
vars == <<slotVars, authVars, countVars, owed>>

-----------------------------------------------------------------------------
\* who: the loop, a push (or a sync that ended and drained the queue), a user.
\* todo: accounts still to be synced; seen: the failures read before the sync.
Thread == [who: {"loop", "push", "user"}, acct: Accounts \cup {All}, gen: Gens \cup {0},
           pc: {"spawned", "claimed", "sync", "fetch", "hung", "doomed", "forget", "end"},
           todo: SUBSET Accounts, cur: Accounts \cup {All}, seen: 0..N]

TypeOK ==
    /\ full \in Gens \cup {0} /\ active \in [Accounts -> Gens \cup {0}]
    /\ old \subseteq Accounts \cup {All} /\ pending \subseteq Accounts
    /\ threads \subseteq Thread
    /\ \A t \in threads :
         /\ t.who = "push" <=> t.acct # All
         /\ t.gen # 0 \/ (t.acct = All /\ t.pc = "spawned")
         /\ t.pc \in {"fetch", "hung", "doomed"} => t.cur \in t.todo
         /\ t.pc = "forget" => t.cur # All
    /\ failures \in [Accounts -> 0..N] /\ waiting \subseteq Accounts
    /\ \A a \in waiting : failures[a] > 0
    /\ ahead \subseteq (Accounts \cup {All}) \X Gens \X Accounts
    /\ enabled \subseteq Accounts
    /\ calls \in 0..MaxCalls
    /\ hangs \in 0..MaxHangs /\ mishaps \in 0..MaxMishaps
    /\ owed \subseteq Accounts
    /\ streak \in [Accounts -> 0..N] /\ revoked \in [Accounts -> 0..N]

Init ==
    /\ full = 0 /\ active = [a \in Accounts |-> 0]
    /\ old = {} /\ pending = {} /\ threads = {}
    /\ failures = [a \in Accounts |-> 0] /\ waiting = {} /\ ahead = {}
    /\ enabled = Accounts
    /\ calls = 0 /\ hangs = 0 /\ mishaps = 0
    /\ owed = {}
    /\ streak = [a \in Accounts |-> 0] /\ revoked = [a \in Accounts |-> 0]

Busy(act) == {a \in Accounts : act[a] # 0}
\* _has_structured_sync_locked; _is_syncing says the same.
Syncing(f, act) == f # 0 \/ Busy(act) # {}

Used(g) == g = full \/ (\E a \in Accounts : active[a] = g) \/ \E t \in threads : t.gen = g
Fresh(g) == ~Used(g) /\ \A h \in Gens : ~Used(h) => g <= h

Spawned(who, a, g) ==
    [who |-> who, acct |-> a, gen |-> g, pc |-> "spawned", todo |-> {}, cur |-> All, seen |-> 0]

-----------------------------------------------------------------------------
(* Critical sections of _sync_lock.  Each gets the reservations it finds. *)

\* _clear_stale_sync_flag_locked
FullCleared == IF All \in old THEN 0 ELSE full
ActiveCleared == [a \in Accounts |-> IF a \in old THEN 0 ELSE active[a]]

\* The lowest ids first, as many as there are slots.
Lowest(cand, slots) ==
    {a \in cand : Cardinality({b \in cand : b < a}) < slots}

\* Slip: a request that finds no slot is not remembered.
ReserveOrForget(req, f, act, oldies, kept) ==
    LET free == CAP - Cardinality(Busy(act))
        cand == (IF req # {} THEN req ELSE pending) \ Busy(act)
        ready == IF f # 0 \/ free <= 0 THEN {} ELSE Lowest(cand, free)
    IN  \E g \in Gens :
          /\ Fresh(g)
          /\ full' = f
          /\ active' = [a \in Accounts |-> IF a \in ready THEN g ELSE act[a]]
          /\ old' = oldies \ ready
          /\ pending' = pending \ ready
          /\ threads' = kept \cup {Spawned("push", a, g) : a \in ready}

\* _reserve_account_syncs_locked and _start_reserved_account_syncs: what is requested
\* joins the queue; as long as there are slots, the requested accounts (without a
\* request, the queue) get one, and a thread.  f, act and oldies are the
\* reservations before, kept the threads.
Reserve(req, f, act, oldies, kept) ==
    LET queue == pending \cup req
        free == CAP - Cardinality(Busy(act))
        cand == (IF req # {} THEN req ELSE queue) \ Busy(act)
        ready == IF f # 0 \/ free <= 0 THEN {} ELSE Lowest(cand, free)
    IN  \E g \in Gens :
          /\ Fresh(g)
          /\ full' = f
          /\ active' = [a \in Accounts |-> IF a \in ready THEN g ELSE act[a]]
          /\ old' = oldies \ ready
          /\ pending' = queue \ ready
          /\ threads' = kept \cup {Spawned("push", a, g) : a \in ready}

\* trigger_account_sync: a push for one account.
TriggerAccount(a) ==
    /\ calls < MaxCalls
    /\ calls' = calls + 1
    /\ Reserve({a}, FullCleared, ActiveCleared, {}, threads)
    /\ owed' = owed \cup {a}
    /\ UNCHANGED <<authVars, hangs, mishaps>>

ClearStale ==
    full' = FullCleared /\ active' = ActiveCleared /\ old' = {}

\* trigger_sync, unless something is syncing and nothing was stale.
TriggerSync ==
    /\ calls < MaxCalls
    /\ ~Syncing(full, active) \/ old # {}
    /\ Spawned("user", All, 0) \notin threads
    /\ calls' = calls + 1
    /\ IF Syncing(full, active) THEN ClearStale ELSE UNCHANGED <<full, active, old>>
    /\ threads' = threads \cup {Spawned("user", All, 0)}
    /\ UNCHANGED <<pending, authVars, hangs, mishaps, owed>>

\* Somebody asks for the status.
Status ==
    /\ old # {}
    /\ ClearStale
    /\ UNCHANGED <<pending, threads, authVars, countVars, owed>>

\* _sync_loop: the interval is over.
Tick ==
    /\ \A t \in threads : t.who # "loop"
    /\ threads' = threads \cup {Spawned("loop", All, 0)}
    /\ UNCHANGED <<full, active, old, pending, authVars, countVars, owed>>

-----------------------------------------------------------------------------
(* _perform_sync *)

Becomes(t, u) == threads' = (threads \ {t}) \cup {u}
At(t, pc) == [t EXCEPT !.pc = pc]
Registered(t) == IF t.acct = All THEN full = t.gen ELSE active[t.acct] = t.gen

\* Slip: a full sync does not look for account syncs.
ClaimEager(t) ==
    /\ t.pc = "spawned"
    /\ old' = {}
    /\ active' = ActiveCleared
    /\ IF t.acct = All
         THEN IF FullCleared # 0
                THEN full' = FullCleared /\ threads' = threads \ {t}
                ELSE \E g \in Gens : /\ Fresh(g)
                                     /\ full' = g
                                     /\ Becomes(t, [At(t, "claimed") EXCEPT !.gen = g])
         ELSE /\ full' = FullCleared
              /\ IF ActiveCleared[t.acct] = t.gen
                   THEN Becomes(t, At(t, "claimed")) ELSE threads' = threads \ {t}
    /\ UNCHANGED <<pending, authVars, countVars, owed>>

\* A full sync reserves, unless something is syncing; an account sync looks
\* whether its reservation is still there.
Claim(t) ==
    /\ t.pc = "spawned"
    /\ old' = {}
    /\ active' = ActiveCleared
    /\ IF t.acct = All
         THEN IF Syncing(FullCleared, ActiveCleared)
                THEN full' = FullCleared /\ threads' = threads \ {t}
                ELSE \E g \in Gens : /\ Fresh(g)
                                     /\ full' = g
                                     /\ Becomes(t, [At(t, "claimed") EXCEPT !.gen = g])
         ELSE /\ full' = FullCleared
              /\ IF ActiveCleared[t.acct] = t.gen
                   THEN Becomes(t, At(t, "claimed")) ELSE threads' = threads \ {t}
    /\ UNCHANGED <<pending, authVars, countVars, owed>>

\* That the next_retry of account a lies past the `now` of thread t.
Mark(t, a) == <<t.acct, t.gen, a>>

\* The active accounts, and the `now` that every back-off is compared with; a push for
\* an account that is not active comes to nothing, and so does one whose load fails.
Load(t) ==
    LET wanted == IF t.acct = All THEN Accounts ELSE {t.acct} IN
    /\ t.pc = "claimed"
    /\ \/ /\ Becomes(t, [At(t, "sync") EXCEPT !.todo = wanted \cap enabled])
          /\ ahead' = ahead \cup {Mark(t, a) : a \in wanted \cap enabled \cap waiting}
          /\ owed' = IF t.acct = All THEN owed ELSE owed \ (wanted \ enabled)
          /\ UNCHANGED mishaps
       \/ /\ mishaps < MaxMishaps /\ mishaps' = mishaps + 1
          /\ Becomes(t, At(t, "end"))
          /\ owed' = IF t.acct = All THEN owed ELSE owed \ wanted
          /\ UNCHANGED ahead
    /\ UNCHANGED <<full, active, old, pending, failures, waiting, enabled, streak, revoked,
                   calls, hangs>>

\* The next account, which is passed over if it was in back-off when the loop over the
\* accounts began, or was put into it since.
Begin(t) ==
    /\ t.pc = "sync"
    /\ \E a \in t.todo :
         /\ Becomes(t, IF Mark(t, a) \in ahead THEN [t EXCEPT !.todo = @ \ {a}]
                       ELSE [At(t, "fetch") EXCEPT !.cur = a, !.seen = failures[a]])
         /\ ahead' = ahead \ {Mark(t, a)}
         /\ owed' = owed \ {a}
    /\ UNCHANGED <<full, active, old, pending, failures, waiting, enabled, streak, revoked,
                   countVars>>

Plus(n) == IF n < N THEN n + 1 ELSE N

Fetched(t) == [At(t, "sync") EXCEPT !.todo = @ \ {t.cur}, !.cur = All, !.seen = 0]

\* The entry of an account in _auth_backoff is popped.
Popped(a) ==
    /\ failures' = [failures EXCEPT ![a] = 0]
    /\ waiting' = waiting \ {a}
    /\ ahead' = {m \in ahead : m[3] # a}

\* Slip: a success leaves the count.
SyncedCounting(t) ==
    /\ t.pc = "fetch"
    /\ Becomes(t, Fetched(t))
    /\ waiting' = waiting \ {t.cur} /\ ahead' = {m \in ahead : m[3] # t.cur}
    /\ streak' = [streak EXCEPT ![t.cur] = 0] /\ revoked' = [revoked EXCEPT ![t.cur] = 0]
    /\ UNCHANGED <<full, active, old, pending, failures, enabled, countVars, owed>>

\* Slip: a success resets the count and not the time of the next try.
SyncedWaiting(t) ==
    /\ t.pc = "fetch"
    /\ Becomes(t, Fetched(t))
    /\ failures' = [failures EXCEPT ![t.cur] = 0]
    /\ streak' = [streak EXCEPT ![t.cur] = 0] /\ revoked' = [revoked EXCEPT ![t.cur] = 0]
    /\ UNCHANGED <<full, active, old, pending, waiting, ahead, enabled, countVars, owed>>

\* The sync succeeds: the back-off of the account is forgotten.
Synced(t) ==
    /\ t.pc = "fetch"
    /\ Becomes(t, Fetched(t))
    /\ Popped(t.cur)
    /\ streak' = [streak EXCEPT ![t.cur] = 0] /\ revoked' = [revoked EXCEPT ![t.cur] = 0]
    /\ UNCHANGED <<full, active, old, pending, enabled, countVars, owed>>

\* It fails for another reason than the authentication.
Failed(t) ==
    /\ t.pc = "fetch"
    /\ mishaps < MaxMishaps /\ mishaps' = mishaps + 1
    /\ Becomes(t, Fetched(t))
    /\ UNCHANGED <<full, active, old, pending, authVars, calls, hangs, owed>>

\* The authentication fails; permanent says that the token was revoked.  The new entry
\* lies past the `now` of every thread that has the account before it.  With the Nth
\* failure, if it is a permanent one, the thread goes on to deactivate the account.
AuthFailed(t, permanent) ==
    LET a == t.cur
        late == {u \in threads : a \in u.todo \ {u.cur}} IN
    /\ t.pc = "fetch"
    /\ mishaps < MaxMishaps /\ mishaps' = mishaps + 1
    /\ Becomes(t, IF permanent /\ t.seen + 1 >= N THEN At(t, "doomed") ELSE Fetched(t))
    /\ failures' = [failures EXCEPT ![a] = Plus(t.seen)]
    /\ waiting' = waiting \cup {a}
    /\ ahead' = ahead \cup {Mark(u, a) : u \in late}
    /\ streak' = [streak EXCEPT ![a] = Plus(@)]
    /\ revoked' = [revoked EXCEPT ![a] = IF permanent THEN Plus(@) ELSE 0]
    /\ UNCHANGED <<full, active, old, pending, enabled, calls, hangs, owed>>

\* _deactivate_dead_account: the commit, which may fail and leave account and entry.
Deactivate(t) ==
    /\ t.pc = "doomed"
    /\ \/ /\ Becomes(t, [At(t, "forget") EXCEPT !.todo = @ \ {t.cur}])
          /\ enabled' = enabled \ {t.cur}
       \/ Becomes(t, Fetched(t)) /\ UNCHANGED enabled
    /\ UNCHANGED <<full, active, old, pending, failures, waiting, ahead, streak, revoked,
                   countVars, owed>>

\* After it, the back-off of the account is forgotten.
Forget(t) ==
    /\ t.pc = "forget"
    /\ Becomes(t, Fetched(t))
    /\ Popped(t.cur)
    /\ UNCHANGED <<full, active, old, pending, enabled, streak, revoked, countVars, owed>>

\* Slip: the reservation is dropped without a look at its generation.
FinishAnyway(t) ==
    /\ t.pc = "end" \/ (t.pc = "sync" /\ t.todo = {})
    /\ LET f == IF t.acct = All THEN 0 ELSE full
           act == IF t.acct = All THEN active ELSE [active EXCEPT ![t.acct] = 0]
       IN  Reserve({}, f, act, old \ {t.acct}, threads \ {t})
    /\ UNCHANGED <<authVars, countVars, owed>>

\* Slip: nobody looks into the queue.
FinishUndrained(t) ==
    /\ t.pc = "end" \/ (t.pc = "sync" /\ t.todo = {})
    /\ full' = IF t.acct = All /\ full = t.gen THEN 0 ELSE full
    /\ active' = [a \in Accounts |-> IF a = t.acct /\ active[a] = t.gen THEN 0 ELSE active[a]]
    /\ old' = IF Registered(t) THEN old \ {t.acct} ELSE old
    /\ threads' = threads \ {t}
    /\ UNCHANGED <<pending, authVars, countVars, owed>>

\* The end, also after an exception: the reservation is dropped if it is still this
\* thread's, and unless a full sync is on, the queue gets the slots.
Finish(t) ==
    /\ t.pc = "end" \/ (t.pc = "sync" /\ t.todo = {})
    /\ LET f == IF t.acct = All /\ full = t.gen THEN 0 ELSE full
           mine == t.acct # All /\ active[t.acct] = t.gen
           act == IF mine THEN [active EXCEPT ![t.acct] = 0] ELSE active
           oldies == IF mine \/ f # full THEN old \ {t.acct} ELSE old
       IN  Reserve({}, f, act, oldies, threads \ {t})
    /\ UNCHANGED <<authVars, countVars, owed>>

-----------------------------------------------------------------------------
(* Time. *)

\* A provider call hangs; it may return later.
Hang(t) ==
    /\ t.pc = "fetch" /\ hangs < MaxHangs
    /\ hangs' = hangs + 1
    /\ Becomes(t, At(t, "hung"))
    /\ UNCHANGED <<full, active, old, pending, authVars, calls, mishaps, owed>>

Wake(t) ==
    /\ t.pc = "hung"
    /\ Becomes(t, At(t, "fetch"))
    /\ UNCHANGED <<full, active, old, pending, authVars, countVars, owed>>

\* Ten minutes pass for the reservation of a thread that hangs.
Age(t) ==
    /\ t.pc = "hung" /\ Registered(t) /\ t.acct \notin old
    /\ old' = old \cup {t.acct}
    /\ UNCHANGED <<full, active, pending, threads, authVars, countVars, owed>>

\* next_retry passes.
Elapse(a) ==
    /\ a \in waiting
    /\ waiting' = waiting \ {a}
    /\ UNCHANGED <<slotVars, failures, ahead, enabled, streak, revoked, countVars, owed>>

-----------------------------------------------------------------------------
Work(t) ==
    \/ Claim(t) \/ Load(t) \/ Begin(t) \/ Finish(t)
    \/ Synced(t) \/ Failed(t) \/ (\E permanent \in BOOLEAN : AuthFailed(t, permanent))
    \/ Deactivate(t) \/ Forget(t)

Next ==
    \/ \E a \in Accounts : TriggerAccount(a) \/ Elapse(a)
    \/ TriggerSync \/ Status \/ Tick
    \/ \E t \in threads : Work(t) \/ Hang(t) \/ Wake(t) \/ Age(t)

Spec == Init /\ [][Next]_vars

\* Threads that do not hang go on, the loop comes round, ten minutes pass.
FairSpec ==
    /\ Spec
    /\ \A a \in Accounts : WF_vars(\E t \in threads : t.acct = a /\ Work(t))
    /\ \A who \in {"loop", "user"} : WF_vars(\E t \in threads : t.who = who /\ Work(t))
    /\ WF_vars(Tick)
    /\ WF_vars(\E t \in threads : Age(t))

-----------------------------------------------------------------------------
(* Properties. *)

\* Threads whose reservation stands: never two for one account, never one beside a
\* full sync, never more than the cap, whatever has become stale before.
Claimed(t) == t.gen # 0 /\ Registered(t)
SyncsApart ==
    /\ \A t, u \in threads :
         Claimed(t) /\ Claimed(u) /\ t # u => t.acct # u.acct /\ All \notin {t.acct, u.acct}
    /\ Cardinality(Busy(active)) <= CAP
    /\ full # 0 => Busy(active) = {}

\* "a stale worker never releases a newer reservation": the end of a thread takes
\* away no reservation but its own.
OthersKeepTheirs ==
    [][\A t \in threads \ threads' : \A a \in Accounts \ old :
          /\ active[a] # 0 /\ ~(t.acct = a /\ t.gen = active[a]) => active'[a] = active[a]
          /\ full # 0 /\ t.gen # full /\ All \notin old => full' = full]_vars

\* A push is not lost: until a sync of the account has begun that started after it,
\* the account is in the queue or a thread is on its way to it.
PushIsRemembered ==
    \A a \in owed :
        \/ a \in pending
        \/ \E t \in threads :
              /\ t.acct = a /\ Registered(t)
              /\ t.pc \in {"spawned", "claimed"} \/ (t.pc = "sync" /\ a \in t.todo)

\* The count that deactivates an account is the number of failures since its last
\* successful sync, unless a sync that hung read it long before.
DeactivationIsEarned ==
    [][\A a \in enabled \ enabled' : hangs = 0 => streak'[a] = N]_vars

\* A queued account gets its sync, also behind a call that never returns; only the
\* loop itself must not hang.
LoopHangs == \E t \in threads : t.who = "loop" /\ t.pc = "hung"
QueueIsServed == \A a \in Accounts : (a \in pending) ~> (a \notin pending \/ LoopHangs)

\* "au-dela de N echecs d'auth PERMANENTS consecutifs": all N were permanent.
OnlyRevokedDeactivates ==
    [][\A a \in enabled \ enabled' : hangs = 0 => revoked'[a] = N]_vars
=============================================================================
