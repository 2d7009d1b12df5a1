----------------------------- MODULE QuickSteps -----------------------------
(***************************************************************************)
(* Quick Steps (app/quicksteps): rules that run a chain of actions on a    *)
(* received mail.  Arrivals, state changes and replies each start an       *)
(* evaluation of all automatic rules in a thread of its own; a timer       *)
(* sweeps the inbox for rules about age; a user runs a rule by hand under  *)
(* an Idempotency-Key.  What keeps a rule from running twice is a look     *)
(* into the audit log before the chain and a row in it after the chain.    *)
(***************************************************************************)
EXTENDS Integers, Sequences, FiniteSets

CONSTANTS
    Emails, Steps,  \* mails of the inbox; automatic rules for received mail
    Rules,          \* the rules in the order load_quick_steps returns them
    Inbox,          \* the candidates of a sweep, oldest first
    TimeRules,      \* those with a condition on age, in the same order; the API that
                    \* reorders the rules stores an id as often as it is sent
    Actions,        \* the chain of a rule: a sequence of Kinds
    CAP,            \* _MAX_AUTO_TRIGGERS_PER_EMAIL
    Evals,          \* threads in run_auto_triggers
    Sweep,          \* the thread in run_housekeeping_sweep (under _scheduler_lock)
    Calls, Keys,    \* requests to execute_quick_step, their Idempotency-Keys
    KeyOf, PairOf,  \* key of a request; its rule and mail
    MaxChanges,     \* bound: arrivals and state changes
    MaxWanted,      \* bound: evaluations of one mail that wait to start
    MaxMishaps      \* bound: failed actions, lost rows, failed queries, restarts

Kinds == {"reply", "other"}
Pairs == Steps \X Emails
Evaluators == Evals \cup {Sweep}
Threads == Evaluators \cup Calls

ASSUME QuickAssumption ==
    /\ Steps # {} /\ Emails # {}
    /\ Rules \in Seq(Steps) /\ Inbox \in Seq(Emails) /\ TimeRules \in Seq(Steps)
    /\ Actions \in [Steps -> Seq(Kinds) \ {<<>>}]
    /\ KeyOf \in [Calls -> Keys] /\ PairOf \in [Calls -> Pairs]
    /\ IsFiniteSet(Evals) /\ Sweep \notin Evals /\ Evaluators \cap Calls = {}
ASSUME QuickLimits ==
    /\ CAP \in Nat \ {0} /\ MaxChanges \in Nat /\ MaxWanted \in Nat /\ MaxMishaps \in Nat

VARIABLES
    wanted,     \* evaluations of each mail that have been started as a thread
    work,       \* the mails and rules each evaluation still has to look at
    run,        \* the chain each thread is in
    known,      \* the fired_pairs of the sweep
    batched,    \* whether the sweep has them (None after a failed query)
    audited,    \* pairs with a row: source "auto", success
    stored,     \* quick_step_executions: outcome under each key
    changes, mishaps,   \* counted up to their bounds
    ran,        \* history: how often an automatic run of a pair began
    before,     \* history: audited when the sweep began
    answered    \* history: keys a request was answered under, until the TTL ends

dedupVars == <<known, batched, audited>>
vars == <<wanted, work, run, dedupVars, stored, changes, mishaps, ran, before, answered>>

-----------------------------------------------------------------------------
Outcomes == {"none", "ok", "failed"}

\* pos: the next action of the chain.  ok: no action failed.  did: the actions
\* carried out or skipped by their guard.  fired: chains run on the mail in hand.
Work == [mails: Seq(Emails), steps: Seq(Steps)]
Run == [pc: {"idle", "look", "chain", "record", "answered", "replayed", "lost"},
        pair: Pairs, pos: Nat, ok: BOOLEAN, did: SUBSET Nat, fired: Nat]

\* Where a sweep comes to a pair: more than once, if a list has it more than once.
Places(p) == {x \in (DOMAIN Inbox) \X (DOMAIN TimeRules) :
                Inbox[x[1]] = p[2] /\ TimeRules[x[2]] = p[1]}

\* Each evaluation and each place of the sweep may run a pair once, and once more after
\* each of m mishaps.  More runs than MaxRan are not counted (see RerunsBounded).
Reruns(p, m) == (Cardinality(Evals) + Cardinality(Places(p))) * (1 + m)
MaxRan(p) == Reruns(p, MaxMishaps) + 1

TypeOK ==
    /\ wanted \in [Emails -> 0..MaxWanted]
    /\ work \in [Evaluators -> Work]
    /\ run \in [Threads -> Run]
    /\ \A t \in Evaluators : run[t].pc # "idle" =>
         /\ work[t].mails # <<>> /\ work[t].steps # <<>>
         /\ run[t].pc \in {"look", "chain", "record"}
    /\ known \subseteq Pairs /\ batched \in BOOLEAN /\ audited \subseteq Pairs
    /\ stored \in [Keys -> Outcomes]
    /\ changes \in 0..MaxChanges /\ mishaps \in 0..MaxMishaps
    /\ ran \in [Pairs -> Nat] /\ \A p \in Pairs : ran[p] <= MaxRan(p)
    /\ before \subseteq Pairs /\ answered \subseteq Keys

NoWork == [mails |-> <<>>, steps |-> <<>>]
SomePair == CHOOSE p \in Pairs : TRUE
Resting(pc) == [pc |-> pc, pair |-> SomePair, pos |-> 1, ok |-> TRUE, did |-> {}, fired |-> 0]

Init ==
    /\ wanted = [e \in Emails |-> 0]
    /\ work = [t \in Evaluators |-> NoWork]
    /\ run = [t \in Threads |-> Resting("idle")]
    /\ known = {} /\ batched = FALSE /\ audited = {}
    /\ stored = [k \in Keys |-> "none"]
    /\ changes = 0 /\ mishaps = 0
    /\ ran = [p \in Pairs |-> 0]
    /\ before = {} /\ answered = {}

Mishap == mishaps < MaxMishaps /\ mishaps' = mishaps + 1
NoMishap == UNCHANGED mishaps

-----------------------------------------------------------------------------
(* What starts an evaluation. *)

\* The mail arrives, is marked read, or is answered by the user: a thread is started.
Change(e) ==
    /\ changes < MaxChanges /\ wanted[e] < MaxWanted
    /\ changes' = changes + 1
    /\ wanted' = [wanted EXCEPT ![e] = @ + 1]
    /\ UNCHANGED <<work, run, dedupVars, stored, mishaps, ran, before, answered>>

\* run_auto_triggers loads the rules and takes its snapshot of the mail.
BeginEval(t, e) ==
    /\ run[t].pc = "idle" /\ wanted[e] > 0 /\ Rules # <<>>
    /\ wanted' = [wanted EXCEPT ![e] = @ - 1]
    /\ work' = [work EXCEPT ![t] = [mails |-> <<e>>, steps |-> Rules]]
    /\ run' = [run EXCEPT ![t] = Resting("look")]
    /\ UNCHANGED <<dedupVars, stored, changes, mishaps, ran, before, answered>>

\* The pairs of a sweep.
TimePairs == {<<TimeRules[i], Inbox[j]>> : i \in DOMAIN TimeRules, j \in DOMAIN Inbox}

\* Slip: a failed batch query looks like one that found nothing.
BeginSweepEmpty ==
    /\ run[Sweep].pc = "idle" /\ TimeRules # <<>> /\ Inbox # <<>>
    /\ \/ /\ known' = audited \cap TimePairs
          /\ NoMishap
       \/ /\ known' = {}
          /\ Mishap
    /\ batched' = TRUE
    /\ before' = audited
    /\ work' = [work EXCEPT ![Sweep] = [mails |-> Inbox, steps |-> TimeRules]]
    /\ run' = [run EXCEPT ![Sweep] = Resting("look")]
    /\ UNCHANGED <<wanted, audited, stored, changes, ran, answered>>

\* run_housekeeping_sweep: one query, _fired_pairs, for all of its candidates.
BeginSweep ==
    /\ run[Sweep].pc = "idle" /\ TimeRules # <<>> /\ Inbox # <<>>
    /\ \/ /\ known' = audited \cap TimePairs /\ batched' = TRUE
          /\ NoMishap
       \/ /\ known' = {} /\ batched' = FALSE
          /\ Mishap
    /\ before' = audited
    /\ work' = [work EXCEPT ![Sweep] = [mails |-> Inbox, steps |-> TimeRules]]
    /\ run' = [run EXCEPT ![Sweep] = Resting("look")]
    /\ UNCHANGED <<wanted, audited, stored, changes, ran, answered>>

-----------------------------------------------------------------------------
(* _apply_steps_to_snapshot *)

\* The pair in hand, and whether its mail gets another rule.
Current(t) == <<Head(work[t].steps), Head(work[t].mails)>>
NextRule(t, fired) == Len(work[t].steps) > 1 /\ fired < CAP

\* Slip: the loop does not see that it is at its end.
PopOn(t, fired) ==
    /\ work' = [work EXCEPT ![t].steps = Tail(@)]
    /\ run' = [run EXCEPT ![t] = Resting("look")]

\* The next rule; or, at the last one or at the cap, the next mail with all the rules.
Pop(t, fired) ==
    LET w == work[t]
        rest == CASE NextRule(t, fired) -> [w EXCEPT !.steps = Tail(@)]
                  [] ~NextRule(t, fired) /\ Len(w.mails) > 1 ->
                       [mails |-> Tail(w.mails), steps |-> IF t = Sweep THEN TimeRules ELSE Rules]
                  [] OTHER -> NoWork
    IN  /\ work' = [work EXCEPT ![t] = rest]
        /\ run' = [run EXCEPT ![t] =
             IF rest = NoWork THEN Resting("idle")
             ELSE [Resting("look") EXCEPT !.fired = IF NextRule(t, fired) THEN fired ELSE 0]]

\* What the sweep asked for at its start is forgotten with its end.
Batch ==
    IF work'[Sweep] = NoWork THEN known' = {} /\ batched' = FALSE /\ before' = {}
                           ELSE UNCHANGED <<known, batched, before>>

\* The batch of the sweep, or else the query _step_fired_on_email.
HasFired(t, p) == IF t = Sweep /\ batched THEN p \in known ELSE p \in audited
AsksLog(t) == ~(t = Sweep /\ batched)

\* The pair has fired, or the triggers do not match the snapshot.
Skip(t) ==
    /\ run[t].pc = "look"
    /\ Pop(t, run[t].fired)
    /\ Batch
    /\ UNCHANGED <<wanted, audited, stored, changes, mishaps, ran, answered>>

\* Slip: no look into the audit log.
FireBlindly(t) ==
    LET p == Current(t) IN
    /\ run[t].pc = "look"
    /\ NoMishap
    /\ run' = [run EXCEPT ![t] = [@ EXCEPT !.pc = "chain", !.pair = p]]
    /\ ran' = [ran EXCEPT ![p] = IF @ < MaxRan(p) THEN @ + 1 ELSE @]
    /\ UNCHANGED <<wanted, work, dedupVars, stored, changes, before, answered>>

\* It has not fired, as far as this thread knows, and the triggers match; a query
\* that fails counts as "not fired".
Fire(t) ==
    LET p == Current(t) IN
    /\ run[t].pc = "look"
    /\ \/ ~HasFired(t, p) /\ NoMishap
       \/ HasFired(t, p) /\ AsksLog(t) /\ Mishap
    /\ run' = [run EXCEPT ![t] = [@ EXCEPT !.pc = "chain", !.pair = p]]
    /\ ran' = [ran EXCEPT ![p] = IF @ < MaxRan(p) THEN @ + 1 ELSE @]
    /\ UNCHANGED <<wanted, work, dedupVars, stored, changes, before, answered>>

-----------------------------------------------------------------------------
(* engine.execute *)

Chain(t) == Actions[run[t].pair[1]]
EmailOf(t) == run[t].pair[2]

\* One action succeeds, or its "if" skips it.  A reply that was sent starts another
\* evaluation of the mail (_reeval_quicksteps_after_reply).
Act(t) ==
    /\ run[t].pc = "chain"
    /\ run' = [run EXCEPT ![t].pos = @ + 1, ![t].did = @ \cup {run[t].pos},
                          ![t].pc = IF run[t].pos = Len(Chain(t)) THEN "record" ELSE "chain"]
    /\ \/ UNCHANGED wanted
       \/ /\ Chain(t)[run[t].pos] = "reply"
          /\ wanted' = [wanted EXCEPT ![EmailOf(t)] = IF @ < MaxWanted THEN @ + 1 ELSE @]
    /\ UNCHANGED <<work, dedupVars, stored, changes, mishaps, ran, before, answered>>

\* Slip: the chain goes on after a failure.
FailOn(t) ==
    /\ run[t].pc = "chain"
    /\ Mishap
    /\ run' = [run EXCEPT ![t].pos = @ + 1,
                          ![t].pc = IF run[t].pos = Len(Chain(t)) THEN "record" ELSE "chain"]
    /\ UNCHANGED <<wanted, work, dedupVars, stored, changes, ran, before, answered>>

\* The provider, the mail or an action fails: the chain ends there.
Fail(t) ==
    /\ run[t].pc = "chain"
    /\ Mishap
    /\ run' = [run EXCEPT ![t].pc = "record", ![t].ok = FALSE]
    /\ UNCHANGED <<wanted, work, dedupVars, stored, changes, ran, before, answered>>

\* Slip: no row is written.
RecordNothing(t) ==
    /\ run[t].pc = "record" /\ t \in Evaluators
    /\ Pop(t, run[t].fired + 1)
    /\ Batch
    /\ UNCHANGED <<wanted, audited, stored, changes, mishaps, ran, answered>>

\* record_execution: the row may be lost, which nobody is told of.
Record(t) ==
    /\ run[t].pc = "record" /\ t \in Evaluators
    /\ \/ /\ audited' = IF run[t].ok THEN audited \cup {run[t].pair} ELSE audited
          /\ NoMishap
       \/ run[t].ok /\ UNCHANGED audited /\ Mishap
    /\ Pop(t, run[t].fired + 1)
    /\ Batch
    /\ UNCHANGED <<wanted, stored, changes, ran, answered>>

-----------------------------------------------------------------------------
(* execute_quick_step, by hand; its audit row is not one that the rules look for. *)

\* Look for a report under the key; a query that fails finds none.
Call(c) ==
    /\ run[c].pc = "idle"
    /\ \/ /\ stored[KeyOf[c]] # "none"
          /\ run' = [run EXCEPT ![c].pc = "replayed"]
          /\ NoMishap
       \/ /\ \/ stored[KeyOf[c]] = "none" /\ NoMishap
             \/ stored[KeyOf[c]] # "none" /\ Mishap
          /\ run' = [run EXCEPT ![c] = [@ EXCEPT !.pc = "chain", !.pair = PairOf[c]]]
    /\ UNCHANGED <<wanted, work, dedupVars, stored, changes, ran, before, answered>>

\* Slip: only successes are kept for a replay.
AnswerSuccess(c) ==
    LET k == KeyOf[c]
        report == IF run[c].ok THEN "ok" ELSE "none" IN
    /\ run[c].pc = "record"
    /\ stored' = [stored EXCEPT ![k] = IF @ = "none" THEN report ELSE @]
    /\ answered' = answered \cup {k}
    /\ NoMishap
    /\ run' = [run EXCEPT ![c] = [Resting("answered") EXCEPT !.ok = run[c].ok]]
    /\ UNCHANGED <<wanted, work, dedupVars, changes, ran, before>>

\* The report is stored, unless another request stored one first, and returned.
\* A store that fails is only logged.
Answer(c) ==
    LET k == KeyOf[c]
        report == IF run[c].ok THEN "ok" ELSE "failed" IN
    /\ run[c].pc = "record"
    /\ \/ /\ stored' = [stored EXCEPT ![k] = IF @ = "none" THEN report ELSE @]
          /\ answered' = answered \cup {k}
          /\ NoMishap
       \/ UNCHANGED <<stored, answered>> /\ Mishap
    /\ run' = [run EXCEPT ![c] = [Resting("answered") EXCEPT !.ok = run[c].ok]]
    /\ UNCHANGED <<wanted, work, dedupVars, changes, ran, before>>

\* DEFAULT_TTL_SECONDS later the next get deletes the row.
Expire(k) ==
    /\ stored[k] # "none"
    /\ stored' = [stored EXCEPT ![k] = "none"]
    /\ answered' = answered \ {k}
    /\ UNCHANGED <<wanted, work, run, dedupVars, changes, mishaps, ran, before>>

-----------------------------------------------------------------------------
\* Restart: threads are gone, rows stay.
Crash ==
    /\ Mishap
    /\ wanted' = [e \in Emails |-> 0]
    /\ work' = [t \in Evaluators |-> NoWork]
    /\ run' = [t \in Threads |->
         CASE t \in Evaluators -> Resting("idle")
           [] t \in Calls /\ run[t].pc \in {"chain", "record"} -> Resting("lost")
           [] OTHER -> run[t]]
    /\ Batch
    /\ UNCHANGED <<audited, stored, changes, ran, answered>>

-----------------------------------------------------------------------------
Step(t) ==
    \/ t \in Evaluators /\ (Skip(t) \/ Fire(t) \/ Record(t))
    \/ Act(t) \/ Fail(t)
    \/ t \in Calls /\ (Call(t) \/ Answer(t))

Next ==
    \/ \E e \in Emails : Change(e) \/ \E t \in Evals : BeginEval(t, e)
    \/ BeginSweep
    \/ \E t \in Threads : Step(t)
    \/ \E k \in Keys : Expire(k)
    \/ Crash

Spec == Init /\ [][Next]_vars

\* Threads that were started go on; nothing makes a user, a mail or a timer come.
FairSpec ==
    /\ Spec
    /\ \A e \in Emails : \A t \in Evals : WF_vars(BeginEval(t, e))
    /\ \A t \in Evaluators : WF_vars(Step(t))

-----------------------------------------------------------------------------
(* Properties. *)

\* A row that says a rule has fired, so that it never runs on the mail again, is
\* written by a run that came through its whole chain.
FiredMeansWhole ==
    [][\A p \in audited' \ audited :
          \E t \in Evaluators : run[t].pair = p /\ run[t].did = DOMAIN Actions[p[1]]]_vars

\* The look and the row are far apart, a reply starts the next evaluation in between,
\* and the sweep does not see the rows it writes itself; still a rule runs on a mail at
\* most once for each evaluation thread and each time it stands in the sweep's list, as
\* often as something goes wrong.  It does not depend on how often the mail changes.
RerunsBounded == \A p \in Pairs : ran[p] <= Reruns(p, mishaps)

\* "a single batch failure must not bypass dedup for the WHOLE candidate set": the
\* sweep runs no pair that had fired when it began, other than for a query of that
\* very pair that failed.
SweepHonoursRows ==
    [][\A p \in before :
          ran'[p] > ran[p] /\ run[Sweep].pc = "look" /\ run'[Sweep].pc = "chain"
              /\ run'[Sweep].pair = p
          => mishaps' > mishaps]_vars

\* "retrying with the same idempotency key always replays the first outcome":
\* once a request was answered, no later one runs the rule until the TTL is over,
\* also when the first one failed.
RetryIsReplayed ==
    [][\A c \in Calls :
          KeyOf[c] \in answered /\ run[c].pc = "idle" /\ run'[c].pc # "idle" =>
              run'[c].pc = "replayed" \/ mishaps' > mishaps]_vars

\* The evaluations a reply starts, which may reply themselves, come to an end.
Settles == <>[](\A t \in Evaluators : run[t].pc # "chain")

\* "The audit-log dedup inside run_auto_triggers prevents the same (step, email)
\* pair from firing more than once": no fault is needed to break it.
FiresOnce == mishaps = 0 => \A p \in Pairs : ran[p] <= 1

\* "guarantees a rule that already fired on an email is never re-applied": whenever the
\* row was written, the sweep does not begin the pair, other than for a failed query.
SweepNeverReapplies ==
    [][\A p \in audited :
          ran'[p] > ran[p] /\ run[Sweep].pc = "look" /\ run'[Sweep].pc = "chain"
              /\ run'[Sweep].pair = p
          => mishaps' > mishaps]_vars
=============================================================================
