--------------------------- MODULE ScheduledSend ---------------------------
(***************************************************************************)
(* "Send later" of app/services/scheduled_email_*: the rows of             *)
(* scheduled_emails, the HTTP handlers that schedule, edit, cancel and     *)
(* forget a message, the scheduler thread that polls for due rows, and the *)
(* "send now" requests that dispatch one row beside it.  Every action is   *)
(* one committed transaction, one read or one provider call.               *)
(***************************************************************************)
EXTENDS Integers, FiniteSets

CONSTANTS
    Mails,              \* scheduled_emails.id
    Accounts,           \* accounts
    AccountOf,          \* the account of each message
    Verifies,           \* accounts whose provider can look a message up in Sent
    Scheduler,          \* the thread of ScheduledEmailScheduler
    Clicks,             \* identities for "send now" requests
    MAX_SEND_ATTEMPTS,  \* attempts after which a transient failure is terminal
    Faults,             \* may a store write raise, or the process crash?
    EditBound,          \* bound: edits of a message
    CrashBound,         \* bound: claims of a message after which crashes stop
    None                \* no message, no account

ASSUME SenderAssumption ==
    /\ AccountOf \in [Mails -> Accounts]
    /\ Verifies \subseteq Accounts
    /\ Scheduler \notin Clicks
    /\ None \notin Mails /\ None \notin Accounts
ASSUME BoundsAssumption ==
    /\ MAX_SEND_ATTEMPTS \in Nat \ {0}
    /\ EditBound \in Nat /\ CrashBound \in Nat
ASSUME FaultsAssumption == Faults \in BOOLEAN

Workers == {Scheduler} \cup Clicks

VARIABLES
    status,     \* status ("absent": not scheduled yet, "deleted": forgotten)
    due,        \* send_at <= now
    payload,    \* payload, as the number of edits made to it
    attempts,   \* attempts
    old,        \* a sending row whose updated_at is past the recovery threshold
    delivered,  \* how often the provider has sent the message
    missed,     \* how many of these copies a lookup in Sent has missed
    alive,      \* the process is up
    pc,         \* what each worker does next
    batch,      \* rows list_due or get_by_id returned, not yet tried
    seen,       \* attempts and payload of the row when it was read
    turn,       \* the account _send_for_account works for
    work,       \* rows claimed and not yet settled
    mail,       \* the row in _send_one
    verdict     \* what the worker will record

rowVars == <<status, due, payload, attempts, old>>
workVars == <<pc, batch, seen, turn, work, mail, verdict>>
vars == <<rowVars, delivered, missed, alive, workVars>>

-----------------------------------------------------------------------------
Status == {"absent", "pending", "sending", "sent", "failed", "cancelled", "deleted"}
Terminal == {"sent", "failed", "cancelled"}
PCs == {"idle", "group", "claim", "unserved", "send", "lookup", "dispatch", "record"}

\* What a provider call comes to.  The adapters swallow their exceptions and
\* answer None, also when the message left ("lost"); an exception that reaches
\* the scheduler was raised before anything was sent.
Outcomes == {"ok", "lost", "refused", "unreachable"}

Rows == [attempts : Nat, payload : 0..EditBound]
Unread == [attempts |-> 0, payload |-> 0]

RowTypes ==
    /\ status \in [Mails -> Status]
    /\ due \in [Mails -> BOOLEAN] /\ old \in [Mails -> BOOLEAN]
    /\ payload \in [Mails -> 0..EditBound]
    /\ attempts \in [Mails -> Nat]

WorkTypes ==
    /\ pc \in [Workers -> PCs]
    /\ batch \in [Workers -> SUBSET Mails] /\ work \in [Workers -> SUBSET Mails]
    /\ turn \in [Workers -> Accounts \cup {None}]
    /\ mail \in [Workers -> Mails \cup {None}]
    /\ verdict \in [Workers -> {"none", "sent", "found", "failed", "retry"}]

SeenTypes == seen \in [Workers -> [Mails -> Rows]]

TypeOK ==
    /\ RowTypes /\ WorkTypes /\ SeenTypes
    /\ delivered \in [Mails -> Nat] /\ missed \in [Mails -> Nat]
    /\ alive \in BOOLEAN

Init ==
    /\ status = [m \in Mails |-> "absent"]
    /\ due = [m \in Mails |-> FALSE]
    /\ payload = [m \in Mails |-> 0]
    /\ attempts = [m \in Mails |-> 0]
    /\ old = [m \in Mails |-> FALSE]
    /\ delivered = [m \in Mails |-> 0]
    /\ missed = [m \in Mails |-> 0]
    /\ alive = TRUE
    /\ pc = [w \in Workers |-> "idle"]
    /\ batch = [w \in Workers |-> {}]
    /\ seen = [w \in Workers |-> [m \in Mails |-> Unread]]
    /\ turn = [w \in Workers |-> None]
    /\ work = [w \in Workers |-> {}]
    /\ mail = [w \in Workers |-> None]
    /\ verdict = [w \in Workers |-> "none"]

-----------------------------------------------------------------------------
(* The rows: HTTP handlers, guarded by the status in their UPDATE. *)

Schedule(m) ==
    /\ alive
    /\ status[m] = "absent"
    /\ status' = [status EXCEPT ![m] = "pending"]
    /\ UNCHANGED <<due, payload, attempts, old, delivered, missed, alive, workVars>>

Cancel(m) ==
    /\ alive
    /\ status[m] = "pending"
    /\ status' = [status EXCEPT ![m] = "cancelled"]
    /\ UNCHANGED <<due, payload, attempts, old, delivered, missed, alive, workVars>>

\* PATCH with send_at, then PATCH with a payload: two transactions.
UpdateSendAt(m) ==
    /\ alive
    /\ status[m] = "pending"
    /\ due' = [due EXCEPT ![m] = FALSE]
    /\ UNCHANGED <<status, payload, attempts, old, delivered, missed, alive, workVars>>

UpdatePayload(m) ==
    /\ alive
    /\ status[m] = "pending"
    /\ payload[m] < EditBound
    /\ payload' = [payload EXCEPT ![m] = @ + 1]
    /\ UNCHANGED <<status, due, attempts, old, delivered, missed, alive, workVars>>

\* delete_by_account: the privacy purge of an account.
DeleteByAccount(a) ==
    /\ alive
    /\ \E m \in Mails : AccountOf[m] = a /\ status[m] \notin {"absent", "deleted"}
    /\ status' = [m \in Mails |-> IF AccountOf[m] = a /\ status[m] # "absent"
                                  THEN "deleted" ELSE status[m]]
    /\ old' = [m \in Mails |-> old[m] /\ AccountOf[m] # a]
    /\ due' = [m \in Mails |-> due[m] /\ AccountOf[m] # a]
    /\ payload' = [m \in Mails |-> IF AccountOf[m] = a THEN 0 ELSE payload[m]]
    /\ attempts' = [m \in Mails |-> IF AccountOf[m] = a THEN 0 ELSE attempts[m]]
    /\ UNCHANGED <<delivered, missed, alive, workVars>>

\* Time passes.
BecomeDue(m) ==
    /\ status[m] = "pending" /\ ~due[m]
    /\ due' = [due EXCEPT ![m] = TRUE]
    /\ UNCHANGED <<status, payload, attempts, old, delivered, missed, alive, workVars>>

Age(m) ==
    /\ status[m] = "sending" /\ ~old[m]
    /\ old' = [old EXCEPT ![m] = TRUE]
    /\ UNCHANGED <<status, due, payload, attempts, delivered, missed, alive, workVars>>

-----------------------------------------------------------------------------
(* The workers. *)

Row(m) == [attempts |-> attempts[m], payload |-> payload[m]]
Due == {m \in Mails : status[m] = "pending" /\ due[m]}

\* list_due: the scheduler keeps the rows as they are now.
ListDue ==
    /\ alive
    /\ pc[Scheduler] = "idle" /\ Due # {}
    /\ batch' = [batch EXCEPT ![Scheduler] = Due]
    /\ seen' = [seen EXCEPT ![Scheduler] = [m \in Mails |-> IF m \in Due THEN Row(m) ELSE @[m]]]
    /\ pc' = [pc EXCEPT ![Scheduler] = "group"]
    /\ UNCHANGED <<rowVars, delivered, missed, alive, turn, work, mail, verdict>>

\* _process_due takes the next account.
StartAccount(w, a) ==
    /\ pc[w] = "group"
    /\ \E m \in batch[w] : AccountOf[m] = a
    /\ turn' = [turn EXCEPT ![w] = a]
    /\ pc' = [pc EXCEPT ![w] = "claim"]
    /\ UNCHANGED <<rowVars, delivered, missed, alive, batch, seen, work, mail, verdict>>

\* dispatch_now reads the row, whenever it is due.
SendNow(w, m) ==
    /\ alive
    /\ w \in Clicks /\ pc[w] = "idle"
    /\ status[m] = "pending"
    /\ batch' = [batch EXCEPT ![w] = {m}]
    /\ seen' = [seen EXCEPT ![w][m] = Row(m)]
    /\ turn' = [turn EXCEPT ![w] = AccountOf[m]]
    /\ pc' = [pc EXCEPT ![w] = "claim"]
    /\ UNCHANGED <<rowVars, delivered, missed, alive, work, mail, verdict>>

\* Slip: the claim does not look at the status.
ClaimBlindly(w, m) ==
    /\ pc[w] = "claim"
    /\ m \in batch[w] /\ AccountOf[m] = turn[w]
    /\ batch' = [batch EXCEPT ![w] = @ \ {m}]
    /\ status' = [status EXCEPT ![m] = "sending"]
    /\ attempts' = [attempts EXCEPT ![m] = @ + 1]
    /\ old' = [old EXCEPT ![m] = FALSE]
    /\ work' = [work EXCEPT ![w] = @ \cup {m}]
    /\ UNCHANGED <<due, payload, delivered, missed, alive, pc, seen, turn, mail, verdict>>

\* The worker is done with the row.
Settled(w, m) == seen' = [seen EXCEPT ![w][m] = Unread]

\* claim_for_send: the row moves to sending if it is still pending, and is
\* skipped otherwise.
ClaimForSend(w, m) ==
    /\ pc[w] = "claim"
    /\ m \in batch[w] /\ AccountOf[m] = turn[w]
    /\ batch' = [batch EXCEPT ![w] = @ \ {m}]
    /\ IF status[m] = "pending"
       THEN /\ status' = [status EXCEPT ![m] = "sending"]
            /\ attempts' = [attempts EXCEPT ![m] = @ + 1]
            /\ old' = [old EXCEPT ![m] = FALSE]
            /\ work' = [work EXCEPT ![w] = @ \cup {m}]
            /\ UNCHANGED seen
       ELSE Settled(w, m) /\ UNCHANGED <<status, attempts, old, work>>
    /\ UNCHANGED <<due, payload, delivered, missed, alive, pc, turn, mail, verdict>>

\* Where a worker goes on with the rows M left to settle.
Continue(w, M, here) ==
    /\ pc' = [pc EXCEPT ![w] = IF M # {} THEN here
                               ELSE IF batch[w] # {} THEN "group" ELSE "idle"]
    /\ turn' = [turn EXCEPT ![w] = IF M # {} THEN @ ELSE None]

\* Slip: the rows of an account that does not load are left as they are.
LoadAccountOnly(w) ==
    /\ pc[w] = "claim"
    /\ \A m \in batch[w] : AccountOf[m] # turn[w]
    /\ \/ Continue(w, work[w], "send") /\ UNCHANGED work
       \/ Continue(w, {}, "send") /\ work' = [work EXCEPT ![w] = {}]
    /\ UNCHANGED <<rowVars, delivered, missed, alive, batch, seen, mail, verdict>>

\* _load_account and _make_provider, once every row of the account was tried.
LoadAccount(w) ==
    /\ pc[w] = "claim"
    /\ \A m \in batch[w] : AccountOf[m] # turn[w]
    /\ \/ Continue(w, work[w], "send") /\ UNCHANGED verdict
       \/ /\ work[w] # {}
          /\ pc' = [pc EXCEPT ![w] = "unserved"]
          /\ \E v \in {"failed", "retry"} : verdict' = [verdict EXCEPT ![w] = v]
          /\ UNCHANGED turn
    /\ UNCHANGED <<rowVars, delivered, missed, alive, batch, seen, work, mail>>

\* Slip: one attempt too many.
MayRetryLate(w, m) == seen[w][m].attempts < MAX_SEND_ATTEMPTS

\* The attempt counts from the row as it was read.
MayRetry(w, m) == seen[w][m].attempts + 1 < MAX_SEND_ATTEMPTS

\* Slip: the verdict is written as it is.
MarkVerbatim(m, v) ==
    /\ status' = [status EXCEPT ![m] = IF @ = "deleted" THEN @ ELSE v]
    /\ old' = [old EXCEPT ![m] = FALSE]

\* mark_sent and mark_failed update the row whatever its status; revert_claim
\* only a row in sending.
Mark(m, v) ==
    /\ status' = [status EXCEPT ![m] =
                    CASE @ = "deleted" -> @
                      [] v = "retry" -> IF @ = "sending" THEN "pending" ELSE @
                      [] OTHER -> IF v = "found" THEN "sent" ELSE v]
    /\ old' = [old EXCEPT ![m] = FALSE]

\* The account is gone: failed.  Its provider does not load: the scheduler
\* retries within the budget, "send now" gives up.
MarkUnserved(w, m) ==
    /\ pc[w] = "unserved" /\ m \in work[w]
    /\ Mark(m, IF verdict[w] = "retry" /\ w = Scheduler /\ MayRetry(w, m)
               THEN "retry" ELSE "failed")
    /\ work' = [work EXCEPT ![w] = @ \ {m}]
    /\ Continue(w, work'[w], "unserved")
    /\ verdict' = IF work'[w] = {} THEN [verdict EXCEPT ![w] = "none"] ELSE verdict
    /\ Settled(w, m)
    /\ UNCHANGED <<due, payload, attempts, delivered, missed, alive, batch, mail>>

\* _send_one: a row that was attempted before is looked up in Sent first.
SendOne(w, m) ==
    /\ pc[w] = "send" /\ m \in work[w]
    /\ mail' = [mail EXCEPT ![w] = m]
    /\ pc' = [pc EXCEPT ![w] = IF seen[w][m].attempts = 0 THEN "dispatch" ELSE "lookup"]
    /\ UNCHANGED <<rowVars, delivered, missed, alive, batch, seen, turn, work, verdict>>

Decide(w, v) ==
    /\ pc' = [pc EXCEPT ![w] = "record"]
    /\ verdict' = [verdict EXCEPT ![w] = v]

\* _resolve_previous_attempt.  A provider that cannot verify, or a lookup that
\* raises, fails the row; the Gmail adapter answers an HttpError with None, as
\* if the message were not there.
Lookup(w) ==
    LET m == mail[w]
        verifies == AccountOf[m] \in Verifies
    IN  /\ pc[w] = "lookup"
        /\ \/ Decide(w, "failed") /\ UNCHANGED missed
           \/ verifies /\ delivered[m] > 0 /\ Decide(w, "found") /\ UNCHANGED missed
           \/ /\ verifies
              /\ pc' = [pc EXCEPT ![w] = "dispatch"]
              /\ missed' = [missed EXCEPT ![m] = delivered[m]]
              /\ UNCHANGED verdict
        /\ UNCHANGED <<rowVars, delivered, alive, batch, seen, turn, work, mail>>

\* Slip: an answer without a message id counts as sent.
DispatchTrusting(w, o) ==
    LET m == mail[w] IN
    /\ pc[w] = "dispatch"
    /\ delivered' = IF o \in {"ok", "lost"} THEN [delivered EXCEPT ![m] = @ + 1] ELSE delivered
    /\ Decide(w, CASE o = "unreachable" /\ MayRetry(w, m) -> "retry"
                   [] o = "unreachable" /\ ~MayRetry(w, m) -> "failed"
                   [] OTHER -> "sent")
    /\ UNCHANGED <<rowVars, missed, alive, batch, seen, turn, work, mail>>

\* _dispatch: the provider sends the payload the row had when it was read.
Dispatch(w, o) ==
    LET m == mail[w] IN
    /\ pc[w] = "dispatch"
    /\ delivered' = IF o \in {"ok", "lost"} THEN [delivered EXCEPT ![m] = @ + 1] ELSE delivered
    /\ Decide(w, CASE o = "ok" -> "sent"
                   [] o = "unreachable" /\ MayRetry(w, m) -> "retry"
                   [] OTHER -> "failed")
    /\ UNCHANGED <<rowVars, missed, alive, batch, seen, turn, work, mail>>

\* The message was found in Sent, and mark_sent raises where the errors of the
\* provider are handled: the row is failed, or goes back to pending.
Misrecord(w) ==
    /\ Faults
    /\ pc[w] = "record" /\ verdict[w] = "found"
    /\ \/ Decide(w, "failed")
       \/ MayRetry(w, mail[w]) /\ Decide(w, "retry")
    /\ UNCHANGED <<rowVars, delivered, missed, alive, batch, seen, turn, work, mail>>

Record(w) ==
    /\ pc[w] = "record"
    /\ Mark(mail[w], verdict[w])
    /\ work' = [work EXCEPT ![w] = @ \ {mail[w]}]
    /\ mail' = [mail EXCEPT ![w] = None]
    /\ verdict' = [verdict EXCEPT ![w] = "none"]
    /\ Continue(w, work'[w], "send")
    /\ Settled(w, mail[w])
    /\ UNCHANGED <<due, payload, attempts, delivered, missed, alive, batch>>

-----------------------------------------------------------------------------
(* Failures. *)

\* What the workers W knew is gone.
Forget(W) ==
    /\ pc' = [w \in Workers |-> IF w \in W THEN "idle" ELSE pc[w]]
    /\ batch' = [w \in Workers |-> IF w \in W THEN {} ELSE batch[w]]
    /\ seen' = [w \in Workers |-> IF w \in W THEN [m \in Mails |-> Unread] ELSE seen[w]]
    /\ turn' = [w \in Workers |-> IF w \in W THEN None ELSE turn[w]]
    /\ work' = [w \in Workers |-> IF w \in W THEN {} ELSE work[w]]
    /\ mail' = [w \in Workers |-> IF w \in W THEN None ELSE mail[w]]
    /\ verdict' = [w \in Workers |-> IF w \in W THEN "none" ELSE verdict[w]]

\* A write to the store raises: the tick, or the request, ends there.
AbortTick(w) ==
    /\ Faults
    /\ pc[w] \in {"claim", "unserved", "record"}
    /\ Forget({w})
    /\ UNCHANGED <<rowVars, delivered, missed, alive>>

Crash ==
    /\ Faults /\ alive
    /\ \A m \in Mails : attempts[m] < CrashBound
    /\ alive' = FALSE
    /\ Forget(Workers)
    /\ UNCHANGED <<rowVars, delivered, missed>>

\* Slip: the recovery requeues every row as a fresh one.
StartAfresh ==
    /\ ~alive
    /\ alive' = TRUE
    /\ status' = [m \in Mails |-> IF status[m] = "sending" /\ old[m] THEN "pending" ELSE status[m]]
    /\ attempts' = [m \in Mails |-> IF status[m] = "sending" /\ old[m] THEN 0 ELSE attempts[m]]
    /\ old' = [m \in Mails |-> FALSE]
    /\ UNCHANGED <<due, payload, delivered, missed, workVars>>

\* start: recover_stuck_sending, then the thread.
Start ==
    /\ ~alive
    /\ alive' = TRUE
    /\ status' = [m \in Mails |-> IF status[m] = "sending" /\ old[m] THEN "pending" ELSE status[m]]
    /\ old' = [m \in Mails |-> FALSE]
    /\ UNCHANGED <<due, payload, attempts, delivered, missed, workVars>>

-----------------------------------------------------------------------------
UserStep ==
    \/ \E m \in Mails : \/ Schedule(m) \/ Cancel(m) \/ UpdateSendAt(m) \/ UpdatePayload(m)
                        \/ \E w \in Clicks : SendNow(w, m)
    \/ \E a \in Accounts : DeleteByAccount(a)

WorkerStep(w) ==
    \/ w = Scheduler /\ ListDue
    \/ \E a \in Accounts : StartAccount(w, a)
    \/ \E m \in Mails : ClaimForSend(w, m) \/ MarkUnserved(w, m) \/ SendOne(w, m)
    \/ LoadAccount(w) \/ Lookup(w) \/ Record(w)
    \/ \E o \in Outcomes : Dispatch(w, o)

Next ==
    \/ UserStep
    \/ \E w \in Workers : WorkerStep(w) \/ Misrecord(w) \/ AbortTick(w)
    \/ \E m \in Mails : BecomeDue(m) \/ Age(m)
    \/ Crash
    \/ Start

Spec == Init /\ [][Next]_vars

\* The scheduler polls for ever, a request that was started goes on, time
\* passes, and a crashed backend is started again.
Fairness ==
    /\ \A w \in Workers : WF_vars(WorkerStep(w))
    /\ \A m \in Mails : WF_vars(Age(m))
    /\ WF_vars(Start)

FairSpec == Spec /\ Fairness

-----------------------------------------------------------------------------
(* Properties. *)

\* A message leaves again only after a lookup that missed every copy of it that
\* had left ("Crash recovery must not send a duplicate", the scheduler's tests):
\* neither the scheduler and a "send now" with rows read before each other's
\* claim, nor the retry of a send whose record was lost in a crash, deliver a
\* message twice without having looked for it and been told that it is not there.
NoCopyUnsought == \A m \in Mails : delivered[m] <= missed[m] + 1

\* claim_for_send gives a row to one worker, and the row stays in sending
\* until that worker settles it (or the account is purged): handlers and the
\* recovery leave it alone.
OneSender ==
    \A w \in Workers : \A m \in work[w] :
        /\ status[m] \in {"sending", "deleted"}
        /\ \A v \in Workers \ {w} : m \notin work[v]

\* A row reported sent was delivered, also when only the lookup of a later
\* attempt could tell.
SentWasDelivered == \A m \in Mails : status[m] = "sent" => delivered[m] > 0

\* A message is not delivered once its cancellation, its failure or its
\* delivery is on record, even if a cancel comes between the poll and the claim
\* or a send-now request still holds the row it read before.
SettledIsNotDelivered ==
    [][\A m \in Mails : status[m] \in Terminal => delivered'[m] = delivered[m]]_vars

\* An outcome is final: mark_sent and mark_failed, which do not look at the
\* status, never overwrite another outcome or a cancellation.
OutcomeIsFinal ==
    [][\A m \in Mails : status[m] \in Terminal => status'[m] \in {status[m], "deleted"}]_vars

\* All of this together: whatever is polled, claimed, retried, recovered or
\* lost in a crash, a message goes the way Outbox promises.
Fate(m) == CASE status[m] \in {"pending", "sending"} -> "open"
             [] status[m] = "deleted" -> "gone"
             [] OTHER -> status[m]
Promise == INSTANCE Outbox WITH fate <- [m \in Mails |-> Fate(m)], sent <- delivered
ImplementsOutbox == Promise!Spec

\* A due message is settled or postponed, however often the provider is
\* unreachable and whatever users do beside it.
DueIsSettled ==
    \A m \in Mails : (status[m] = "pending" /\ due[m])
                        ~> (status[m] \notin {"pending", "sending"} \/ ~due[m])

\* start: rows left in sending "would be silently lost. Recover them on startup
\* so the next tick retries delivery."
SendingResolves == \A m \in Mails : status[m] = "sending" ~> status[m] # "sending"

\* PATCH edits "send_at / subject / body / recipients" of a pending message:
\* what is sent is what the row says.
SendsCurrentPayload ==
    \A w \in Workers : \A m \in work[w] : seen[w][m].payload = payload[m]

\* MAX_SEND_ATTEMPTS: "cap on delivery attempts before a transient failure
\* becomes terminal."  Without crashes it is one: the retries of a provider that
\* does not load and of one that is unreachable share it.  A "send now" that read
\* the row before the other attempts were counted adds no more than its own.
AttemptsCapped == \A m \in Mails : attempts[m] <= MAX_SEND_ATTEMPTS + Cardinality(Clicks)
=============================================================================
