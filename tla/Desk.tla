-------------------------------- MODULE Desk --------------------------------
(***************************************************************************)
(* What the draft queue promises those who ask for drafts, without workers,*)
(* permits, events or the bounded queue: one job at a time for an e-mail   *)
(* and so many for an account; each request gets one answer; the job of an *)
(* accepted one stays on the desk until it has its outcome, which comes    *)
(* once and is "cancelled" only if somebody asked for that; no other       *)
(* request gets a draft.                                                   *)
(***************************************************************************)
EXTENDS Naturals, FiniteSets

CONSTANTS Requests, Keys, KeyOf, AccountOf, PER_ACCOUNT_QUEUE_MAX, None

VARIABLES
    desk,       \* the request whose job each e-mail has
    told,       \* what each request is told
    outcome,    \* what becomes of it
    asked       \* e-mails whose job somebody wanted to cancel

vars == <<desk, told, outcome, asked>>

Init ==
    /\ desk = [k \in Keys |-> None]
    /\ told = [r \in Requests |-> "none"]
    /\ outcome = [r \in Requests |-> "none"]
    /\ asked = {}

OnDesk(r) == desk[KeyOf[r]] = r
KeysOf(a) == {k \in Keys : AccountOf[k] = a}

Lay(r) ==
    /\ told[r] = "none" /\ desk[KeyOf[r]] = None
    /\ Cardinality({k \in KeysOf(AccountOf[KeyOf[r]]) : desk[k] # None}) < PER_ACCOUNT_QUEUE_MAX
    /\ desk' = [desk EXCEPT ![KeyOf[r]] = r]
    /\ UNCHANGED <<told, outcome, asked>>

Accept(r) ==
    /\ told[r] = "none" /\ OnDesk(r)
    /\ told' = [told EXCEPT ![r] = "enqueued"]
    /\ UNCHANGED <<desk, outcome, asked>>

\* Also a job that was laid may be refused, until it is accepted.
Refuse(r) ==
    /\ told[r] = "none"
    /\ told' = [told EXCEPT ![r] = "full"]
    /\ desk' = IF OnDesk(r) THEN [desk EXCEPT ![KeyOf[r]] = None] ELSE desk
    /\ UNCHANGED <<outcome, asked>>

\* The job it is a duplicate of may still be refused.
Duplicate(r) ==
    /\ told[r] = "none" /\ desk[KeyOf[r]] \notin {None, r}
    /\ told' = [told EXCEPT ![r] = "duplicate"]
    /\ UNCHANGED <<desk, outcome, asked>>

Ask(k) ==
    /\ asked' = asked \cup {k}
    /\ UNCHANGED <<desk, told, outcome>>

Serve(r, what) ==
    /\ told[r] = "enqueued" /\ OnDesk(r) /\ outcome[r] = "none"
    /\ what = "cancelled" => KeyOf[r] \in asked
    /\ outcome' = [outcome EXCEPT ![r] = what]
    /\ UNCHANGED <<desk, told, asked>>

Clear(r) ==
    /\ OnDesk(r) /\ outcome[r] # "none"
    /\ desk' = [desk EXCEPT ![KeyOf[r]] = None]
    /\ UNCHANGED <<told, outcome, asked>>

Next ==
    \/ \E r \in Requests : \/ Lay(r) \/ Accept(r) \/ Refuse(r) \/ Duplicate(r) \/ Clear(r)
                           \/ \E what \in {"drafted", "cancelled"} : Serve(r, what)
    \/ \E k \in Keys : Ask(k)

Spec == Init /\ [][Next]_vars
=============================================================================
