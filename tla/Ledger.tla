------------------------------- MODULE Ledger -------------------------------
(***************************************************************************)
(* What the bulk-action queue promises the user of a job, without threads, *)
(* claims, attempts, stops or crashes: each item gets one result and keeps *)
(* it, the job gets one verdict and the items agree with it, no result is  *)
(* written after the verdict, and only the user reopens what is settled.   *)
(***************************************************************************)
EXTENDS Naturals

CONSTANTS
    Jobs,   \* bulk jobs
    Items,  \* their items, one per message
    JobOf   \* the job of each item

VARIABLES
    told,   \* what the user is told about each job
    result  \* and about each item

vars == <<told, result>>

Of(j) == {i \in Items : JobOf[i] = j}
With(j, r) == {i \in Of(j) : result[i] = r}

Init ==
    /\ told = [j \in Jobs |-> "absent"]
    /\ result = [i \in Items |-> "none"]

Submit(j) ==
    /\ told[j] = "absent"
    /\ told' = [told EXCEPT ![j] = "open"]
    /\ result' = [i \in Items |-> IF i \in Of(j) THEN "open" ELSE result[i]]

\* Open items of a job without a verdict get their result.  What was on its
\* way when the user cancelled still does.
Settle(j, M, r) ==
    /\ told[j] \in {"open", "cancelled"}
    /\ M \subseteq With(j, "open")
    /\ result' = [i \in Items |-> IF i \in M THEN r ELSE result[i]]
    /\ UNCHANGED told

Cancel(j, M) ==
    /\ told[j] = "open"
    /\ M \subseteq With(j, "open")
    /\ told' = [told EXCEPT ![j] = "cancelled"]
    /\ result' = [i \in Items |-> IF i \in M THEN "skipped" ELSE result[i]]

\* A failed job has no success, a completed one a success or no failure.
Decide(j, verdict) ==
    /\ told[j] = "open"
    /\ verdict = "failed" => With(j, "succeeded") = {}
    /\ verdict = "completed" => With(j, "failed") = {} \/ With(j, "succeeded") # {}
    /\ told' = [told EXCEPT ![j] = verdict]
    /\ UNCHANGED result

\* All failures of a job are tried again, whatever its verdict was.
Retry(j) ==
    /\ told[j] \notin {"absent", "gone", "void"}
    /\ With(j, "failed") # {}
    /\ told' = [told EXCEPT ![j] = "open"]
    /\ result' = [i \in Items |-> IF i \in With(j, "failed") THEN "open" ELSE result[i]]

Dismiss(j) ==
    /\ told[j] \in {"completed", "failed", "cancelled"}
    /\ told' = [told EXCEPT ![j] = "gone"]
    /\ result' = [i \in Items |-> IF i \in Of(j) THEN "none" ELSE result[i]]

\* Nothing is promised any more of the jobs J, which two workers had in hand at once.
Void(J) ==
    /\ told' = [j \in Jobs |-> IF j \in J THEN "void" ELSE told[j]]
    /\ result' = [i \in Items |-> IF JobOf[i] \in J THEN "none" ELSE result[i]]

Next ==
    \/ \E J \in SUBSET Jobs : Void(J)
    \/ \E j \in Jobs :
        \/ Submit(j) \/ Retry(j) \/ Dismiss(j)
        \/ \E M \in SUBSET Items : Cancel(j, M)
        \/ \E M \in SUBSET Items, r \in {"succeeded", "failed", "skipped"} : Settle(j, M, r)
        \/ \E verdict \in {"completed", "failed"} : Decide(j, verdict)

Spec == Init /\ [][Next]_vars
=============================================================================
