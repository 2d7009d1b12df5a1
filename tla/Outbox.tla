------------------------------- MODULE Outbox -------------------------------
(***************************************************************************)
(* What "send later" promises of a message, without threads, claims,       *)
(* retries or crashes: it leaves once, and again only when a search has    *)
(* missed every copy that left; its outcome is decided once and not before *)
(* it left if it is "sent", and nothing leaves after it.                   *)
(***************************************************************************)
EXTENDS Naturals

CONSTANT Mails      \* messages

VARIABLES
    fate,   \* what the account's owner is told about each message
    sent,   \* how often it left
    missed  \* how many of these copies a search has missed

vars == <<fate, sent, missed>>

Init ==
    /\ fate = [m \in Mails |-> "absent"]
    /\ sent = [m \in Mails |-> 0]
    /\ missed = [m \in Mails |-> 0]

Submit(m) ==
    /\ fate[m] = "absent"
    /\ fate' = [fate EXCEPT ![m] = "open"]
    /\ UNCHANGED <<sent, missed>>

\* A purge does not stop a message that is on its way.
Leave(m) ==
    /\ fate[m] \in {"open", "gone"} /\ sent[m] <= missed[m]
    /\ sent' = [sent EXCEPT ![m] = @ + 1]
    /\ UNCHANGED <<fate, missed>>

\* The message is searched for, and the copies that left are not found.
Miss(m) ==
    /\ fate[m] \in {"open", "gone"}
    /\ missed' = [missed EXCEPT ![m] = sent[m]]
    /\ UNCHANGED <<fate, sent>>

Decide(m, outcome) ==
    /\ fate[m] = "open"
    /\ outcome = "sent" => sent[m] > 0
    /\ fate' = [fate EXCEPT ![m] = outcome]
    /\ UNCHANGED <<sent, missed>>

\* The messages of an account are forgotten.
Purge(M) ==
    /\ \A m \in M : fate[m] # "absent"
    /\ fate' = [m \in Mails |-> IF m \in M THEN "gone" ELSE fate[m]]
    /\ UNCHANGED <<sent, missed>>

Next ==
    \/ \E m \in Mails : Submit(m) \/ Leave(m) \/ Miss(m)
    \/ \E m \in Mails, outcome \in {"sent", "failed", "cancelled"} : Decide(m, outcome)
    \/ \E M \in SUBSET Mails : Purge(M)

Spec == Init /\ [][Next]_vars
=============================================================================
