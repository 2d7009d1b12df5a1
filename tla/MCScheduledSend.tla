-------------------------- MODULE MCScheduledSend --------------------------
(* Instances of ScheduledSend for TLC. *)
EXTENDS ScheduledSend, TLC

CONSTANTS a1, a2, m1, m2

OneMail == [m \in {m1} |-> a1]
SharedAccount == [m \in {m1, m2} |-> a1]
TwoAccounts == [m \in {m1, m2} |-> IF m = m1 THEN a1 ELSE a2]
SameMails == Permutations({m1, m2})
=============================================================================
