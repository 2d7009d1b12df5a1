----------------------------- MODULE MCSyncJobs -----------------------------
(* Instances of SyncJobs for TLC: an inbox that is asked for twice and another *)
(* folder or account beside it.                                              *)
EXTENDS SyncJobs

CONSTANTS r1, r2, r3, inbox, other, a1, a2, s1

InboxTwice == [r \in Requests |-> IF r = r3 THEN other ELSE inbox]
Growing == [r \in Requests |-> IF r = r1 THEN 1 ELSE 2]
TwoAccounts == [s \in Scopes |-> IF s = other THEN a2 ELSE a1]
OneShard == [a \in Accounts |-> s1]
=============================================================================
