----------------------------- MODULE MCBulkJobs -----------------------------
(* Instances of BulkJobs for TLC. *)
EXTENDS BulkJobs, TLC

CONSTANTS a1, t1, t2

\* One job with two items.
OneJob == {1}
TwoItems == 1..2
JobOfTwo == [i \in TwoItems |-> 1]
OneJobAccount == [j \in OneJob |-> a1]

ServedByOne == [t \in {t1} |-> a1]
ServedByTwo == [t \in {t1, t2} |-> a1]
Interchangeable == Permutations({t1, t2})
=============================================================================
