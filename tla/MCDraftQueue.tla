---------------------------- MODULE MCDraftQueue ----------------------------
(* Instances of DraftQueue for TLC: requests for e-mails of two accounts, two  *)
(* of them for the same e-mail.                                              *)
EXTENDS DraftQueue

CONSTANTS r1, r2, r3, r4, k1, k2, k3, a1, a2

EmailOf ==
    [r \in Requests |-> CASE r \in {r1, r2} -> k1 [] r = r3 -> k2 [] OTHER -> k3]
BoxOf == [k \in Keys |-> IF k = k3 THEN a2 ELSE a1]
=============================================================================
