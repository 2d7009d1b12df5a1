---------------------------- MODULE MCQuickSteps ----------------------------
(* Instances of QuickSteps for TLC. *)
EXTENDS QuickSteps

CONSTANTS e1, e2, s1, s2, k1

OneMail == <<e1>>
TwoMails == <<e1, e2>>
TwoRules == <<s1, s2>>
FirstRule == <<s1>>
NoRule == <<>>
RuleTwice == <<s1, s1>>
ReplyFirst == [s \in Steps |-> IF s = s1 THEN <<"reply", "other">> ELSE <<"other">>]
SameKey == [c \in Calls |-> k1]
SameRule == [c \in Calls |-> <<s1, e1>>]
=============================================================================
