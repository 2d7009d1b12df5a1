----------------------- MODULE ScheduledSendProofs -----------------------
(***************************************************************************)
(* Proofs about ScheduledSend, for every set of messages, accounts and     *)
(* send-now requests and every bound.  Sender is inductive as it is: who   *)
(* holds a row, and what a verdict rests on.  Delivery extends it:         *)
(* DeliveredIsKnown says where the knowledge of a delivery is, so that a   *)
(* worker reaches Dispatch with a message that already left only after a   *)
(* lookup that missed it.  Capped counts the attempts when nothing         *)
(* crashes.                                                                *)
(***************************************************************************)
EXTENDS ScheduledSend, FiniteSetTheorems, TLAPS

\* A worker that is past "send" holds the row it works on.
HandledIsHeld ==
    \A w \in Workers : pc[w] \in {"lookup", "dispatch", "record"} => mail[w] \in work[w]

\* It records a verdict it has reached.
VerdictReady == \A w \in Workers : pc[w] = "record" => verdict[w] # "none"

\* The verdicts "sent" and "found" are reached with a delivered message only.
SentVerdict ==
    \A w \in Workers :
        pc[w] = "record" /\ verdict[w] \in {"sent", "found"} => delivered[mail[w]] > 0

\* While the process is down no worker remembers anything.
DownIsEmpty ==
    ~alive => \A w \in Workers : pc[w] = "idle" /\ batch[w] = {} /\ work[w] = {}

Sender ==
    /\ TypeOK /\ OneSender
    /\ DownIsEmpty /\ HandledIsHeld /\ VerdictReady /\ SentVerdict
    /\ SentWasDelivered

\* A worker reads a row or holds it, not both.
ReadOrHeld == \A w \in Workers : batch[w] \cap work[w] = {}

\* A row in sending was claimed.
SendingWasTried == \A m \in Mails : status[m] = "sending" => attempts[m] > 0

\* A message that is not scheduled has not left.
AbsentIsNew == \A m \in Mails : status[m] = "absent" => delivered[m] = 0

\* Nobody sends a message of which a copy left that no lookup has missed.
DispatchIsFirst ==
    \A w \in Workers : pc[w] = "dispatch" => delivered[mail[w]] <= missed[mail[w]]

Unheld(m) == \A w \in Workers : m \notin work[w]
Recording(m, w) == pc[w] = "record" /\ mail[w] = m /\ verdict[w] \in {"sent", "failed"}
Tried(m) ==
    /\ attempts[m] > 0 \/ status[m] = "deleted"
    /\ \A w \in Workers : m \in batch[w] \cup work[w] => seen[w][m].attempts > 0

\* Once a message has left, its row says so, or nobody will take it up before
\* the next start, or the worker that sent it is about to record it, or
\* everyone who knows the row knows that it was tried and will look it up.
Known(m) ==
    \/ status[m] \in {"sent", "failed"}
    \/ status[m] \in {"sending", "deleted"} /\ Unheld(m)
    \/ \E w \in Workers : Recording(m, w)
    \/ Tried(m)

DeliveredIsKnown == \A m \in Mails : delivered[m] > 0 => Known(m)

Delivery ==
    /\ Sender
    /\ ReadOrHeld /\ SendingWasTried /\ AbsentIsNew
    /\ DispatchIsFirst /\ DeliveredIsKnown /\ NoCopyUnsought


-----------------------------------------------------------------------------
(* Types. *)

\* The initial state is well typed.
LEMMA TypeInit == Init => TypeOK
  BY SenderAssumption, BoundsAssumption
  DEF Init, TypeOK, RowTypes, WorkTypes, SeenTypes, Status, PCs, Rows, Unread,
         Workers

\* Every step keeps the types.
LEMMA TypeStep ==
    ASSUME TypeOK, HandledIsHeld, VerdictReady, [Next]_vars PROVE TypeOK'
PROOF
<1>1. ASSUME NEW m \in Mails, Schedule(m) PROVE TypeOK'
  <2>1. RowTypes'
    BY <1>1
    DEF Schedule, TypeOK, RowTypes, Status, rowVars, workVars
  <2>2. WorkTypes'
    BY <1>1
    DEF Schedule, TypeOK, WorkTypes, PCs, rowVars, workVars
  <2>3. SeenTypes'
    BY <1>1, BoundsAssumption
    DEF Schedule, TypeOK, RowTypes, SeenTypes, Rows, Unread, rowVars, workVars
  <2>4. delivered' \in [Mails -> Nat] /\ missed' \in [Mails -> Nat] /\ alive' \in BOOLEAN
    BY <1>1
    DEF Schedule, TypeOK, WorkTypes, rowVars, workVars
  <2> QED
    BY <2>1, <2>2, <2>3, <2>4
    DEF TypeOK
<1>2. ASSUME NEW m \in Mails, Cancel(m) PROVE TypeOK'
  <2>1. RowTypes'
    BY <1>2
    DEF Cancel, TypeOK, RowTypes, Status, rowVars, workVars
  <2>2. WorkTypes'
    BY <1>2
    DEF Cancel, TypeOK, WorkTypes, PCs, rowVars, workVars
  <2>3. SeenTypes'
    BY <1>2, BoundsAssumption
    DEF Cancel, TypeOK, RowTypes, SeenTypes, Rows, Unread, rowVars, workVars
  <2>4. delivered' \in [Mails -> Nat] /\ missed' \in [Mails -> Nat] /\ alive' \in BOOLEAN
    BY <1>2
    DEF Cancel, TypeOK, WorkTypes, rowVars, workVars
  <2> QED
    BY <2>1, <2>2, <2>3, <2>4
    DEF TypeOK
<1>3. ASSUME NEW m \in Mails, UpdateSendAt(m) PROVE TypeOK'
  <2>1. RowTypes'
    BY <1>3
    DEF UpdateSendAt, TypeOK, RowTypes, Status, rowVars, workVars
  <2>2. WorkTypes'
    BY <1>3
    DEF UpdateSendAt, TypeOK, WorkTypes, PCs, rowVars, workVars
  <2>3. SeenTypes'
    BY <1>3, BoundsAssumption
    DEF UpdateSendAt, TypeOK, RowTypes, SeenTypes, Rows, Unread, rowVars,
           workVars
  <2>4. delivered' \in [Mails -> Nat] /\ missed' \in [Mails -> Nat] /\ alive' \in BOOLEAN
    BY <1>3
    DEF UpdateSendAt, TypeOK, WorkTypes, rowVars, workVars
  <2> QED
    BY <2>1, <2>2, <2>3, <2>4
    DEF TypeOK
<1>4. ASSUME NEW m \in Mails, UpdatePayload(m) PROVE TypeOK'
  <2>1. RowTypes'
    BY <1>4, BoundsAssumption
    DEF UpdatePayload, TypeOK, RowTypes, Status, rowVars, workVars
  <2>2. WorkTypes'
    BY <1>4, BoundsAssumption
    DEF UpdatePayload, TypeOK, WorkTypes, PCs, rowVars, workVars
  <2>3. SeenTypes'
    BY <1>4, BoundsAssumption
    DEF UpdatePayload, TypeOK, RowTypes, SeenTypes, Rows, Unread, rowVars,
           workVars
  <2>4. delivered' \in [Mails -> Nat] /\ missed' \in [Mails -> Nat] /\ alive' \in BOOLEAN
    BY <1>4, BoundsAssumption
    DEF UpdatePayload, TypeOK, WorkTypes, rowVars, workVars
  <2> QED
    BY <2>1, <2>2, <2>3, <2>4
    DEF TypeOK
<1>5. ASSUME NEW w \in Workers, NEW m \in Mails, SendNow(w, m) PROVE TypeOK'
  <2>1. RowTypes'
    BY <1>5, SenderAssumption
    DEF SendNow, Row, TypeOK, RowTypes, Status, rowVars, workVars
  <2>2. WorkTypes'
    BY <1>5, SenderAssumption
    DEF SendNow, Row, TypeOK, WorkTypes, PCs, rowVars, workVars
  <2>3. SeenTypes'
    BY <1>5, SenderAssumption, BoundsAssumption
    DEF SendNow, Row, TypeOK, RowTypes, SeenTypes, Rows, Unread, rowVars,
           workVars
  <2>4. delivered' \in [Mails -> Nat] /\ missed' \in [Mails -> Nat] /\ alive' \in BOOLEAN
    BY <1>5, SenderAssumption
    DEF SendNow, Row, TypeOK, WorkTypes, rowVars, workVars
  <2> QED
    BY <2>1, <2>2, <2>3, <2>4
    DEF TypeOK
<1>6. ASSUME NEW a \in Accounts, DeleteByAccount(a) PROVE TypeOK'
  <2>1. RowTypes'
    BY <1>6, BoundsAssumption
    DEF DeleteByAccount, TypeOK, RowTypes, Status, rowVars, workVars
  <2>2. WorkTypes'
    BY <1>6, BoundsAssumption
    DEF DeleteByAccount, TypeOK, WorkTypes, PCs, rowVars, workVars
  <2>3. SeenTypes'
    BY <1>6, BoundsAssumption
    DEF DeleteByAccount, TypeOK, RowTypes, SeenTypes, Rows, Unread, rowVars,
           workVars
  <2>4. delivered' \in [Mails -> Nat] /\ missed' \in [Mails -> Nat] /\ alive' \in BOOLEAN
    BY <1>6, BoundsAssumption
    DEF DeleteByAccount, TypeOK, WorkTypes, rowVars, workVars
  <2> QED
    BY <2>1, <2>2, <2>3, <2>4
    DEF TypeOK
<1>7. ASSUME ListDue PROVE TypeOK'
  <2>1. RowTypes'
    BY <1>7
    DEF ListDue, Due, Row, TypeOK, RowTypes, Status, rowVars, workVars
  <2>2. WorkTypes'
    BY <1>7
    DEF ListDue, Due, Row, TypeOK, WorkTypes, PCs, rowVars, workVars
  <2>3. SeenTypes'
    BY <1>7, BoundsAssumption
    DEF ListDue, Due, Row, TypeOK, RowTypes, SeenTypes, Rows, Unread, rowVars,
           workVars
  <2>4. delivered' \in [Mails -> Nat] /\ missed' \in [Mails -> Nat] /\ alive' \in BOOLEAN
    BY <1>7
    DEF ListDue, Due, Row, TypeOK, WorkTypes, rowVars, workVars
  <2> QED
    BY <2>1, <2>2, <2>3, <2>4
    DEF TypeOK
<1>8. ASSUME NEW w \in Workers, NEW a \in Accounts, StartAccount(w, a) PROVE TypeOK'
  <2>1. RowTypes'
    BY <1>8, SenderAssumption
    DEF StartAccount, TypeOK, RowTypes, Status, rowVars, workVars
  <2>2. WorkTypes'
    BY <1>8, SenderAssumption
    DEF StartAccount, TypeOK, WorkTypes, PCs, rowVars, workVars
  <2>3. SeenTypes'
    BY <1>8, SenderAssumption, BoundsAssumption
    DEF StartAccount, TypeOK, RowTypes, SeenTypes, Rows, Unread, rowVars,
           workVars
  <2>4. delivered' \in [Mails -> Nat] /\ missed' \in [Mails -> Nat] /\ alive' \in BOOLEAN
    BY <1>8, SenderAssumption
    DEF StartAccount, TypeOK, WorkTypes, rowVars, workVars
  <2> QED
    BY <2>1, <2>2, <2>3, <2>4
    DEF TypeOK
<1>9. ASSUME NEW w \in Workers, NEW m \in Mails, ClaimForSend(w, m) PROVE TypeOK'
  <2>1. CASE status[m] = "pending"
    <3>1. RowTypes'
      <4>1. status' \in [Mails -> Status]
        BY <1>9, <2>1 DEF ClaimForSend, TypeOK, RowTypes, Status
      <4>2. attempts' \in [Mails -> Nat]
        BY <1>9, <2>1 DEF ClaimForSend, TypeOK, RowTypes
      <4> QED
        BY <1>9, <2>1, <4>1, <4>2 DEF ClaimForSend, TypeOK, RowTypes
    <3>2. WorkTypes' /\ SeenTypes'
      BY <1>9, <2>1 DEF ClaimForSend, TypeOK, WorkTypes, SeenTypes, PCs
    <3>3. delivered' \in [Mails -> Nat] /\ missed' \in [Mails -> Nat] /\ alive' \in BOOLEAN
      BY <1>9 DEF ClaimForSend, TypeOK
    <3> QED
      BY <3>1, <3>2, <3>3 DEF TypeOK
  <2>2. CASE status[m] # "pending"
    <3>1. RowTypes' /\ WorkTypes'
      BY <1>9, <2>2 DEF ClaimForSend, TypeOK, RowTypes, WorkTypes, Status, PCs
    <3>2. SeenTypes'
      <4>1. seen' = [seen EXCEPT ![w][m] = Unread]
        BY <1>9, <2>2 DEF ClaimForSend, Settled
      <4>2. Unread \in Rows
        BY BoundsAssumption DEF Rows, Unread
      <4> QED
        BY <4>1, <4>2 DEF TypeOK, SeenTypes
    <3>3. delivered' \in [Mails -> Nat] /\ missed' \in [Mails -> Nat] /\ alive' \in BOOLEAN
      BY <1>9 DEF ClaimForSend, TypeOK
    <3> QED
      BY <3>1, <3>2, <3>3 DEF TypeOK
  <2> QED
    BY <2>1, <2>2
<1>10. ASSUME NEW w \in Workers, NEW m \in Mails, MarkUnserved(w, m) PROVE TypeOK'
  <2>1. RowTypes'
    BY <1>10
    DEF MarkUnserved, Mark, Continue, Settled, TypeOK, RowTypes, Status,
           rowVars, workVars
  <2>2. WorkTypes'
    BY <1>10
    DEF MarkUnserved, Mark, Continue, Settled, TypeOK, WorkTypes, PCs,
           rowVars, workVars
  <2>3. SeenTypes'
    BY <1>10, BoundsAssumption
    DEF MarkUnserved, Mark, Continue, Settled, TypeOK, RowTypes, SeenTypes,
           Rows, Unread, rowVars, workVars
  <2>4. delivered' \in [Mails -> Nat] /\ missed' \in [Mails -> Nat] /\ alive' \in BOOLEAN
    BY <1>10
    DEF MarkUnserved, Mark, Continue, Settled, TypeOK, WorkTypes, rowVars,
           workVars
  <2> QED
    BY <2>1, <2>2, <2>3, <2>4
    DEF TypeOK
<1>11. ASSUME NEW w \in Workers, NEW m \in Mails, SendOne(w, m) PROVE TypeOK'
  <2>1. RowTypes'
    BY <1>11
    DEF SendOne, TypeOK, RowTypes, Status, rowVars, workVars
  <2>2. WorkTypes'
    BY <1>11
    DEF SendOne, TypeOK, WorkTypes, PCs, rowVars, workVars
  <2>3. SeenTypes'
    BY <1>11, BoundsAssumption
    DEF SendOne, TypeOK, RowTypes, SeenTypes, Rows, Unread, rowVars, workVars
  <2>4. delivered' \in [Mails -> Nat] /\ missed' \in [Mails -> Nat] /\ alive' \in BOOLEAN
    BY <1>11
    DEF SendOne, TypeOK, WorkTypes, rowVars, workVars
  <2> QED
    BY <2>1, <2>2, <2>3, <2>4
    DEF TypeOK
<1>12. ASSUME NEW w \in Workers, LoadAccount(w) PROVE TypeOK'
  <2>1. RowTypes'
    BY <1>12
    DEF LoadAccount, Continue, TypeOK, RowTypes, Status, rowVars, workVars
  <2>2. WorkTypes'
    BY <1>12
    DEF LoadAccount, Continue, TypeOK, WorkTypes, PCs, rowVars, workVars
  <2>3. SeenTypes'
    BY <1>12, BoundsAssumption
    DEF LoadAccount, Continue, TypeOK, RowTypes, SeenTypes, Rows, Unread,
           rowVars, workVars
  <2>4. delivered' \in [Mails -> Nat] /\ missed' \in [Mails -> Nat] /\ alive' \in BOOLEAN
    BY <1>12
    DEF LoadAccount, Continue, TypeOK, WorkTypes, rowVars, workVars
  <2> QED
    BY <2>1, <2>2, <2>3, <2>4
    DEF TypeOK
<1>13. ASSUME NEW w \in Workers, Lookup(w) PROVE TypeOK'
  <2>1. RowTypes'
    BY <1>13
    DEF Lookup, Decide, TypeOK, RowTypes, Status, rowVars, workVars
  <2>2. WorkTypes'
    BY <1>13
    DEF Lookup, Decide, TypeOK, WorkTypes, PCs, rowVars, workVars
  <2>3. SeenTypes'
    BY <1>13, BoundsAssumption
    DEF Lookup, Decide, TypeOK, RowTypes, SeenTypes, Rows, Unread, rowVars,
           workVars
  <2>4. delivered' \in [Mails -> Nat] /\ missed' \in [Mails -> Nat] /\ alive' \in BOOLEAN
    BY <1>13
    DEF Lookup, Decide, TypeOK, WorkTypes, rowVars, workVars
  <2> QED
    BY <2>1, <2>2, <2>3, <2>4
    DEF TypeOK
<1>14. ASSUME NEW w \in Workers, Record(w) PROVE TypeOK'
  <2>1. mail[w] \in Mails /\ verdict[w] \in {"sent", "found", "failed", "retry"}
    BY <1>14 DEF Record, HandledIsHeld, VerdictReady, TypeOK, WorkTypes
  <2>2. RowTypes'
    <3>1. status' \in [Mails -> Status]
      BY <1>14, <2>1 DEF Record, Mark, TypeOK, RowTypes, Status
    <3> QED
      BY <1>14, <3>1 DEF Record, Mark, TypeOK, RowTypes
  <2>3. WorkTypes'
    BY <1>14 DEF Record, Continue, TypeOK, WorkTypes, PCs
  <2>4. SeenTypes'
    <3>1. Unread \in Rows
      BY BoundsAssumption DEF Rows, Unread
    <3> QED
      BY <1>14, <2>1, <3>1 DEF Record, Settled, TypeOK, SeenTypes
  <2>5. delivered' \in [Mails -> Nat] /\ missed' \in [Mails -> Nat] /\ alive' \in BOOLEAN
    BY <1>14 DEF Record, TypeOK
  <2> QED
    BY <2>2, <2>3, <2>4, <2>5 DEF TypeOK
<1>15. ASSUME NEW w \in Workers, NEW o \in Outcomes, Dispatch(w, o) PROVE TypeOK'
  <2>1. mail[w] \in Mails
    BY <1>15 DEF Dispatch, HandledIsHeld, TypeOK, WorkTypes
  <2>2. RowTypes' /\ SeenTypes' /\ alive' \in BOOLEAN
    BY <1>15 DEF Dispatch, TypeOK, RowTypes, SeenTypes, rowVars
  <2>3. WorkTypes'
    BY <1>15 DEF Dispatch, Decide, TypeOK, WorkTypes, PCs
  <2>4. delivered' \in [Mails -> Nat] /\ missed' \in [Mails -> Nat]
    BY <1>15, <2>1 DEF Dispatch, TypeOK
  <2> QED
    BY <2>2, <2>3, <2>4 DEF TypeOK
<1>16. ASSUME NEW w \in Workers, AbortTick(w) PROVE TypeOK'
  <2>1. RowTypes'
    BY <1>16
    DEF AbortTick, Forget, TypeOK, RowTypes, Status, rowVars, workVars
  <2>2. WorkTypes'
    BY <1>16
    DEF AbortTick, Forget, TypeOK, WorkTypes, PCs, rowVars, workVars
  <2>3. SeenTypes'
    BY <1>16, BoundsAssumption
    DEF AbortTick, Forget, TypeOK, RowTypes, SeenTypes, Rows, Unread, rowVars,
           workVars
  <2>4. delivered' \in [Mails -> Nat] /\ missed' \in [Mails -> Nat] /\ alive' \in BOOLEAN
    BY <1>16
    DEF AbortTick, Forget, TypeOK, WorkTypes, rowVars, workVars
  <2> QED
    BY <2>1, <2>2, <2>3, <2>4
    DEF TypeOK
<1>17. ASSUME NEW m \in Mails, BecomeDue(m) PROVE TypeOK'
  <2>1. RowTypes'
    BY <1>17
    DEF BecomeDue, TypeOK, RowTypes, Status, rowVars, workVars
  <2>2. WorkTypes'
    BY <1>17
    DEF BecomeDue, TypeOK, WorkTypes, PCs, rowVars, workVars
  <2>3. SeenTypes'
    BY <1>17, BoundsAssumption
    DEF BecomeDue, TypeOK, RowTypes, SeenTypes, Rows, Unread, rowVars,
           workVars
  <2>4. delivered' \in [Mails -> Nat] /\ missed' \in [Mails -> Nat] /\ alive' \in BOOLEAN
    BY <1>17
    DEF BecomeDue, TypeOK, WorkTypes, rowVars, workVars
  <2> QED
    BY <2>1, <2>2, <2>3, <2>4
    DEF TypeOK
<1>18. ASSUME NEW m \in Mails, Age(m) PROVE TypeOK'
  <2>1. RowTypes'
    BY <1>18
    DEF Age, TypeOK, RowTypes, Status, rowVars, workVars
  <2>2. WorkTypes'
    BY <1>18
    DEF Age, TypeOK, WorkTypes, PCs, rowVars, workVars
  <2>3. SeenTypes'
    BY <1>18, BoundsAssumption
    DEF Age, TypeOK, RowTypes, SeenTypes, Rows, Unread, rowVars, workVars
  <2>4. delivered' \in [Mails -> Nat] /\ missed' \in [Mails -> Nat] /\ alive' \in BOOLEAN
    BY <1>18
    DEF Age, TypeOK, WorkTypes, rowVars, workVars
  <2> QED
    BY <2>1, <2>2, <2>3, <2>4
    DEF TypeOK
<1>19. ASSUME Crash PROVE TypeOK'
  <2>1. RowTypes'
    BY <1>19
    DEF Crash, Forget, TypeOK, RowTypes, Status, rowVars, workVars
  <2>2. WorkTypes'
    BY <1>19
    DEF Crash, Forget, TypeOK, WorkTypes, PCs, rowVars, workVars
  <2>3. SeenTypes'
    BY <1>19, BoundsAssumption
    DEF Crash, Forget, TypeOK, RowTypes, SeenTypes, Rows, Unread, rowVars,
           workVars
  <2>4. delivered' \in [Mails -> Nat] /\ missed' \in [Mails -> Nat] /\ alive' \in BOOLEAN
    BY <1>19
    DEF Crash, Forget, TypeOK, WorkTypes, rowVars, workVars
  <2> QED
    BY <2>1, <2>2, <2>3, <2>4
    DEF TypeOK
<1>20. ASSUME Start PROVE TypeOK'
  <2>1. RowTypes'
    BY <1>20
    DEF Start, TypeOK, RowTypes, Status, rowVars, workVars
  <2>2. WorkTypes'
    BY <1>20
    DEF Start, TypeOK, WorkTypes, PCs, rowVars, workVars
  <2>3. SeenTypes'
    BY <1>20, BoundsAssumption
    DEF Start, TypeOK, RowTypes, SeenTypes, Rows, Unread, rowVars, workVars
  <2>4. delivered' \in [Mails -> Nat] /\ missed' \in [Mails -> Nat] /\ alive' \in BOOLEAN
    BY <1>20
    DEF Start, TypeOK, WorkTypes, rowVars, workVars
  <2> QED
    BY <2>1, <2>2, <2>3, <2>4
    DEF TypeOK
<1>21. CASE UNCHANGED vars
  BY <1>21
  DEF TypeOK, RowTypes, WorkTypes, SeenTypes, rowVars, workVars, vars
<1>22. ASSUME NEW w \in Workers, Misrecord(w) PROVE TypeOK'
  BY <1>22
  DEF Misrecord, Decide, TypeOK, RowTypes, WorkTypes, SeenTypes, PCs, rowVars
<1>23. QED
  BY <1>1, <1>2, <1>3, <1>4, <1>5, <1>6, <1>7, <1>8, <1>9, <1>10, <1>11,
         <1>12, <1>13, <1>14, <1>15, <1>16, <1>17, <1>18, <1>19, <1>20, <1>21,
         <1>22
  DEF Next, UserStep, WorkerStep, Workers

-----------------------------------------------------------------------------
(* Who holds a row, and what it knows. *)

\* Every step leaves a row that is held in sending, or purged, and with one worker.
LEMMA SenderStep ==
    ASSUME TypeOK, DownIsEmpty, HandledIsHeld, OneSender, [Next]_vars PROVE OneSender'
PROOF
<1>1. ASSUME NEW m \in Mails, Schedule(m) PROVE OneSender'
  BY <1>1
  DEF Schedule, OneSender, TypeOK, RowTypes, WorkTypes, rowVars, workVars
<1>2. ASSUME NEW m \in Mails, Cancel(m) PROVE OneSender'
  BY <1>2
  DEF Cancel, OneSender, TypeOK, RowTypes, WorkTypes, rowVars, workVars
<1>3. ASSUME NEW m \in Mails, UpdateSendAt(m) PROVE OneSender'
  BY <1>3
  DEF UpdateSendAt, OneSender, TypeOK, RowTypes, WorkTypes, rowVars, workVars
<1>4. ASSUME NEW m \in Mails, UpdatePayload(m) PROVE OneSender'
  BY <1>4
  DEF UpdatePayload, OneSender, TypeOK, RowTypes, WorkTypes, rowVars, workVars
<1>5. ASSUME NEW w \in Workers, NEW m \in Mails, SendNow(w, m) PROVE OneSender'
  BY <1>5
  DEF SendNow, Row, OneSender, TypeOK, RowTypes, WorkTypes, rowVars, workVars
<1>6. ASSUME NEW a \in Accounts, DeleteByAccount(a) PROVE OneSender'
  BY <1>6
  DEF DeleteByAccount, OneSender, TypeOK, RowTypes, WorkTypes, rowVars,
         workVars
<1>7. ASSUME ListDue PROVE OneSender'
  BY <1>7
  DEF ListDue, Due, Row, OneSender, TypeOK, RowTypes, WorkTypes, rowVars,
         workVars
<1>8. ASSUME NEW w \in Workers, NEW a \in Accounts, StartAccount(w, a) PROVE OneSender'
  BY <1>8
  DEF StartAccount, OneSender, TypeOK, RowTypes, WorkTypes, rowVars, workVars
<1>9. ASSUME NEW w \in Workers, NEW m \in Mails, ClaimForSend(w, m) PROVE OneSender'
  <2>1. CASE status[m] # "pending"
    BY <1>9, <2>1 DEF ClaimForSend, OneSender
  <2>2. CASE status[m] = "pending"
    <3>1. \A v \in Workers : m \notin work[v]
      BY <2>2 DEF OneSender
    <3>2. status' = [status EXCEPT ![m] = "sending"] /\ work' = [work EXCEPT ![w] = @ \cup {m}]
      BY <1>9, <2>2 DEF ClaimForSend
    <3>3. ASSUME NEW v \in Workers, NEW k \in work'[v]
          PROVE  /\ status'[k] \in {"sending", "deleted"}
                 /\ \A u \in Workers \ {v} : k \notin work'[u]
      <4>1. CASE k = m
        BY <3>1, <3>2, <3>3, <4>1 DEF TypeOK, RowTypes, WorkTypes
      <4>2. CASE k # m
        <5>1. k \in work[v]
          BY <3>2, <3>3, <4>2 DEF TypeOK, WorkTypes
        <5> QED
          BY <3>2, <4>2, <5>1 DEF OneSender, TypeOK, RowTypes, WorkTypes
      <4> QED
        BY <4>1, <4>2
    <3> QED
      BY <3>3 DEF OneSender
  <2> QED
    BY <2>1, <2>2
<1>10. ASSUME NEW w \in Workers, NEW m \in Mails, MarkUnserved(w, m) PROVE OneSender'
  BY <1>10
  DEF MarkUnserved, Mark, Continue, Settled, OneSender, TypeOK, RowTypes,
         WorkTypes, rowVars, workVars
<1>11. ASSUME NEW w \in Workers, NEW m \in Mails, SendOne(w, m) PROVE OneSender'
  BY <1>11
  DEF SendOne, OneSender, TypeOK, RowTypes, WorkTypes, rowVars, workVars
<1>12. ASSUME NEW w \in Workers, LoadAccount(w) PROVE OneSender'
  BY <1>12
  DEF LoadAccount, Continue, OneSender, TypeOK, RowTypes, WorkTypes, rowVars,
         workVars
<1>13. ASSUME NEW w \in Workers, Lookup(w) PROVE OneSender'
  BY <1>13
  DEF Lookup, Decide, OneSender, TypeOK, RowTypes, WorkTypes, rowVars,
         workVars
<1>14. ASSUME NEW w \in Workers, Record(w) PROVE OneSender'
  <2>1. mail[w] \in work[w] /\ mail[w] \in Mails
    BY <1>14 DEF Record, HandledIsHeld, TypeOK, WorkTypes
  <2>2. \A k \in Mails : k # mail[w] => status'[k] = status[k]
    BY <1>14, <2>1 DEF Record, Mark, TypeOK, RowTypes
  <2>3. work' = [work EXCEPT ![w] = @ \ {mail[w]}]
    BY <1>14 DEF Record
  <2>4. ASSUME NEW v \in Workers, NEW k \in work'[v]
        PROVE  k \in work[v] /\ k \in Mails /\ k # mail[w]
    BY <2>1, <2>3, <2>4 DEF OneSender, TypeOK, WorkTypes
  <2>5. ASSUME NEW v \in Workers, NEW k \in Mails, k \notin work[v]
        PROVE  k \notin work'[v]
    BY <2>3, <2>5 DEF TypeOK, WorkTypes
  <2> QED
    BY <2>2, <2>4, <2>5 DEF OneSender
<1>15. ASSUME NEW w \in Workers, NEW o \in Outcomes, Dispatch(w, o) PROVE OneSender'
  BY <1>15
  DEF Dispatch, Decide, OneSender, TypeOK, RowTypes, WorkTypes, rowVars,
         workVars
<1>16. ASSUME NEW w \in Workers, AbortTick(w) PROVE OneSender'
  BY <1>16
  DEF AbortTick, Forget, OneSender, TypeOK, RowTypes, WorkTypes, rowVars,
         workVars
<1>17. ASSUME NEW m \in Mails, BecomeDue(m) PROVE OneSender'
  BY <1>17
  DEF BecomeDue, OneSender, TypeOK, RowTypes, WorkTypes, rowVars, workVars
<1>18. ASSUME NEW m \in Mails, Age(m) PROVE OneSender'
  BY <1>18
  DEF Age, OneSender, TypeOK, RowTypes, WorkTypes, rowVars, workVars
<1>19. ASSUME Crash PROVE OneSender'
  BY <1>19
  DEF Crash, Forget, OneSender, TypeOK, RowTypes, WorkTypes, rowVars, workVars
<1>20. ASSUME Start PROVE OneSender'
  BY <1>20 DEF Start, OneSender, DownIsEmpty, workVars
<1>21. CASE UNCHANGED vars
  BY <1>21
  DEF OneSender, TypeOK, RowTypes, WorkTypes, rowVars, workVars, vars
<1>22. ASSUME NEW w \in Workers, Misrecord(w) PROVE OneSender'
  BY <1>22
  DEF Misrecord, Decide, OneSender, TypeOK, RowTypes, WorkTypes, rowVars, workVars
<1>23. QED
  BY <1>1, <1>2, <1>3, <1>4, <1>5, <1>6, <1>7, <1>8, <1>9, <1>10, <1>11,
         <1>12, <1>13, <1>14, <1>15, <1>16, <1>17, <1>18, <1>19, <1>20, <1>21,
         <1>22
  DEF Next, UserStep, WorkerStep, Workers

\* Every step of a stopped process leaves its workers without memory.
LEMMA DownStep ==
    ASSUME TypeOK, DownIsEmpty, [Next]_vars PROVE DownIsEmpty'
PROOF
<1>1. ASSUME NEW m \in Mails, Schedule(m) PROVE DownIsEmpty'
  BY <1>1
  DEF Schedule, DownIsEmpty, TypeOK, RowTypes, WorkTypes, rowVars, workVars
<1>2. ASSUME NEW m \in Mails, Cancel(m) PROVE DownIsEmpty'
  BY <1>2
  DEF Cancel, DownIsEmpty, TypeOK, RowTypes, WorkTypes, rowVars, workVars
<1>3. ASSUME NEW m \in Mails, UpdateSendAt(m) PROVE DownIsEmpty'
  BY <1>3
  DEF UpdateSendAt, DownIsEmpty, TypeOK, RowTypes, WorkTypes, rowVars,
         workVars
<1>4. ASSUME NEW m \in Mails, UpdatePayload(m) PROVE DownIsEmpty'
  BY <1>4
  DEF UpdatePayload, DownIsEmpty, TypeOK, RowTypes, WorkTypes, rowVars,
         workVars
<1>5. ASSUME NEW w \in Workers, NEW m \in Mails, SendNow(w, m) PROVE DownIsEmpty'
  BY <1>5
  DEF SendNow, Row, DownIsEmpty, TypeOK, RowTypes, WorkTypes, rowVars,
         workVars
<1>6. ASSUME NEW a \in Accounts, DeleteByAccount(a) PROVE DownIsEmpty'
  BY <1>6
  DEF DeleteByAccount, DownIsEmpty, TypeOK, RowTypes, WorkTypes, rowVars,
         workVars
<1>7. ASSUME ListDue PROVE DownIsEmpty'
  BY <1>7
  DEF ListDue, Due, Row, DownIsEmpty, TypeOK, RowTypes, WorkTypes, rowVars,
         workVars
<1>8. ASSUME NEW w \in Workers, NEW a \in Accounts, StartAccount(w, a) PROVE DownIsEmpty'
  BY <1>8
  DEF StartAccount, DownIsEmpty, TypeOK, RowTypes, WorkTypes, rowVars,
         workVars
<1>9. ASSUME NEW w \in Workers, NEW m \in Mails, ClaimForSend(w, m) PROVE DownIsEmpty'
  BY <1>9
  DEF ClaimForSend, Settled, DownIsEmpty, TypeOK, RowTypes, WorkTypes,
         rowVars, workVars
<1>10. ASSUME NEW w \in Workers, NEW m \in Mails, MarkUnserved(w, m) PROVE DownIsEmpty'
  BY <1>10
  DEF MarkUnserved, Mark, Continue, Settled, DownIsEmpty, TypeOK, RowTypes,
         WorkTypes, rowVars, workVars
<1>11. ASSUME NEW w \in Workers, NEW m \in Mails, SendOne(w, m) PROVE DownIsEmpty'
  BY <1>11
  DEF SendOne, DownIsEmpty, TypeOK, RowTypes, WorkTypes, rowVars, workVars
<1>12. ASSUME NEW w \in Workers, LoadAccount(w) PROVE DownIsEmpty'
  BY <1>12
  DEF LoadAccount, Continue, DownIsEmpty, TypeOK, RowTypes, WorkTypes,
         rowVars, workVars
<1>13. ASSUME NEW w \in Workers, Lookup(w) PROVE DownIsEmpty'
  BY <1>13
  DEF Lookup, Decide, DownIsEmpty, TypeOK, RowTypes, WorkTypes, rowVars,
         workVars
<1>14. ASSUME NEW w \in Workers, Record(w) PROVE DownIsEmpty'
  BY <1>14
  DEF Record, Mark, Continue, Settled, DownIsEmpty, TypeOK, RowTypes,
         WorkTypes, rowVars, workVars
<1>15. ASSUME NEW w \in Workers, NEW o \in Outcomes, Dispatch(w, o) PROVE DownIsEmpty'
  BY <1>15
  DEF Dispatch, Decide, DownIsEmpty, TypeOK, RowTypes, WorkTypes, rowVars,
         workVars
<1>16. ASSUME NEW w \in Workers, AbortTick(w) PROVE DownIsEmpty'
  BY <1>16
  DEF AbortTick, Forget, DownIsEmpty, TypeOK, RowTypes, WorkTypes, rowVars,
         workVars
<1>17. ASSUME NEW m \in Mails, BecomeDue(m) PROVE DownIsEmpty'
  BY <1>17
  DEF BecomeDue, DownIsEmpty, TypeOK, RowTypes, WorkTypes, rowVars, workVars
<1>18. ASSUME NEW m \in Mails, Age(m) PROVE DownIsEmpty'
  BY <1>18
  DEF Age, DownIsEmpty, TypeOK, RowTypes, WorkTypes, rowVars, workVars
<1>19. ASSUME Crash PROVE DownIsEmpty'
  BY <1>19
  DEF Crash, Forget, DownIsEmpty, TypeOK, RowTypes, WorkTypes, rowVars,
         workVars
<1>20. ASSUME Start PROVE DownIsEmpty'
  BY <1>20
  DEF Start, DownIsEmpty, TypeOK, RowTypes, WorkTypes, rowVars, workVars
<1>21. CASE UNCHANGED vars
  BY <1>21
  DEF DownIsEmpty, TypeOK, RowTypes, WorkTypes, rowVars, workVars, vars
<1>22. ASSUME NEW w \in Workers, Misrecord(w) PROVE DownIsEmpty'
  BY <1>22
  DEF Misrecord, Decide, DownIsEmpty, TypeOK, RowTypes, WorkTypes, rowVars, workVars
<1>23. QED
  BY <1>1, <1>2, <1>3, <1>4, <1>5, <1>6, <1>7, <1>8, <1>9, <1>10, <1>11,
         <1>12, <1>13, <1>14, <1>15, <1>16, <1>17, <1>18, <1>19, <1>20, <1>21,
         <1>22
  DEF Next, UserStep, WorkerStep, Workers

\* Every step keeps the row being handled among those held.
LEMMA HandledStep ==
    ASSUME TypeOK, HandledIsHeld, OneSender, [Next]_vars PROVE HandledIsHeld'
PROOF
<1>1. ASSUME NEW m \in Mails, Schedule(m) PROVE HandledIsHeld'
  BY <1>1
  DEF Schedule, HandledIsHeld, TypeOK, RowTypes, WorkTypes, rowVars, workVars
<1>2. ASSUME NEW m \in Mails, Cancel(m) PROVE HandledIsHeld'
  BY <1>2
  DEF Cancel, HandledIsHeld, TypeOK, RowTypes, WorkTypes, rowVars, workVars
<1>3. ASSUME NEW m \in Mails, UpdateSendAt(m) PROVE HandledIsHeld'
  BY <1>3
  DEF UpdateSendAt, HandledIsHeld, TypeOK, RowTypes, WorkTypes, rowVars,
         workVars
<1>4. ASSUME NEW m \in Mails, UpdatePayload(m) PROVE HandledIsHeld'
  BY <1>4
  DEF UpdatePayload, HandledIsHeld, TypeOK, RowTypes, WorkTypes, rowVars,
         workVars
<1>5. ASSUME NEW w \in Workers, NEW m \in Mails, SendNow(w, m) PROVE HandledIsHeld'
  BY <1>5
  DEF SendNow, Row, HandledIsHeld, TypeOK, RowTypes, WorkTypes, rowVars,
         workVars
<1>6. ASSUME NEW a \in Accounts, DeleteByAccount(a) PROVE HandledIsHeld'
  BY <1>6
  DEF DeleteByAccount, HandledIsHeld, TypeOK, RowTypes, WorkTypes, rowVars,
         workVars
<1>7. ASSUME ListDue PROVE HandledIsHeld'
  BY <1>7
  DEF ListDue, Due, Row, HandledIsHeld, TypeOK, RowTypes, WorkTypes, rowVars,
         workVars
<1>8. ASSUME NEW w \in Workers, NEW a \in Accounts, StartAccount(w, a) PROVE HandledIsHeld'
  BY <1>8
  DEF StartAccount, HandledIsHeld, TypeOK, RowTypes, WorkTypes, rowVars,
         workVars
<1>9. ASSUME NEW w \in Workers, NEW m \in Mails, ClaimForSend(w, m) PROVE HandledIsHeld'
  BY <1>9
  DEF ClaimForSend, Settled, HandledIsHeld, TypeOK, RowTypes, WorkTypes,
         rowVars, workVars
<1>10. ASSUME NEW w \in Workers, NEW m \in Mails, MarkUnserved(w, m) PROVE HandledIsHeld'
  BY <1>10
  DEF MarkUnserved, Mark, Continue, Settled, HandledIsHeld, TypeOK, RowTypes,
         WorkTypes, rowVars, workVars
<1>11. ASSUME NEW w \in Workers, NEW m \in Mails, SendOne(w, m) PROVE HandledIsHeld'
  BY <1>11
  DEF SendOne, HandledIsHeld, TypeOK, RowTypes, WorkTypes, rowVars, workVars
<1>12. ASSUME NEW w \in Workers, LoadAccount(w) PROVE HandledIsHeld'
  BY <1>12
  DEF LoadAccount, Continue, HandledIsHeld, TypeOK, RowTypes, WorkTypes,
         rowVars, workVars
<1>13. ASSUME NEW w \in Workers, Lookup(w) PROVE HandledIsHeld'
  BY <1>13
  DEF Lookup, Decide, HandledIsHeld, TypeOK, RowTypes, WorkTypes, rowVars,
         workVars
<1>14. ASSUME NEW w \in Workers, Record(w) PROVE HandledIsHeld'
  BY <1>14
  DEF Record, Mark, Continue, Settled, HandledIsHeld, TypeOK, RowTypes,
         WorkTypes, rowVars, workVars
<1>15. ASSUME NEW w \in Workers, NEW o \in Outcomes, Dispatch(w, o) PROVE HandledIsHeld'
  BY <1>15
  DEF Dispatch, Decide, HandledIsHeld, TypeOK, RowTypes, WorkTypes, rowVars,
         workVars
<1>16. ASSUME NEW w \in Workers, AbortTick(w) PROVE HandledIsHeld'
  BY <1>16
  DEF AbortTick, Forget, HandledIsHeld, TypeOK, RowTypes, WorkTypes, rowVars,
         workVars
<1>17. ASSUME NEW m \in Mails, BecomeDue(m) PROVE HandledIsHeld'
  BY <1>17
  DEF BecomeDue, HandledIsHeld, TypeOK, RowTypes, WorkTypes, rowVars, workVars
<1>18. ASSUME NEW m \in Mails, Age(m) PROVE HandledIsHeld'
  BY <1>18
  DEF Age, HandledIsHeld, TypeOK, RowTypes, WorkTypes, rowVars, workVars
<1>19. ASSUME Crash PROVE HandledIsHeld'
  BY <1>19
  DEF Crash, Forget, HandledIsHeld, TypeOK, RowTypes, WorkTypes, rowVars,
         workVars
<1>20. ASSUME Start PROVE HandledIsHeld'
  BY <1>20
  DEF Start, HandledIsHeld, TypeOK, RowTypes, WorkTypes, rowVars, workVars
<1>21. CASE UNCHANGED vars
  BY <1>21
  DEF HandledIsHeld, TypeOK, RowTypes, WorkTypes, rowVars, workVars, vars
<1>22. ASSUME NEW w \in Workers, Misrecord(w) PROVE HandledIsHeld'
  BY <1>22
  DEF Misrecord, Decide, HandledIsHeld, TypeOK, RowTypes, WorkTypes, rowVars,
      workVars
<1>23. QED
  BY <1>1, <1>2, <1>3, <1>4, <1>5, <1>6, <1>7, <1>8, <1>9, <1>10, <1>11,
         <1>12, <1>13, <1>14, <1>15, <1>16, <1>17, <1>18, <1>19, <1>20, <1>21,
         <1>22
  DEF Next, UserStep, WorkerStep, Workers

\* Nobody records without a verdict.
LEMMA VerdictStep ==
    ASSUME TypeOK, VerdictReady, [Next]_vars PROVE VerdictReady'
PROOF
<1>1. ASSUME NEW m \in Mails, Schedule(m) PROVE VerdictReady'
  BY <1>1
  DEF Schedule, VerdictReady, TypeOK, RowTypes, WorkTypes, rowVars, workVars
<1>2. ASSUME NEW m \in Mails, Cancel(m) PROVE VerdictReady'
  BY <1>2
  DEF Cancel, VerdictReady, TypeOK, RowTypes, WorkTypes, rowVars, workVars
<1>3. ASSUME NEW m \in Mails, UpdateSendAt(m) PROVE VerdictReady'
  BY <1>3
  DEF UpdateSendAt, VerdictReady, TypeOK, RowTypes, WorkTypes, rowVars,
         workVars
<1>4. ASSUME NEW m \in Mails, UpdatePayload(m) PROVE VerdictReady'
  BY <1>4
  DEF UpdatePayload, VerdictReady, TypeOK, RowTypes, WorkTypes, rowVars,
         workVars
<1>5. ASSUME NEW w \in Workers, NEW m \in Mails, SendNow(w, m) PROVE VerdictReady'
  BY <1>5
  DEF SendNow, Row, VerdictReady, TypeOK, RowTypes, WorkTypes, rowVars,
         workVars
<1>6. ASSUME NEW a \in Accounts, DeleteByAccount(a) PROVE VerdictReady'
  BY <1>6
  DEF DeleteByAccount, VerdictReady, TypeOK, RowTypes, WorkTypes, rowVars,
         workVars
<1>7. ASSUME ListDue PROVE VerdictReady'
  BY <1>7
  DEF ListDue, Due, Row, VerdictReady, TypeOK, RowTypes, WorkTypes, rowVars,
         workVars
<1>8. ASSUME NEW w \in Workers, NEW a \in Accounts, StartAccount(w, a) PROVE VerdictReady'
  BY <1>8
  DEF StartAccount, VerdictReady, TypeOK, RowTypes, WorkTypes, rowVars,
         workVars
<1>9. ASSUME NEW w \in Workers, NEW m \in Mails, ClaimForSend(w, m) PROVE VerdictReady'
  BY <1>9
  DEF ClaimForSend, Settled, VerdictReady, TypeOK, RowTypes, WorkTypes,
         rowVars, workVars
<1>10. ASSUME NEW w \in Workers, NEW m \in Mails, MarkUnserved(w, m) PROVE VerdictReady'
  BY <1>10
  DEF MarkUnserved, Mark, Continue, Settled, VerdictReady, TypeOK, RowTypes,
         WorkTypes, rowVars, workVars
<1>11. ASSUME NEW w \in Workers, NEW m \in Mails, SendOne(w, m) PROVE VerdictReady'
  BY <1>11
  DEF SendOne, VerdictReady, TypeOK, RowTypes, WorkTypes, rowVars, workVars
<1>12. ASSUME NEW w \in Workers, LoadAccount(w) PROVE VerdictReady'
  BY <1>12
  DEF LoadAccount, Continue, VerdictReady, TypeOK, RowTypes, WorkTypes,
         rowVars, workVars
<1>13. ASSUME NEW w \in Workers, Lookup(w) PROVE VerdictReady'
  BY <1>13
  DEF Lookup, Decide, VerdictReady, TypeOK, RowTypes, WorkTypes, rowVars,
         workVars
<1>14. ASSUME NEW w \in Workers, Record(w) PROVE VerdictReady'
  BY <1>14
  DEF Record, Mark, Continue, Settled, VerdictReady, TypeOK, RowTypes,
         WorkTypes, rowVars, workVars
<1>15. ASSUME NEW w \in Workers, NEW o \in Outcomes, Dispatch(w, o) PROVE VerdictReady'
  BY <1>15
  DEF Dispatch, Decide, Outcomes, VerdictReady, TypeOK, RowTypes, WorkTypes,
         rowVars, workVars
<1>16. ASSUME NEW w \in Workers, AbortTick(w) PROVE VerdictReady'
  BY <1>16
  DEF AbortTick, Forget, VerdictReady, TypeOK, RowTypes, WorkTypes, rowVars,
         workVars
<1>17. ASSUME NEW m \in Mails, BecomeDue(m) PROVE VerdictReady'
  BY <1>17
  DEF BecomeDue, VerdictReady, TypeOK, RowTypes, WorkTypes, rowVars, workVars
<1>18. ASSUME NEW m \in Mails, Age(m) PROVE VerdictReady'
  BY <1>18
  DEF Age, VerdictReady, TypeOK, RowTypes, WorkTypes, rowVars, workVars
<1>19. ASSUME Crash PROVE VerdictReady'
  BY <1>19
  DEF Crash, Forget, VerdictReady, TypeOK, RowTypes, WorkTypes, rowVars,
         workVars
<1>20. ASSUME Start PROVE VerdictReady'
  BY <1>20
  DEF Start, VerdictReady, TypeOK, RowTypes, WorkTypes, rowVars, workVars
<1>21. CASE UNCHANGED vars
  BY <1>21
  DEF VerdictReady, TypeOK, RowTypes, WorkTypes, rowVars, workVars, vars
<1>22. ASSUME NEW w \in Workers, Misrecord(w) PROVE VerdictReady'
  BY <1>22
  DEF Misrecord, Decide, VerdictReady, TypeOK, RowTypes, WorkTypes, rowVars, workVars
<1>23. QED
  BY <1>1, <1>2, <1>3, <1>4, <1>5, <1>6, <1>7, <1>8, <1>9, <1>10, <1>11,
         <1>12, <1>13, <1>14, <1>15, <1>16, <1>17, <1>18, <1>19, <1>20, <1>21,
         <1>22
  DEF Next, UserStep, WorkerStep, Workers

\* Every step keeps what the verdict sent rests on.
LEMMA SentVerdictStep ==
    ASSUME TypeOK, HandledIsHeld, OneSender, SentVerdict, [Next]_vars PROVE SentVerdict'
PROOF
<1>1. ASSUME NEW m \in Mails, Schedule(m) PROVE SentVerdict'
  BY <1>1
  DEF Schedule, SentVerdict, TypeOK, RowTypes, WorkTypes, rowVars, workVars
<1>2. ASSUME NEW m \in Mails, Cancel(m) PROVE SentVerdict'
  BY <1>2
  DEF Cancel, SentVerdict, TypeOK, RowTypes, WorkTypes, rowVars, workVars
<1>3. ASSUME NEW m \in Mails, UpdateSendAt(m) PROVE SentVerdict'
  BY <1>3
  DEF UpdateSendAt, SentVerdict, TypeOK, RowTypes, WorkTypes, rowVars,
         workVars
<1>4. ASSUME NEW m \in Mails, UpdatePayload(m) PROVE SentVerdict'
  BY <1>4
  DEF UpdatePayload, SentVerdict, TypeOK, RowTypes, WorkTypes, rowVars,
         workVars
<1>5. ASSUME NEW w \in Workers, NEW m \in Mails, SendNow(w, m) PROVE SentVerdict'
  BY <1>5
  DEF SendNow, Row, SentVerdict, TypeOK, RowTypes, WorkTypes, rowVars,
         workVars
<1>6. ASSUME NEW a \in Accounts, DeleteByAccount(a) PROVE SentVerdict'
  BY <1>6
  DEF DeleteByAccount, SentVerdict, TypeOK, RowTypes, WorkTypes, rowVars,
         workVars
<1>7. ASSUME ListDue PROVE SentVerdict'
  BY <1>7
  DEF ListDue, Due, Row, SentVerdict, TypeOK, RowTypes, WorkTypes, rowVars,
         workVars
<1>8. ASSUME NEW w \in Workers, NEW a \in Accounts, StartAccount(w, a) PROVE SentVerdict'
  BY <1>8
  DEF StartAccount, SentVerdict, TypeOK, RowTypes, WorkTypes, rowVars,
         workVars
<1>9. ASSUME NEW w \in Workers, NEW m \in Mails, ClaimForSend(w, m) PROVE SentVerdict'
  BY <1>9
  DEF ClaimForSend, Settled, SentVerdict, TypeOK, RowTypes, WorkTypes,
         rowVars, workVars
<1>10. ASSUME NEW w \in Workers, NEW m \in Mails, MarkUnserved(w, m) PROVE SentVerdict'
  BY <1>10
  DEF MarkUnserved, Mark, Continue, Settled, SentVerdict, TypeOK, RowTypes,
         WorkTypes, rowVars, workVars
<1>11. ASSUME NEW w \in Workers, NEW m \in Mails, SendOne(w, m) PROVE SentVerdict'
  BY <1>11
  DEF SendOne, SentVerdict, TypeOK, RowTypes, WorkTypes, rowVars, workVars
<1>12. ASSUME NEW w \in Workers, LoadAccount(w) PROVE SentVerdict'
  BY <1>12
  DEF LoadAccount, Continue, SentVerdict, TypeOK, RowTypes, WorkTypes,
         rowVars, workVars
<1>13. ASSUME NEW w \in Workers, Lookup(w) PROVE SentVerdict'
  BY <1>13
  DEF Lookup, Decide, SentVerdict, TypeOK, RowTypes, WorkTypes, rowVars,
         workVars
<1>14. ASSUME NEW w \in Workers, Record(w) PROVE SentVerdict'
  BY <1>14
  DEF Record, Mark, Continue, Settled, SentVerdict, TypeOK, RowTypes,
         WorkTypes, rowVars, workVars
<1>15. ASSUME NEW w \in Workers, NEW o \in Outcomes, Dispatch(w, o) PROVE SentVerdict'
  <2>1. mail[w] \in work[w] /\ mail[w] \in Mails
    BY <1>15 DEF Dispatch, HandledIsHeld, TypeOK, WorkTypes
  <2>2. \A k \in Mails : delivered[k] > 0 => delivered'[k] > 0
    BY <1>15, <2>1 DEF Dispatch, TypeOK
  <2>3. ASSUME NEW v \in Workers, pc'[v] = "record", verdict'[v] \in {"sent", "found"}
        PROVE  delivered'[mail'[v]] > 0
    <3>1. CASE v = w
      <4>1. o = "ok"
        BY <1>15, <2>3, <3>1 DEF Dispatch, Decide, TypeOK, WorkTypes
      <4>2. delivered' = [delivered EXCEPT ![mail[w]] = @ + 1] /\ mail' = mail
        BY <1>15, <4>1 DEF Dispatch
      <4> QED
        BY <2>1, <3>1, <4>2 DEF TypeOK
    <3>2. CASE v # w
      <4>1. pc[v] = "record" /\ verdict[v] \in {"sent", "found"} /\ mail' = mail
        BY <1>15, <2>3, <3>2 DEF Dispatch, Decide, TypeOK, WorkTypes
      <4>2. mail[v] \in Mails
        BY <4>1 DEF HandledIsHeld, TypeOK, WorkTypes
      <4> QED
        BY <2>2, <4>1, <4>2 DEF SentVerdict
    <3> QED
      BY <3>1, <3>2
  <2> QED
    BY <2>3 DEF SentVerdict
<1>16. ASSUME NEW w \in Workers, AbortTick(w) PROVE SentVerdict'
  BY <1>16
  DEF AbortTick, Forget, SentVerdict, TypeOK, RowTypes, WorkTypes, rowVars,
         workVars
<1>17. ASSUME NEW m \in Mails, BecomeDue(m) PROVE SentVerdict'
  BY <1>17
  DEF BecomeDue, SentVerdict, TypeOK, RowTypes, WorkTypes, rowVars, workVars
<1>18. ASSUME NEW m \in Mails, Age(m) PROVE SentVerdict'
  BY <1>18
  DEF Age, SentVerdict, TypeOK, RowTypes, WorkTypes, rowVars, workVars
<1>19. ASSUME Crash PROVE SentVerdict'
  BY <1>19
  DEF Crash, Forget, SentVerdict, TypeOK, RowTypes, WorkTypes, rowVars,
         workVars
<1>20. ASSUME Start PROVE SentVerdict'
  BY <1>20
  DEF Start, SentVerdict, TypeOK, RowTypes, WorkTypes, rowVars, workVars
<1>21. CASE UNCHANGED vars
  BY <1>21
  DEF SentVerdict, TypeOK, RowTypes, WorkTypes, rowVars, workVars, vars
<1>22. ASSUME NEW w \in Workers, Misrecord(w) PROVE SentVerdict'
  BY <1>22
  DEF Misrecord, Decide, SentVerdict, TypeOK, RowTypes, WorkTypes, rowVars, workVars
<1>23. QED
  BY <1>1, <1>2, <1>3, <1>4, <1>5, <1>6, <1>7, <1>8, <1>9, <1>10, <1>11,
         <1>12, <1>13, <1>14, <1>15, <1>16, <1>17, <1>18, <1>19, <1>20, <1>21,
         <1>22
  DEF Next, UserStep, WorkerStep, Workers

\* Only a delivered message becomes sent.
LEMMA SentStep ==
    ASSUME TypeOK, HandledIsHeld, OneSender, SentVerdict, SentWasDelivered, [Next]_vars PROVE SentWasDelivered'
PROOF
<1>1. ASSUME NEW m \in Mails, Schedule(m) PROVE SentWasDelivered'
  BY <1>1
  DEF Schedule, SentWasDelivered, TypeOK, RowTypes, WorkTypes, rowVars,
         workVars
<1>2. ASSUME NEW m \in Mails, Cancel(m) PROVE SentWasDelivered'
  BY <1>2
  DEF Cancel, SentWasDelivered, TypeOK, RowTypes, WorkTypes, rowVars, workVars
<1>3. ASSUME NEW m \in Mails, UpdateSendAt(m) PROVE SentWasDelivered'
  BY <1>3
  DEF UpdateSendAt, SentWasDelivered, TypeOK, RowTypes, WorkTypes, rowVars,
         workVars
<1>4. ASSUME NEW m \in Mails, UpdatePayload(m) PROVE SentWasDelivered'
  BY <1>4
  DEF UpdatePayload, SentWasDelivered, TypeOK, RowTypes, WorkTypes, rowVars,
         workVars
<1>5. ASSUME NEW w \in Workers, NEW m \in Mails, SendNow(w, m) PROVE SentWasDelivered'
  BY <1>5
  DEF SendNow, Row, SentWasDelivered, TypeOK, RowTypes, WorkTypes, rowVars,
         workVars
<1>6. ASSUME NEW a \in Accounts, DeleteByAccount(a) PROVE SentWasDelivered'
  BY <1>6
  DEF DeleteByAccount, SentWasDelivered, TypeOK, RowTypes, WorkTypes, rowVars,
         workVars
<1>7. ASSUME ListDue PROVE SentWasDelivered'
  BY <1>7
  DEF ListDue, Due, Row, SentWasDelivered, TypeOK, RowTypes, WorkTypes,
         rowVars, workVars
<1>8. ASSUME NEW w \in Workers, NEW a \in Accounts, StartAccount(w, a) PROVE SentWasDelivered'
  BY <1>8
  DEF StartAccount, SentWasDelivered, TypeOK, RowTypes, WorkTypes, rowVars,
         workVars
<1>9. ASSUME NEW w \in Workers, NEW m \in Mails, ClaimForSend(w, m) PROVE SentWasDelivered'
  BY <1>9
  DEF ClaimForSend, Settled, SentWasDelivered, TypeOK, RowTypes, WorkTypes,
         rowVars, workVars
<1>10. ASSUME NEW w \in Workers, NEW m \in Mails, MarkUnserved(w, m) PROVE SentWasDelivered'
  BY <1>10
  DEF MarkUnserved, Mark, Continue, Settled, SentWasDelivered, TypeOK,
         RowTypes, WorkTypes, rowVars, workVars
<1>11. ASSUME NEW w \in Workers, NEW m \in Mails, SendOne(w, m) PROVE SentWasDelivered'
  BY <1>11
  DEF SendOne, SentWasDelivered, TypeOK, RowTypes, WorkTypes, rowVars,
         workVars
<1>12. ASSUME NEW w \in Workers, LoadAccount(w) PROVE SentWasDelivered'
  BY <1>12
  DEF LoadAccount, Continue, SentWasDelivered, TypeOK, RowTypes, WorkTypes,
         rowVars, workVars
<1>13. ASSUME NEW w \in Workers, Lookup(w) PROVE SentWasDelivered'
  BY <1>13
  DEF Lookup, Decide, SentWasDelivered, TypeOK, RowTypes, WorkTypes, rowVars,
         workVars
<1>14. ASSUME NEW w \in Workers, Record(w) PROVE SentWasDelivered'
  <2>1. mail[w] \in work[w] /\ mail[w] \in Mails
    BY <1>14 DEF Record, HandledIsHeld, TypeOK, WorkTypes
  <2>2. status[mail[w]] \in {"sending", "deleted"}
    BY <2>1 DEF OneSender
  <2>3. delivered' = delivered
    BY <1>14 DEF Record
  <2>4. status'[mail[w]] = "sent" => delivered[mail[w]] > 0
    BY <1>14, <2>1, <2>2 DEF Record, Mark, SentVerdict, TypeOK, RowTypes
  <2>5. \A k \in Mails : k # mail[w] => status'[k] = status[k]
    BY <1>14, <2>1 DEF Record, Mark, TypeOK, RowTypes
  <2> QED
    BY <2>3, <2>4, <2>5 DEF SentWasDelivered
<1>15. ASSUME NEW w \in Workers, NEW o \in Outcomes, Dispatch(w, o) PROVE SentWasDelivered'
  BY <1>15
  DEF Dispatch, Decide, SentWasDelivered, TypeOK, RowTypes, WorkTypes,
         rowVars, workVars
<1>16. ASSUME NEW w \in Workers, AbortTick(w) PROVE SentWasDelivered'
  BY <1>16
  DEF AbortTick, Forget, SentWasDelivered, TypeOK, RowTypes, WorkTypes,
         rowVars, workVars
<1>17. ASSUME NEW m \in Mails, BecomeDue(m) PROVE SentWasDelivered'
  BY <1>17
  DEF BecomeDue, SentWasDelivered, TypeOK, RowTypes, WorkTypes, rowVars,
         workVars
<1>18. ASSUME NEW m \in Mails, Age(m) PROVE SentWasDelivered'
  BY <1>18
  DEF Age, SentWasDelivered, TypeOK, RowTypes, WorkTypes, rowVars, workVars
<1>19. ASSUME Crash PROVE SentWasDelivered'
  BY <1>19
  DEF Crash, Forget, SentWasDelivered, TypeOK, RowTypes, WorkTypes, rowVars,
         workVars
<1>20. ASSUME Start PROVE SentWasDelivered'
  BY <1>20
  DEF Start, SentWasDelivered, TypeOK, RowTypes, WorkTypes, rowVars, workVars
<1>21. CASE UNCHANGED vars
  BY <1>21
  DEF SentWasDelivered, TypeOK, RowTypes, WorkTypes, rowVars, workVars, vars
<1>22. ASSUME NEW w \in Workers, Misrecord(w) PROVE SentWasDelivered'
  BY <1>22
  DEF Misrecord, Decide, SentWasDelivered, TypeOK, RowTypes, WorkTypes, rowVars,
      workVars
<1>23. QED
  BY <1>1, <1>2, <1>3, <1>4, <1>5, <1>6, <1>7, <1>8, <1>9, <1>10, <1>11,
         <1>12, <1>13, <1>14, <1>15, <1>16, <1>17, <1>18, <1>19, <1>20, <1>21,
         <1>22
  DEF Next, UserStep, WorkerStep, Workers

LEMMA SenderInit == Init => Sender
  BY TypeInit
  DEF Init, Sender, OneSender, DownIsEmpty, HandledIsHeld, VerdictReady,
      SentVerdict, SentWasDelivered

\* Sender is inductive.
THEOREM SenderInvariant == Spec => []Sender
PROOF
<1>1. Init => Sender
  BY SenderInit
<1>2. Sender /\ [Next]_vars => Sender'
  BY TypeStep, SenderStep, DownStep, HandledStep, VerdictStep, SentVerdictStep, SentStep
  DEF Sender
<1> QED
  BY <1>1, <1>2, PTL DEF Spec

\* The variables keep their types.
THEOREM TypeCorrect == Spec => []TypeOK
  BY SenderInvariant, PTL DEF Sender

\* claim_for_send gives a row to one worker, which alone settles it.
THEOREM OneSenderHolds == Spec => []OneSender
  BY SenderInvariant, PTL DEF Sender

\* A row reported sent was delivered, whatever crashes and lookups do.
THEOREM SentCorrect == Spec => []SentWasDelivered
  BY SenderInvariant, PTL DEF Sender

-----------------------------------------------------------------------------
(* No message leaves again unsought. *)

\* Claiming a row takes it from what was read to what is held.
LEMMA ReadStep ==
    ASSUME Sender, ReadOrHeld, [Next]_vars PROVE ReadOrHeld'
PROOF
<1>1. ASSUME NEW m \in Mails, Schedule(m) PROVE ReadOrHeld'
  BY <1>1
  DEF Schedule, ReadOrHeld, Sender, OneSender, TypeOK, RowTypes, WorkTypes,
         rowVars, workVars
<1>2. ASSUME NEW m \in Mails, Cancel(m) PROVE ReadOrHeld'
  BY <1>2
  DEF Cancel, ReadOrHeld, Sender, OneSender, TypeOK, RowTypes, WorkTypes,
         rowVars, workVars
<1>3. ASSUME NEW m \in Mails, UpdateSendAt(m) PROVE ReadOrHeld'
  BY <1>3
  DEF UpdateSendAt, ReadOrHeld, Sender, OneSender, TypeOK, RowTypes,
         WorkTypes, rowVars, workVars
<1>4. ASSUME NEW m \in Mails, UpdatePayload(m) PROVE ReadOrHeld'
  BY <1>4
  DEF UpdatePayload, ReadOrHeld, Sender, OneSender, TypeOK, RowTypes,
         WorkTypes, rowVars, workVars
<1>5. ASSUME NEW w \in Workers, NEW m \in Mails, SendNow(w, m) PROVE ReadOrHeld'
  BY <1>5
  DEF SendNow, Row, ReadOrHeld, Sender, OneSender, TypeOK, RowTypes,
         WorkTypes, rowVars, workVars
<1>6. ASSUME NEW a \in Accounts, DeleteByAccount(a) PROVE ReadOrHeld'
  BY <1>6
  DEF DeleteByAccount, ReadOrHeld, Sender, OneSender, TypeOK, RowTypes,
         WorkTypes, rowVars, workVars
<1>7. ASSUME ListDue PROVE ReadOrHeld'
  BY <1>7
  DEF ListDue, Due, Row, ReadOrHeld, Sender, OneSender, TypeOK, RowTypes,
         WorkTypes, rowVars, workVars
<1>8. ASSUME NEW w \in Workers, NEW a \in Accounts, StartAccount(w, a) PROVE ReadOrHeld'
  BY <1>8
  DEF StartAccount, ReadOrHeld, Sender, OneSender, TypeOK, RowTypes,
         WorkTypes, rowVars, workVars
<1>9. ASSUME NEW w \in Workers, NEW m \in Mails, ClaimForSend(w, m) PROVE ReadOrHeld'
  BY <1>9
  DEF ClaimForSend, Settled, ReadOrHeld, Sender, OneSender, TypeOK, RowTypes,
         WorkTypes, rowVars, workVars
<1>10. ASSUME NEW w \in Workers, NEW m \in Mails, MarkUnserved(w, m) PROVE ReadOrHeld'
  BY <1>10
  DEF MarkUnserved, Mark, Continue, Settled, ReadOrHeld, Sender, OneSender,
         TypeOK, RowTypes, WorkTypes, rowVars, workVars
<1>11. ASSUME NEW w \in Workers, NEW m \in Mails, SendOne(w, m) PROVE ReadOrHeld'
  BY <1>11
  DEF SendOne, ReadOrHeld, Sender, OneSender, TypeOK, RowTypes, WorkTypes,
         rowVars, workVars
<1>12. ASSUME NEW w \in Workers, LoadAccount(w) PROVE ReadOrHeld'
  BY <1>12
  DEF LoadAccount, Continue, ReadOrHeld, Sender, OneSender, TypeOK, RowTypes,
         WorkTypes, rowVars, workVars
<1>13. ASSUME NEW w \in Workers, Lookup(w) PROVE ReadOrHeld'
  BY <1>13
  DEF Lookup, Decide, ReadOrHeld, Sender, OneSender, TypeOK, RowTypes,
         WorkTypes, rowVars, workVars
<1>14. ASSUME NEW w \in Workers, Record(w) PROVE ReadOrHeld'
  BY <1>14
  DEF Record, Mark, Continue, Settled, ReadOrHeld, Sender, OneSender, TypeOK,
         RowTypes, WorkTypes, rowVars, workVars
<1>15. ASSUME NEW w \in Workers, NEW o \in Outcomes, Dispatch(w, o) PROVE ReadOrHeld'
  BY <1>15
  DEF Dispatch, Decide, ReadOrHeld, Sender, OneSender, TypeOK, RowTypes,
         WorkTypes, rowVars, workVars
<1>16. ASSUME NEW w \in Workers, AbortTick(w) PROVE ReadOrHeld'
  BY <1>16
  DEF AbortTick, Forget, ReadOrHeld, Sender, OneSender, TypeOK, RowTypes,
         WorkTypes, rowVars, workVars
<1>17. ASSUME NEW m \in Mails, BecomeDue(m) PROVE ReadOrHeld'
  BY <1>17
  DEF BecomeDue, ReadOrHeld, Sender, OneSender, TypeOK, RowTypes, WorkTypes,
         rowVars, workVars
<1>18. ASSUME NEW m \in Mails, Age(m) PROVE ReadOrHeld'
  BY <1>18
  DEF Age, ReadOrHeld, Sender, OneSender, TypeOK, RowTypes, WorkTypes,
         rowVars, workVars
<1>19. ASSUME Crash PROVE ReadOrHeld'
  BY <1>19
  DEF Crash, Forget, ReadOrHeld, Sender, OneSender, TypeOK, RowTypes,
         WorkTypes, rowVars, workVars
<1>20. ASSUME Start PROVE ReadOrHeld'
  BY <1>20
  DEF Start, ReadOrHeld, Sender, OneSender, TypeOK, RowTypes, WorkTypes,
         rowVars, workVars
<1>21. CASE UNCHANGED vars
  BY <1>21
  DEF ReadOrHeld, Sender, OneSender, TypeOK, RowTypes, WorkTypes, rowVars,
         workVars, vars
<1>22. ASSUME NEW w \in Workers, Misrecord(w) PROVE ReadOrHeld'
  BY <1>22
  DEF Misrecord, Decide, ReadOrHeld, Sender, OneSender, TypeOK, RowTypes, WorkTypes,
      rowVars, workVars
<1>23. QED
  BY <1>1, <1>2, <1>3, <1>4, <1>5, <1>6, <1>7, <1>8, <1>9, <1>10, <1>11,
         <1>12, <1>13, <1>14, <1>15, <1>16, <1>17, <1>18, <1>19, <1>20, <1>21,
         <1>22
  DEF Next, UserStep, WorkerStep, Workers

\* A row in sending was claimed.
LEMMA TriedStep ==
    ASSUME Sender, SendingWasTried, [Next]_vars PROVE SendingWasTried'
PROOF
<1>1. ASSUME NEW m \in Mails, Schedule(m) PROVE SendingWasTried'
  BY <1>1
  DEF Schedule, SendingWasTried, Sender, TypeOK, RowTypes, WorkTypes, rowVars,
         workVars
<1>2. ASSUME NEW m \in Mails, Cancel(m) PROVE SendingWasTried'
  BY <1>2
  DEF Cancel, SendingWasTried, Sender, TypeOK, RowTypes, WorkTypes, rowVars,
         workVars
<1>3. ASSUME NEW m \in Mails, UpdateSendAt(m) PROVE SendingWasTried'
  BY <1>3
  DEF UpdateSendAt, SendingWasTried, Sender, TypeOK, RowTypes, WorkTypes,
         rowVars, workVars
<1>4. ASSUME NEW m \in Mails, UpdatePayload(m) PROVE SendingWasTried'
  BY <1>4
  DEF UpdatePayload, SendingWasTried, Sender, TypeOK, RowTypes, WorkTypes,
         rowVars, workVars
<1>5. ASSUME NEW w \in Workers, NEW m \in Mails, SendNow(w, m) PROVE SendingWasTried'
  BY <1>5
  DEF SendNow, Row, SendingWasTried, Sender, TypeOK, RowTypes, WorkTypes,
         rowVars, workVars
<1>6. ASSUME NEW a \in Accounts, DeleteByAccount(a) PROVE SendingWasTried'
  BY <1>6
  DEF DeleteByAccount, SendingWasTried, Sender, TypeOK, RowTypes, WorkTypes,
         rowVars, workVars
<1>7. ASSUME ListDue PROVE SendingWasTried'
  BY <1>7
  DEF ListDue, Due, Row, SendingWasTried, Sender, TypeOK, RowTypes, WorkTypes,
         rowVars, workVars
<1>8. ASSUME NEW w \in Workers, NEW a \in Accounts, StartAccount(w, a) PROVE SendingWasTried'
  BY <1>8
  DEF StartAccount, SendingWasTried, Sender, TypeOK, RowTypes, WorkTypes,
         rowVars, workVars
<1>9. ASSUME NEW w \in Workers, NEW m \in Mails, ClaimForSend(w, m) PROVE SendingWasTried'
  BY <1>9
  DEF ClaimForSend, Settled, SendingWasTried, Sender, TypeOK, RowTypes,
         WorkTypes, rowVars, workVars
<1>10. ASSUME NEW w \in Workers, NEW m \in Mails, MarkUnserved(w, m) PROVE SendingWasTried'
  BY <1>10
  DEF MarkUnserved, Mark, Continue, Settled, SendingWasTried, Sender, TypeOK,
         RowTypes, WorkTypes, rowVars, workVars
<1>11. ASSUME NEW w \in Workers, NEW m \in Mails, SendOne(w, m) PROVE SendingWasTried'
  BY <1>11
  DEF SendOne, SendingWasTried, Sender, TypeOK, RowTypes, WorkTypes, rowVars,
         workVars
<1>12. ASSUME NEW w \in Workers, LoadAccount(w) PROVE SendingWasTried'
  BY <1>12
  DEF LoadAccount, Continue, SendingWasTried, Sender, TypeOK, RowTypes,
         WorkTypes, rowVars, workVars
<1>13. ASSUME NEW w \in Workers, Lookup(w) PROVE SendingWasTried'
  BY <1>13
  DEF Lookup, Decide, SendingWasTried, Sender, TypeOK, RowTypes, WorkTypes,
         rowVars, workVars
<1>14. ASSUME NEW w \in Workers, Record(w) PROVE SendingWasTried'
  BY <1>14
  DEF Record, Mark, Continue, Settled, SendingWasTried, Sender, TypeOK,
         RowTypes, WorkTypes, rowVars, workVars
<1>15. ASSUME NEW w \in Workers, NEW o \in Outcomes, Dispatch(w, o) PROVE SendingWasTried'
  BY <1>15
  DEF Dispatch, Decide, SendingWasTried, Sender, TypeOK, RowTypes, WorkTypes,
         rowVars, workVars
<1>16. ASSUME NEW w \in Workers, AbortTick(w) PROVE SendingWasTried'
  BY <1>16
  DEF AbortTick, Forget, SendingWasTried, Sender, TypeOK, RowTypes, WorkTypes,
         rowVars, workVars
<1>17. ASSUME NEW m \in Mails, BecomeDue(m) PROVE SendingWasTried'
  BY <1>17
  DEF BecomeDue, SendingWasTried, Sender, TypeOK, RowTypes, WorkTypes,
         rowVars, workVars
<1>18. ASSUME NEW m \in Mails, Age(m) PROVE SendingWasTried'
  BY <1>18
  DEF Age, SendingWasTried, Sender, TypeOK, RowTypes, WorkTypes, rowVars,
         workVars
<1>19. ASSUME Crash PROVE SendingWasTried'
  BY <1>19
  DEF Crash, Forget, SendingWasTried, Sender, TypeOK, RowTypes, WorkTypes,
         rowVars, workVars
<1>20. ASSUME Start PROVE SendingWasTried'
  BY <1>20
  DEF Start, SendingWasTried, Sender, TypeOK, RowTypes, WorkTypes, rowVars,
         workVars
<1>21. CASE UNCHANGED vars
  BY <1>21
  DEF SendingWasTried, Sender, TypeOK, RowTypes, WorkTypes, rowVars, workVars,
         vars
<1>22. ASSUME NEW w \in Workers, Misrecord(w) PROVE SendingWasTried'
  BY <1>22
  DEF Misrecord, Decide, SendingWasTried, Sender, TypeOK, RowTypes, WorkTypes,
      rowVars, workVars
<1>23. QED
  BY <1>1, <1>2, <1>3, <1>4, <1>5, <1>6, <1>7, <1>8, <1>9, <1>10, <1>11,
         <1>12, <1>13, <1>14, <1>15, <1>16, <1>17, <1>18, <1>19, <1>20, <1>21,
         <1>22
  DEF Next, UserStep, WorkerStep, Workers

\* A message is scheduled before it leaves.
LEMMA AbsentStep ==
    ASSUME Sender, AbsentIsNew, [Next]_vars PROVE AbsentIsNew'
PROOF
<1>1. ASSUME NEW m \in Mails, Schedule(m) PROVE AbsentIsNew'
  BY <1>1
  DEF Schedule, AbsentIsNew, Sender, OneSender, HandledIsHeld, DownIsEmpty,
         TypeOK, RowTypes, WorkTypes, rowVars, workVars
<1>2. ASSUME NEW m \in Mails, Cancel(m) PROVE AbsentIsNew'
  BY <1>2
  DEF Cancel, AbsentIsNew, Sender, OneSender, HandledIsHeld, DownIsEmpty,
         TypeOK, RowTypes, WorkTypes, rowVars, workVars
<1>3. ASSUME NEW m \in Mails, UpdateSendAt(m) PROVE AbsentIsNew'
  BY <1>3
  DEF UpdateSendAt, AbsentIsNew, Sender, OneSender, HandledIsHeld,
         DownIsEmpty, TypeOK, RowTypes, WorkTypes, rowVars, workVars
<1>4. ASSUME NEW m \in Mails, UpdatePayload(m) PROVE AbsentIsNew'
  BY <1>4
  DEF UpdatePayload, AbsentIsNew, Sender, OneSender, HandledIsHeld,
         DownIsEmpty, TypeOK, RowTypes, WorkTypes, rowVars, workVars
<1>5. ASSUME NEW w \in Workers, NEW m \in Mails, SendNow(w, m) PROVE AbsentIsNew'
  BY <1>5
  DEF SendNow, Row, AbsentIsNew, Sender, OneSender, HandledIsHeld,
         DownIsEmpty, TypeOK, RowTypes, WorkTypes, rowVars, workVars
<1>6. ASSUME NEW a \in Accounts, DeleteByAccount(a) PROVE AbsentIsNew'
  BY <1>6
  DEF DeleteByAccount, AbsentIsNew, Sender, OneSender, HandledIsHeld,
         DownIsEmpty, TypeOK, RowTypes, WorkTypes, rowVars, workVars
<1>7. ASSUME ListDue PROVE AbsentIsNew'
  BY <1>7
  DEF ListDue, Due, Row, AbsentIsNew, Sender, OneSender, HandledIsHeld,
         DownIsEmpty, TypeOK, RowTypes, WorkTypes, rowVars, workVars
<1>8. ASSUME NEW w \in Workers, NEW a \in Accounts, StartAccount(w, a) PROVE AbsentIsNew'
  BY <1>8
  DEF StartAccount, AbsentIsNew, Sender, OneSender, HandledIsHeld,
         DownIsEmpty, TypeOK, RowTypes, WorkTypes, rowVars, workVars
<1>9. ASSUME NEW w \in Workers, NEW m \in Mails, ClaimForSend(w, m) PROVE AbsentIsNew'
  BY <1>9
  DEF ClaimForSend, Settled, AbsentIsNew, Sender, OneSender, HandledIsHeld,
         DownIsEmpty, TypeOK, RowTypes, WorkTypes, rowVars, workVars
<1>10. ASSUME NEW w \in Workers, NEW m \in Mails, MarkUnserved(w, m) PROVE AbsentIsNew'
  BY <1>10
  DEF MarkUnserved, Mark, Continue, Settled, AbsentIsNew, Sender, OneSender,
         HandledIsHeld, DownIsEmpty, TypeOK, RowTypes, WorkTypes, rowVars,
         workVars
<1>11. ASSUME NEW w \in Workers, NEW m \in Mails, SendOne(w, m) PROVE AbsentIsNew'
  BY <1>11
  DEF SendOne, AbsentIsNew, Sender, OneSender, HandledIsHeld, DownIsEmpty,
         TypeOK, RowTypes, WorkTypes, rowVars, workVars
<1>12. ASSUME NEW w \in Workers, LoadAccount(w) PROVE AbsentIsNew'
  BY <1>12
  DEF LoadAccount, Continue, AbsentIsNew, Sender, OneSender, HandledIsHeld,
         DownIsEmpty, TypeOK, RowTypes, WorkTypes, rowVars, workVars
<1>13. ASSUME NEW w \in Workers, Lookup(w) PROVE AbsentIsNew'
  BY <1>13
  DEF Lookup, Decide, AbsentIsNew, Sender, OneSender, HandledIsHeld,
         DownIsEmpty, TypeOK, RowTypes, WorkTypes, rowVars, workVars
<1>14. ASSUME NEW w \in Workers, Record(w) PROVE AbsentIsNew'
  BY <1>14
  DEF Record, Mark, Continue, Settled, AbsentIsNew, Sender, OneSender,
         HandledIsHeld, DownIsEmpty, TypeOK, RowTypes, WorkTypes, rowVars,
         workVars
<1>15. ASSUME NEW w \in Workers, NEW o \in Outcomes, Dispatch(w, o) PROVE AbsentIsNew'
  BY <1>15
  DEF Dispatch, Decide, AbsentIsNew, Sender, OneSender, HandledIsHeld,
         DownIsEmpty, TypeOK, RowTypes, WorkTypes, rowVars, workVars
<1>16. ASSUME NEW w \in Workers, AbortTick(w) PROVE AbsentIsNew'
  BY <1>16
  DEF AbortTick, Forget, AbsentIsNew, Sender, OneSender, HandledIsHeld,
         DownIsEmpty, TypeOK, RowTypes, WorkTypes, rowVars, workVars
<1>17. ASSUME NEW m \in Mails, BecomeDue(m) PROVE AbsentIsNew'
  BY <1>17
  DEF BecomeDue, AbsentIsNew, Sender, OneSender, HandledIsHeld, DownIsEmpty,
         TypeOK, RowTypes, WorkTypes, rowVars, workVars
<1>18. ASSUME NEW m \in Mails, Age(m) PROVE AbsentIsNew'
  BY <1>18
  DEF Age, AbsentIsNew, Sender, OneSender, HandledIsHeld, DownIsEmpty, TypeOK,
         RowTypes, WorkTypes, rowVars, workVars
<1>19. ASSUME Crash PROVE AbsentIsNew'
  BY <1>19
  DEF Crash, Forget, AbsentIsNew, Sender, OneSender, HandledIsHeld,
         DownIsEmpty, TypeOK, RowTypes, WorkTypes, rowVars, workVars
<1>20. ASSUME Start PROVE AbsentIsNew'
  BY <1>20
  DEF Start, AbsentIsNew, Sender, OneSender, HandledIsHeld, DownIsEmpty,
         TypeOK, RowTypes, WorkTypes, rowVars, workVars
<1>21. CASE UNCHANGED vars
  BY <1>21
  DEF AbsentIsNew, Sender, OneSender, HandledIsHeld, DownIsEmpty, TypeOK,
         RowTypes, WorkTypes, rowVars, workVars, vars
<1>22. ASSUME NEW w \in Workers, Misrecord(w) PROVE AbsentIsNew'
  BY <1>22
  DEF Misrecord, Decide, AbsentIsNew, Sender, OneSender, HandledIsHeld, DownIsEmpty,
      TypeOK, RowTypes, WorkTypes, rowVars, workVars
<1>23. QED
  BY <1>1, <1>2, <1>3, <1>4, <1>5, <1>6, <1>7, <1>8, <1>9, <1>10, <1>11,
         <1>12, <1>13, <1>14, <1>15, <1>16, <1>17, <1>18, <1>19, <1>20, <1>21,
         <1>22
  DEF Next, UserStep, WorkerStep, Workers

\* What is known of a delivery survives every step.
LEMMA KnownStep ==
    ASSUME Delivery, [Next]_vars PROVE DeliveredIsKnown'
PROOF
<1>1. ASSUME NEW m \in Mails, Schedule(m) PROVE DeliveredIsKnown'
  BY <1>1
  DEF Schedule, Delivery, DeliveredIsKnown, Known, Unheld, Recording, Tried,
         Sender, TypeOK, RowTypes, WorkTypes, SeenTypes, rowVars, workVars
<1>2. ASSUME NEW m \in Mails, Cancel(m) PROVE DeliveredIsKnown'
  BY <1>2
  DEF Cancel, Delivery, DeliveredIsKnown, Known, Unheld, Recording, Tried,
         Sender, TypeOK, RowTypes, WorkTypes, SeenTypes, rowVars, workVars
<1>3. ASSUME NEW m \in Mails, UpdateSendAt(m) PROVE DeliveredIsKnown'
  BY <1>3
  DEF UpdateSendAt, Delivery, DeliveredIsKnown, Known, Unheld, Recording,
         Tried, Sender, TypeOK, RowTypes, WorkTypes, SeenTypes, rowVars,
         workVars
<1>4. ASSUME NEW m \in Mails, UpdatePayload(m) PROVE DeliveredIsKnown'
  BY <1>4
  DEF UpdatePayload, Delivery, DeliveredIsKnown, Known, Unheld, Recording,
         Tried, Sender, TypeOK, RowTypes, WorkTypes, SeenTypes, rowVars,
         workVars
<1>5. ASSUME NEW w \in Workers, NEW m \in Mails, SendNow(w, m) PROVE DeliveredIsKnown'
  BY <1>5
  DEF SendNow, Row, Delivery, DeliveredIsKnown, Known, Unheld, Recording,
         Tried, Sender, TypeOK, RowTypes, WorkTypes, SeenTypes, rowVars,
         workVars
<1>6. ASSUME NEW a \in Accounts, DeleteByAccount(a) PROVE DeliveredIsKnown'
  <2>2. ASSUME NEW k \in Mails, delivered'[k] > 0
        PROVE  Known(k)'
    <3>1. Known(k)
      BY <1>6, <2>2 DEF DeleteByAccount, DeliveredIsKnown, Delivery
    <3>2. CASE status[k] \in {"sent", "failed"}
      BY <1>6, <3>2
      DEF DeleteByAccount, workVars, Known, Unheld, Tried, Recording,
             Delivery, Sender, TypeOK, RowTypes, WorkTypes, OneSender
    <3>3. CASE status[k] \in {"sending", "deleted"} /\ Unheld(k)
      BY <1>6, <3>3
      DEF DeleteByAccount, workVars, Known, Unheld, Tried, Recording,
             Delivery, Sender, TypeOK, RowTypes, WorkTypes
    <3>4. CASE \E v \in Workers : Recording(k, v)
      BY <1>6, <3>4
      DEF DeleteByAccount, workVars, Known, Unheld, Tried, Recording,
             Delivery, Sender, TypeOK, RowTypes, WorkTypes
    <3>5. CASE Tried(k)
      <4>1. status[k] # "absent"
        BY <1>6, <2>2 DEF DeleteByAccount, AbsentIsNew, Delivery
      <4>2. attempts'[k] > 0 \/ status'[k] = "deleted"
        BY <1>6, <3>5, <4>1 DEF DeleteByAccount, Tried, Delivery, Sender, TypeOK, RowTypes
      <4> QED
        BY <1>6, <3>5, <4>2 DEF DeleteByAccount, Known, Tried, workVars
    <3> QED
      BY <3>1, <3>2, <3>3, <3>4, <3>5 DEF Known
  <2> QED
    BY <2>2 DEF DeliveredIsKnown
<1>7. ASSUME ListDue PROVE DeliveredIsKnown'
  BY <1>7
  DEF ListDue, Due, Row, Delivery, DeliveredIsKnown, Known, Unheld, Recording,
         Tried, Sender, TypeOK, RowTypes, WorkTypes, SeenTypes, rowVars,
         workVars
<1>8. ASSUME NEW w \in Workers, NEW a \in Accounts, StartAccount(w, a) PROVE DeliveredIsKnown'
  BY <1>8
  DEF StartAccount, Delivery, DeliveredIsKnown, Known, Unheld, Recording,
         Tried, Sender, TypeOK, RowTypes, WorkTypes, SeenTypes, rowVars,
         workVars
<1>9. ASSUME NEW w \in Workers, NEW m \in Mails, ClaimForSend(w, m) PROVE DeliveredIsKnown'
  <2>2. ASSUME NEW k \in Mails, delivered'[k] > 0
        PROVE  Known(k)'
    <3>1. Known(k)
      BY <1>9, <2>2 DEF ClaimForSend, DeliveredIsKnown, Delivery
    <3>2. CASE status[k] \in {"sent", "failed"}
      BY <1>9, <3>2
      DEF ClaimForSend, Settled, Known, Unheld, Tried, Recording, Delivery,
             Sender, TypeOK, RowTypes, WorkTypes
    <3>3. CASE status[k] \in {"sending", "deleted"} /\ Unheld(k)
      BY <1>9, <3>3
      DEF ClaimForSend, Settled, Known, Unheld, Tried, Recording, Delivery,
             Sender, TypeOK, RowTypes, WorkTypes
    <3>4. CASE \E v \in Workers : Recording(k, v)
      BY <1>9, <3>4
      DEF ClaimForSend, Settled, Known, Unheld, Tried, Recording, Delivery,
             Sender, TypeOK, RowTypes, WorkTypes
    <3>5. CASE Tried(k)
      BY <1>9, <3>5
      DEF ClaimForSend, Settled, Known, Unheld, Tried, Recording, Delivery,
             Sender, TypeOK, RowTypes, WorkTypes, ReadOrHeld, SeenTypes
    <3> QED
      BY <3>1, <3>2, <3>3, <3>4, <3>5 DEF Known
  <2> QED
    BY <2>2 DEF DeliveredIsKnown
<1>10. ASSUME NEW w \in Workers, NEW m \in Mails, MarkUnserved(w, m) PROVE DeliveredIsKnown'
  <2>2. ASSUME NEW k \in Mails, delivered'[k] > 0
        PROVE  Known(k)'
    <3>1. Known(k)
      BY <1>10, <2>2 DEF MarkUnserved, DeliveredIsKnown, Delivery
    <3>2. CASE status[k] \in {"sent", "failed"}
      BY <1>10, <3>2
      DEF MarkUnserved, Mark, Known, OneSender, Delivery, Sender, TypeOK,
             RowTypes
    <3>3. CASE status[k] \in {"sending", "deleted"} /\ Unheld(k)
      BY <1>10, <3>3
      DEF MarkUnserved, Mark, Known, Unheld, Delivery, Sender, TypeOK,
             RowTypes, WorkTypes
    <3>4. CASE \E v \in Workers : Recording(k, v)
      <4>1. PICK v \in Workers : Recording(k, v)
        BY <3>4
      <4>2. k \in work[v]
        BY <4>1 DEF Recording, HandledIsHeld, Delivery, Sender
      <4>3. v # w /\ k # m
        BY <1>10, <4>1, <4>2 DEF MarkUnserved, Recording, OneSender, Delivery, Sender
      <4>4. Recording(k, v)'
        BY <1>10, <4>1, <4>3 DEF MarkUnserved, Continue, Recording, Delivery, Sender, TypeOK, WorkTypes
      <4> QED
        BY <4>4 DEF Known
    <3>5. CASE Tried(k)
      <4>1. attempts'[k] > 0 \/ status'[k] = "deleted"
        BY <1>10, <3>5 DEF MarkUnserved, Mark, Tried, Delivery, Sender, TypeOK, RowTypes
      <4>2. ASSUME NEW v \in Workers, k \in batch'[v] \cup work'[v]
            PROVE  seen'[v][k].attempts > 0
        <5>1. k \in batch[v] \cup work[v] /\ ~(v = w /\ k = m)
          BY <1>10, <4>2 DEF MarkUnserved, ReadOrHeld, Delivery, Sender, TypeOK, WorkTypes
        <5> QED
          BY <1>10, <3>5, <5>1 DEF MarkUnserved, Settled, Tried, Delivery, Sender, TypeOK, SeenTypes
      <4> QED
        BY <4>1, <4>2 DEF Known, Tried
    <3> QED
      BY <3>1, <3>2, <3>3, <3>4, <3>5 DEF Known
  <2> QED
    BY <2>2 DEF DeliveredIsKnown
<1>11. ASSUME NEW w \in Workers, NEW m \in Mails, SendOne(w, m) PROVE DeliveredIsKnown'
  BY <1>11
  DEF SendOne, Delivery, DeliveredIsKnown, Known, Unheld, Recording, Tried,
         Sender, TypeOK, RowTypes, WorkTypes, SeenTypes, rowVars, workVars
<1>12. ASSUME NEW w \in Workers, LoadAccount(w) PROVE DeliveredIsKnown'
  BY <1>12
  DEF LoadAccount, Continue, Delivery, DeliveredIsKnown, Known, Unheld,
         Recording, Tried, Sender, TypeOK, RowTypes, WorkTypes, SeenTypes,
         rowVars, workVars
<1>13. ASSUME NEW w \in Workers, Lookup(w) PROVE DeliveredIsKnown'
  BY <1>13
  DEF Lookup, Decide, Delivery, DeliveredIsKnown, Known, Unheld, Recording,
         Tried, Sender, TypeOK, RowTypes, WorkTypes, SeenTypes, rowVars,
         workVars
<1>14. ASSUME NEW w \in Workers, Record(w) PROVE DeliveredIsKnown'
  <2>1. mail[w] \in work[w] /\ mail[w] \in Mails
    BY <1>14 DEF Record, HandledIsHeld, Delivery, Sender, TypeOK, WorkTypes
  <2>2. ASSUME NEW k \in Mails, delivered'[k] > 0
        PROVE  Known(k)'
    <3>1. Known(k)
      BY <1>14, <2>2 DEF Record, DeliveredIsKnown, Delivery
    <3>2. CASE status[k] \in {"sent", "failed"}
      BY <1>14, <2>1, <3>2
      DEF Record, Mark, Known, OneSender, Delivery, Sender, TypeOK, RowTypes
    <3>3. CASE status[k] \in {"sending", "deleted"} /\ Unheld(k)
      BY <1>14, <2>1, <3>3
      DEF Record, Mark, Known, Unheld, Delivery, Sender, TypeOK, RowTypes,
             WorkTypes
    <3>4. CASE \E v \in Workers : Recording(k, v)
      <4>1. PICK v \in Workers : Recording(k, v)
        BY <3>4
      <4>2. k \in work[v]
        BY <4>1 DEF Recording, HandledIsHeld, Delivery, Sender
      <4>3. CASE v # w
        <5>1. Recording(k, v)'
          BY <1>14, <4>1, <4>3 DEF Record, Continue, Recording, Delivery, Sender, TypeOK, WorkTypes
        <5> QED
          BY <5>1 DEF Known
      <4>4. CASE v = w
        <5>1. k = mail[w] /\ verdict[w] \in {"sent", "failed"}
          BY <4>1, <4>4 DEF Recording
        <5>2. status'[k] \in {"sent", "failed", "deleted"}
          BY <1>14, <5>1 DEF Record, Mark, Delivery, Sender, TypeOK, RowTypes
        <5>3. Unheld(k)'
          BY <1>14, <2>1, <5>1 DEF Record, Unheld, OneSender, Delivery, Sender, TypeOK, WorkTypes
        <5> QED
          BY <5>2, <5>3 DEF Known
      <4> QED
        BY <4>3, <4>4
    <3>5. CASE Tried(k)
      <4>1. attempts'[k] > 0 \/ status'[k] = "deleted"
        <5>1. status[k] = "deleted" => status'[k] = "deleted"
          BY <1>14, <2>1 DEF Record, Mark, Delivery, Sender, TypeOK, RowTypes
        <5> QED
          BY <1>14, <3>5, <5>1 DEF Record, Tried
      <4>2. ASSUME NEW v \in Workers, k \in batch'[v] \cup work'[v]
            PROVE  seen'[v][k].attempts > 0
        <5>1. k \in batch[v] \cup work[v] /\ ~(v = w /\ k = mail[w])
          BY <1>14, <2>1, <4>2 DEF Record, ReadOrHeld, Delivery, Sender, TypeOK, WorkTypes
        <5> QED
          BY <1>14, <2>1, <3>5, <5>1 DEF Record, Settled, Tried, Delivery, Sender, TypeOK, SeenTypes
      <4> QED
        BY <4>1, <4>2 DEF Known, Tried
    <3> QED
      BY <3>1, <3>2, <3>3, <3>4, <3>5 DEF Known
  <2> QED
    BY <2>2 DEF DeliveredIsKnown
<1>15. ASSUME NEW w \in Workers, NEW o \in Outcomes, Dispatch(w, o) PROVE DeliveredIsKnown'
  BY <1>15
  DEF Dispatch, Decide, Delivery, DeliveredIsKnown, Known, Unheld, Recording,
         Tried, Sender, TypeOK, RowTypes, WorkTypes, SeenTypes, rowVars,
         workVars
<1>16. ASSUME NEW w \in Workers, AbortTick(w) PROVE DeliveredIsKnown'
  <2>2. ASSUME NEW k \in Mails, delivered'[k] > 0
        PROVE  Known(k)'
    <3>1. Known(k)
      BY <1>16, <2>2 DEF AbortTick, DeliveredIsKnown, Delivery
    <3>2. CASE status[k] \in {"sent", "failed"}
      BY <1>16, <3>2
      DEF AbortTick, Known, rowVars
    <3>3. CASE status[k] \in {"sending", "deleted"} /\ Unheld(k)
      BY <1>16, <3>3
      DEF AbortTick, Forget, Known, Unheld, rowVars
    <3>4. CASE \E v \in Workers : Recording(k, v)
      <4>1. PICK v \in Workers : Recording(k, v)
        BY <3>4
      <4>2. k \in work[v]
        BY <4>1 DEF Recording, HandledIsHeld, Delivery, Sender
      <4>3. CASE v # w
        BY <1>16, <4>1, <4>3 DEF AbortTick, Forget, Known, Recording
      <4>4. CASE v = w
        <5>1. status[k] \in {"sending", "deleted"}
          BY <4>2 DEF OneSender, Delivery, Sender
        <5>2. \A u \in Workers : k \notin work'[u]
          BY <1>16, <4>2, <4>4 DEF AbortTick, Forget, OneSender, Delivery, Sender
        <5> QED
          BY <1>16, <5>1, <5>2 DEF AbortTick, rowVars, Known, Unheld
      <4> QED
        BY <4>3, <4>4
    <3>5. CASE Tried(k)
      BY <1>16, <3>5
      DEF AbortTick, Forget, Known, Tried, rowVars
    <3> QED
      BY <3>1, <3>2, <3>3, <3>4, <3>5 DEF Known
  <2> QED
    BY <2>2 DEF DeliveredIsKnown
<1>17. ASSUME NEW m \in Mails, BecomeDue(m) PROVE DeliveredIsKnown'
  BY <1>17
  DEF BecomeDue, Delivery, DeliveredIsKnown, Known, Unheld, Recording, Tried,
         Sender, TypeOK, RowTypes, WorkTypes, SeenTypes, rowVars, workVars
<1>18. ASSUME NEW m \in Mails, Age(m) PROVE DeliveredIsKnown'
  BY <1>18
  DEF Age, Delivery, DeliveredIsKnown, Known, Unheld, Recording, Tried,
         Sender, TypeOK, RowTypes, WorkTypes, SeenTypes, rowVars, workVars
<1>19. ASSUME Crash PROVE DeliveredIsKnown'
  <2>2. ASSUME NEW k \in Mails, delivered'[k] > 0
        PROVE  Known(k)'
    <3>1. Known(k)
      BY <1>19, <2>2 DEF Crash, DeliveredIsKnown, Delivery
    <3>2. CASE status[k] \in {"sent", "failed"}
      BY <1>19, <3>2
      DEF Crash, Known, rowVars
    <3>3. CASE status[k] \in {"sending", "deleted"} /\ Unheld(k)
      BY <1>19, <3>3
      DEF Crash, Forget, Known, Unheld, rowVars
    <3>4. CASE \E v \in Workers : Recording(k, v)
      <4>1. PICK v \in Workers : Recording(k, v)
        BY <3>4
      <4>2. k \in work[v]
        BY <4>1 DEF Recording, HandledIsHeld, Delivery, Sender
      <4> QED
        BY <1>19, <4>2 DEF Crash, Forget, Known, Unheld, OneSender, Delivery, Sender, rowVars
    <3>5. CASE Tried(k)
      BY <1>19, <3>5
      DEF Crash, Forget, Known, Tried, rowVars
    <3> QED
      BY <3>1, <3>2, <3>3, <3>4, <3>5 DEF Known
  <2> QED
    BY <2>2 DEF DeliveredIsKnown
<1>20. ASSUME Start PROVE DeliveredIsKnown'
  <2>2. ASSUME NEW k \in Mails, delivered'[k] > 0
        PROVE  Known(k)'
    <3>1. Known(k)
      BY <1>20, <2>2 DEF Start, DeliveredIsKnown, Delivery
    <3>2. CASE status[k] \in {"sent", "failed"}
      BY <1>20, <3>2
      DEF Start, Known, Delivery, Sender, TypeOK, RowTypes
    <3>3. CASE status[k] \in {"sending", "deleted"} /\ Unheld(k)
      <4>1. \A v \in Workers : batch'[v] = {} /\ work'[v] = {}
        BY <1>20 DEF Start, DownIsEmpty, Delivery, Sender, workVars
      <4>2. CASE status[k] = "sending"
        BY <1>20, <4>1, <4>2 DEF Start, Known, Tried, SendingWasTried, Delivery
      <4>3. CASE status[k] = "deleted"
        BY <1>20, <4>1, <4>3 DEF Start, Known, Unheld, Delivery, Sender, TypeOK, RowTypes
      <4> QED
        BY <3>3, <4>2, <4>3
    <3>4. CASE \E v \in Workers : Recording(k, v)
      <4>1. PICK v \in Workers : Recording(k, v)
        BY <3>4
      <4>2. k \in work[v]
        BY <4>1 DEF Recording, HandledIsHeld, Delivery, Sender
      <4> QED
        BY <1>20, <4>2 DEF Start, DownIsEmpty, Delivery, Sender
    <3>5. CASE Tried(k)
      BY <1>20, <3>5
      DEF Start, Known, Tried, workVars, Delivery, Sender, TypeOK, RowTypes
    <3> QED
      BY <3>1, <3>2, <3>3, <3>4, <3>5 DEF Known
  <2> QED
    BY <2>2 DEF DeliveredIsKnown
<1>21. CASE UNCHANGED vars
  BY <1>21
  DEF Delivery, DeliveredIsKnown, Known, Unheld, Recording, Tried, Sender,
         TypeOK, RowTypes, WorkTypes, SeenTypes, rowVars, workVars, vars
<1>22. ASSUME NEW w \in Workers, Misrecord(w) PROVE DeliveredIsKnown'
  BY <1>22
  DEF Misrecord, Decide, Delivery, DeliveredIsKnown, Known, Unheld, Recording, Tried,
      Sender, TypeOK, RowTypes, WorkTypes, SeenTypes, rowVars, workVars
<1>23. QED
  BY <1>1, <1>2, <1>3, <1>4, <1>5, <1>6, <1>7, <1>8, <1>9, <1>10, <1>11,
         <1>12, <1>13, <1>14, <1>15, <1>16, <1>17, <1>18, <1>19, <1>20, <1>21,
         <1>22
  DEF Next, UserStep, WorkerStep, Workers

\* A worker reaches Dispatch only with a message that has not left, or was missed.
LEMMA FirstStep ==
    ASSUME Delivery, [Next]_vars PROVE DispatchIsFirst'
PROOF
<1>1. ASSUME NEW m \in Mails, Schedule(m) PROVE DispatchIsFirst'
  BY <1>1
  DEF Schedule, Delivery, DispatchIsFirst, Sender, TypeOK, RowTypes,
         WorkTypes, rowVars, workVars
<1>2. ASSUME NEW m \in Mails, Cancel(m) PROVE DispatchIsFirst'
  BY <1>2
  DEF Cancel, Delivery, DispatchIsFirst, Sender, TypeOK, RowTypes, WorkTypes,
         rowVars, workVars
<1>3. ASSUME NEW m \in Mails, UpdateSendAt(m) PROVE DispatchIsFirst'
  BY <1>3
  DEF UpdateSendAt, Delivery, DispatchIsFirst, Sender, TypeOK, RowTypes,
         WorkTypes, rowVars, workVars
<1>4. ASSUME NEW m \in Mails, UpdatePayload(m) PROVE DispatchIsFirst'
  BY <1>4
  DEF UpdatePayload, Delivery, DispatchIsFirst, Sender, TypeOK, RowTypes,
         WorkTypes, rowVars, workVars
<1>5. ASSUME NEW w \in Workers, NEW m \in Mails, SendNow(w, m) PROVE DispatchIsFirst'
  BY <1>5
  DEF SendNow, Row, Delivery, DispatchIsFirst, Sender, TypeOK, RowTypes,
         WorkTypes, rowVars, workVars
<1>6. ASSUME NEW a \in Accounts, DeleteByAccount(a) PROVE DispatchIsFirst'
  BY <1>6
  DEF DeleteByAccount, Delivery, DispatchIsFirst, Sender, TypeOK, RowTypes,
         WorkTypes, rowVars, workVars
<1>7. ASSUME ListDue PROVE DispatchIsFirst'
  BY <1>7
  DEF ListDue, Due, Row, Delivery, DispatchIsFirst, Sender, TypeOK, RowTypes,
         WorkTypes, rowVars, workVars
<1>8. ASSUME NEW w \in Workers, NEW a \in Accounts, StartAccount(w, a) PROVE DispatchIsFirst'
  BY <1>8
  DEF StartAccount, Delivery, DispatchIsFirst, Sender, TypeOK, RowTypes,
         WorkTypes, rowVars, workVars
<1>9. ASSUME NEW w \in Workers, NEW m \in Mails, ClaimForSend(w, m) PROVE DispatchIsFirst'
  BY <1>9
  DEF ClaimForSend, Settled, Delivery, DispatchIsFirst, Sender, TypeOK,
         RowTypes, WorkTypes, rowVars, workVars
<1>10. ASSUME NEW w \in Workers, NEW m \in Mails, MarkUnserved(w, m) PROVE DispatchIsFirst'
  BY <1>10
  DEF MarkUnserved, Mark, Continue, Settled, Delivery, DispatchIsFirst,
         Sender, TypeOK, RowTypes, WorkTypes, rowVars, workVars
<1>11. ASSUME NEW w \in Workers, NEW m \in Mails, SendOne(w, m) PROVE DispatchIsFirst'
  <2>1. ASSUME seen[w][m].attempts = 0
        PROVE  delivered[m] = 0
    <3>1. m \in work[w] /\ pc[w] = "send" /\ m \in Mails
      BY <1>11 DEF SendOne
    <3>2. ~(status[m] \in {"sent", "failed"}) /\ ~Unheld(m)
      BY <3>1 DEF Unheld, OneSender, Delivery, Sender
    <3>3. \A v \in Workers : ~Recording(m, v)
      BY <3>1 DEF Recording, HandledIsHeld, OneSender, Delivery, Sender
    <3>4. ~Tried(m)
      BY <2>1, <3>1 DEF Tried
    <3> QED
      BY <3>2, <3>3, <3>4 DEF Known, DeliveredIsKnown, Delivery, Sender, TypeOK
  <2>2. pc'[w] = "dispatch" => delivered[m] = 0
    BY <1>11, <2>1 DEF SendOne, Delivery, Sender, TypeOK, WorkTypes
  <2> QED
    BY <1>11, <2>2 DEF SendOne, DispatchIsFirst, Delivery, Sender, TypeOK, WorkTypes
<1>12. ASSUME NEW w \in Workers, LoadAccount(w) PROVE DispatchIsFirst'
  BY <1>12
  DEF LoadAccount, Continue, Delivery, DispatchIsFirst, Sender, TypeOK,
         RowTypes, WorkTypes, rowVars, workVars
<1>13. ASSUME NEW w \in Workers, Lookup(w) PROVE DispatchIsFirst'
  <2>1. mail[w] \in work[w] /\ mail[w] \in Mails /\ pc[w] = "lookup"
    BY <1>13 DEF Lookup, HandledIsHeld, Delivery, Sender, TypeOK, WorkTypes
  <2>2. /\ UNCHANGED <<delivered, mail>> /\ \A v \in Workers \ {w} : pc'[v] = pc[v]
        /\ \A k \in Mails : k # mail[w] => missed'[k] = missed[k]
        /\ pc'[w] = "dispatch" => missed'[mail[w]] = delivered[mail[w]]
    BY <1>13, <2>1 DEF Lookup, Decide, Delivery, Sender, TypeOK, WorkTypes
  <2>3. ASSUME NEW v \in Workers, pc'[v] = "dispatch"
        PROVE  delivered'[mail'[v]] <= missed'[mail'[v]]
    <3>1. CASE v = w
      BY <2>1, <2>2, <2>3, <3>1 DEF Delivery, Sender, TypeOK
    <3>2. CASE v # w
      <4>1. pc[v] = "dispatch" /\ mail[v] \in work[v] /\ mail[v] \in Mails
        BY <2>2, <2>3, <3>2 DEF HandledIsHeld, Delivery, Sender, TypeOK, WorkTypes
      <4>2. mail[v] # mail[w]
        BY <2>1, <3>2, <4>1 DEF OneSender, Delivery, Sender
      <4> QED
        BY <2>2, <4>1, <4>2 DEF DispatchIsFirst, Delivery
    <3> QED
      BY <3>1, <3>2
  <2> QED
    BY <2>3 DEF DispatchIsFirst
<1>14. ASSUME NEW w \in Workers, Record(w) PROVE DispatchIsFirst'
  BY <1>14
  DEF Record, Mark, Continue, Settled, Delivery, DispatchIsFirst, Sender,
         TypeOK, RowTypes, WorkTypes, rowVars, workVars
<1>15. ASSUME NEW w \in Workers, NEW o \in Outcomes, Dispatch(w, o) PROVE DispatchIsFirst'
  <2>1. mail[w] \in work[w] /\ pc'[w] # "dispatch"
    BY <1>15 DEF Dispatch, Decide, HandledIsHeld, Delivery, Sender, TypeOK, WorkTypes
  <2>2. ASSUME NEW v \in Workers, pc'[v] = "dispatch"
        PROVE  delivered'[mail'[v]] <= missed'[mail'[v]]
    <3>1. v # w /\ pc[v] = "dispatch"
      BY <1>15, <2>1, <2>2 DEF Dispatch, Decide, Delivery, Sender, TypeOK, WorkTypes
    <3>2. mail[v] # mail[w]
      BY <2>1, <3>1 DEF HandledIsHeld, OneSender, Delivery, Sender
    <3>3. delivered[mail[v]] <= missed[mail[v]]
      BY <3>1 DEF DispatchIsFirst, Delivery
    <3> QED
      BY <1>15, <3>2, <3>3 DEF Dispatch, Delivery, Sender, TypeOK
  <2> QED
    BY <2>2 DEF DispatchIsFirst
<1>16. ASSUME NEW w \in Workers, AbortTick(w) PROVE DispatchIsFirst'
  BY <1>16
  DEF AbortTick, Forget, Delivery, DispatchIsFirst, Sender, TypeOK, RowTypes,
         WorkTypes, rowVars, workVars
<1>17. ASSUME NEW m \in Mails, BecomeDue(m) PROVE DispatchIsFirst'
  BY <1>17
  DEF BecomeDue, Delivery, DispatchIsFirst, Sender, TypeOK, RowTypes,
         WorkTypes, rowVars, workVars
<1>18. ASSUME NEW m \in Mails, Age(m) PROVE DispatchIsFirst'
  BY <1>18
  DEF Age, Delivery, DispatchIsFirst, Sender, TypeOK, RowTypes, WorkTypes,
         rowVars, workVars
<1>19. ASSUME Crash PROVE DispatchIsFirst'
  BY <1>19
  DEF Crash, Forget, Delivery, DispatchIsFirst, Sender, TypeOK, RowTypes,
         WorkTypes, rowVars, workVars
<1>20. ASSUME Start PROVE DispatchIsFirst'
  BY <1>20
  DEF Start, Delivery, DispatchIsFirst, Sender, TypeOK, RowTypes, WorkTypes,
         rowVars, workVars
<1>21. CASE UNCHANGED vars
  BY <1>21
  DEF Delivery, DispatchIsFirst, Sender, TypeOK, RowTypes, WorkTypes, rowVars,
         workVars, vars
<1>22. ASSUME NEW w \in Workers, Misrecord(w) PROVE DispatchIsFirst'
  BY <1>22
  DEF Misrecord, Decide, Delivery, DispatchIsFirst, Sender, TypeOK, RowTypes,
      WorkTypes, rowVars, workVars
<1>23. QED
  BY <1>1, <1>2, <1>3, <1>4, <1>5, <1>6, <1>7, <1>8, <1>9, <1>10, <1>11,
         <1>12, <1>13, <1>14, <1>15, <1>16, <1>17, <1>18, <1>19, <1>20, <1>21,
         <1>22
  DEF Next, UserStep, WorkerStep, Workers

\* No step delivers a message again unsought.
LEMMA OnceStep ==
    ASSUME Delivery, [Next]_vars PROVE NoCopyUnsought'
PROOF
<1>1. ASSUME NEW m \in Mails, Schedule(m) PROVE NoCopyUnsought'
  BY <1>1
  DEF Schedule, Delivery, NoCopyUnsought, DispatchIsFirst, HandledIsHeld,
         Sender, TypeOK, RowTypes, WorkTypes, rowVars, workVars
<1>2. ASSUME NEW m \in Mails, Cancel(m) PROVE NoCopyUnsought'
  BY <1>2
  DEF Cancel, Delivery, NoCopyUnsought, DispatchIsFirst, HandledIsHeld,
         Sender, TypeOK, RowTypes, WorkTypes, rowVars, workVars
<1>3. ASSUME NEW m \in Mails, UpdateSendAt(m) PROVE NoCopyUnsought'
  BY <1>3
  DEF UpdateSendAt, Delivery, NoCopyUnsought, DispatchIsFirst,
         HandledIsHeld, Sender, TypeOK, RowTypes, WorkTypes, rowVars, workVars
<1>4. ASSUME NEW m \in Mails, UpdatePayload(m) PROVE NoCopyUnsought'
  BY <1>4
  DEF UpdatePayload, Delivery, NoCopyUnsought, DispatchIsFirst,
         HandledIsHeld, Sender, TypeOK, RowTypes, WorkTypes, rowVars, workVars
<1>5. ASSUME NEW w \in Workers, NEW m \in Mails, SendNow(w, m) PROVE NoCopyUnsought'
  BY <1>5
  DEF SendNow, Row, Delivery, NoCopyUnsought, DispatchIsFirst,
         HandledIsHeld, Sender, TypeOK, RowTypes, WorkTypes, rowVars, workVars
<1>6. ASSUME NEW a \in Accounts, DeleteByAccount(a) PROVE NoCopyUnsought'
  BY <1>6
  DEF DeleteByAccount, Delivery, NoCopyUnsought, DispatchIsFirst,
         HandledIsHeld, Sender, TypeOK, RowTypes, WorkTypes, rowVars, workVars
<1>7. ASSUME ListDue PROVE NoCopyUnsought'
  BY <1>7
  DEF ListDue, Due, Row, Delivery, NoCopyUnsought, DispatchIsFirst,
         HandledIsHeld, Sender, TypeOK, RowTypes, WorkTypes, rowVars, workVars
<1>8. ASSUME NEW w \in Workers, NEW a \in Accounts, StartAccount(w, a) PROVE NoCopyUnsought'
  BY <1>8
  DEF StartAccount, Delivery, NoCopyUnsought, DispatchIsFirst,
         HandledIsHeld, Sender, TypeOK, RowTypes, WorkTypes, rowVars, workVars
<1>9. ASSUME NEW w \in Workers, NEW m \in Mails, ClaimForSend(w, m) PROVE NoCopyUnsought'
  BY <1>9
  DEF ClaimForSend, Settled, Delivery, NoCopyUnsought, DispatchIsFirst,
         HandledIsHeld, Sender, TypeOK, RowTypes, WorkTypes, rowVars, workVars
<1>10. ASSUME NEW w \in Workers, NEW m \in Mails, MarkUnserved(w, m) PROVE NoCopyUnsought'
  BY <1>10
  DEF MarkUnserved, Mark, Continue, Settled, Delivery, NoCopyUnsought,
         DispatchIsFirst, HandledIsHeld, Sender, TypeOK, RowTypes, WorkTypes,
         rowVars, workVars
<1>11. ASSUME NEW w \in Workers, NEW m \in Mails, SendOne(w, m) PROVE NoCopyUnsought'
  BY <1>11
  DEF SendOne, Delivery, NoCopyUnsought, DispatchIsFirst, HandledIsHeld,
         Sender, TypeOK, RowTypes, WorkTypes, rowVars, workVars
<1>12. ASSUME NEW w \in Workers, LoadAccount(w) PROVE NoCopyUnsought'
  BY <1>12
  DEF LoadAccount, Continue, Delivery, NoCopyUnsought, DispatchIsFirst,
         HandledIsHeld, Sender, TypeOK, RowTypes, WorkTypes, rowVars, workVars
<1>13. ASSUME NEW w \in Workers, Lookup(w) PROVE NoCopyUnsought'
  BY <1>13
  DEF Lookup, Decide, Delivery, NoCopyUnsought, DispatchIsFirst,
         HandledIsHeld, Sender, TypeOK, RowTypes, WorkTypes, rowVars, workVars
<1>14. ASSUME NEW w \in Workers, Record(w) PROVE NoCopyUnsought'
  BY <1>14
  DEF Record, Mark, Continue, Settled, Delivery, NoCopyUnsought,
         DispatchIsFirst, HandledIsHeld, Sender, TypeOK, RowTypes, WorkTypes,
         rowVars, workVars
<1>15. ASSUME NEW w \in Workers, NEW o \in Outcomes, Dispatch(w, o) PROVE NoCopyUnsought'
  BY <1>15
  DEF Dispatch, Decide, Delivery, NoCopyUnsought, DispatchIsFirst,
         HandledIsHeld, Sender, TypeOK, RowTypes, WorkTypes, rowVars, workVars
<1>16. ASSUME NEW w \in Workers, AbortTick(w) PROVE NoCopyUnsought'
  BY <1>16
  DEF AbortTick, Forget, Delivery, NoCopyUnsought, DispatchIsFirst,
         HandledIsHeld, Sender, TypeOK, RowTypes, WorkTypes, rowVars, workVars
<1>17. ASSUME NEW m \in Mails, BecomeDue(m) PROVE NoCopyUnsought'
  BY <1>17
  DEF BecomeDue, Delivery, NoCopyUnsought, DispatchIsFirst, HandledIsHeld,
         Sender, TypeOK, RowTypes, WorkTypes, rowVars, workVars
<1>18. ASSUME NEW m \in Mails, Age(m) PROVE NoCopyUnsought'
  BY <1>18
  DEF Age, Delivery, NoCopyUnsought, DispatchIsFirst, HandledIsHeld,
         Sender, TypeOK, RowTypes, WorkTypes, rowVars, workVars
<1>19. ASSUME Crash PROVE NoCopyUnsought'
  BY <1>19
  DEF Crash, Forget, Delivery, NoCopyUnsought, DispatchIsFirst,
         HandledIsHeld, Sender, TypeOK, RowTypes, WorkTypes, rowVars, workVars
<1>20. ASSUME Start PROVE NoCopyUnsought'
  BY <1>20
  DEF Start, Delivery, NoCopyUnsought, DispatchIsFirst, HandledIsHeld,
         Sender, TypeOK, RowTypes, WorkTypes, rowVars, workVars
<1>21. CASE UNCHANGED vars
  BY <1>21
  DEF Delivery, NoCopyUnsought, DispatchIsFirst, HandledIsHeld, Sender,
         TypeOK, RowTypes, WorkTypes, rowVars, workVars, vars
<1>22. ASSUME NEW w \in Workers, Misrecord(w) PROVE NoCopyUnsought'
  BY <1>22
  DEF Misrecord, Decide, Delivery, NoCopyUnsought, DispatchIsFirst, HandledIsHeld,
      Sender, TypeOK, RowTypes, WorkTypes, rowVars, workVars
<1>23. QED
  BY <1>1, <1>2, <1>3, <1>4, <1>5, <1>6, <1>7, <1>8, <1>9, <1>10, <1>11,
         <1>12, <1>13, <1>14, <1>15, <1>16, <1>17, <1>18, <1>19, <1>20, <1>21,
         <1>22
  DEF Next, UserStep, WorkerStep, Workers

\* A step changes no outcome.
LEMMA TerminalStep ==
    ASSUME Sender, [Next]_vars PROVE \A k \in Mails : status[k] \in Terminal => status'[k] \in {status[k], "deleted"}
PROOF
<1>1. ASSUME NEW m \in Mails, Schedule(m) PROVE \A k \in Mails : status[k] \in Terminal => status'[k] \in {status[k], "deleted"}
  BY <1>1
  DEF Schedule, Terminal, OneSender, HandledIsHeld, DownIsEmpty, Sender,
         TypeOK, RowTypes, WorkTypes, rowVars, workVars
<1>2. ASSUME NEW m \in Mails, Cancel(m) PROVE \A k \in Mails : status[k] \in Terminal => status'[k] \in {status[k], "deleted"}
  BY <1>2
  DEF Cancel, Terminal, OneSender, HandledIsHeld, DownIsEmpty, Sender, TypeOK,
         RowTypes, WorkTypes, rowVars, workVars
<1>3. ASSUME NEW m \in Mails, UpdateSendAt(m) PROVE \A k \in Mails : status[k] \in Terminal => status'[k] \in {status[k], "deleted"}
  BY <1>3
  DEF UpdateSendAt, Terminal, OneSender, HandledIsHeld, DownIsEmpty, Sender,
         TypeOK, RowTypes, WorkTypes, rowVars, workVars
<1>4. ASSUME NEW m \in Mails, UpdatePayload(m) PROVE \A k \in Mails : status[k] \in Terminal => status'[k] \in {status[k], "deleted"}
  BY <1>4
  DEF UpdatePayload, Terminal, OneSender, HandledIsHeld, DownIsEmpty, Sender,
         TypeOK, RowTypes, WorkTypes, rowVars, workVars
<1>5. ASSUME NEW w \in Workers, NEW m \in Mails, SendNow(w, m) PROVE \A k \in Mails : status[k] \in Terminal => status'[k] \in {status[k], "deleted"}
  BY <1>5
  DEF SendNow, Row, Terminal, OneSender, HandledIsHeld, DownIsEmpty, Sender,
         TypeOK, RowTypes, WorkTypes, rowVars, workVars
<1>6. ASSUME NEW a \in Accounts, DeleteByAccount(a) PROVE \A k \in Mails : status[k] \in Terminal => status'[k] \in {status[k], "deleted"}
  BY <1>6
  DEF DeleteByAccount, Terminal, OneSender, HandledIsHeld, DownIsEmpty,
         Sender, TypeOK, RowTypes, WorkTypes, rowVars, workVars
<1>7. ASSUME ListDue PROVE \A k \in Mails : status[k] \in Terminal => status'[k] \in {status[k], "deleted"}
  BY <1>7
  DEF ListDue, Due, Row, Terminal, OneSender, HandledIsHeld, DownIsEmpty,
         Sender, TypeOK, RowTypes, WorkTypes, rowVars, workVars
<1>8. ASSUME NEW w \in Workers, NEW a \in Accounts, StartAccount(w, a) PROVE \A k \in Mails : status[k] \in Terminal => status'[k] \in {status[k], "deleted"}
  BY <1>8
  DEF StartAccount, Terminal, OneSender, HandledIsHeld, DownIsEmpty, Sender,
         TypeOK, RowTypes, WorkTypes, rowVars, workVars
<1>9. ASSUME NEW w \in Workers, NEW m \in Mails, ClaimForSend(w, m) PROVE \A k \in Mails : status[k] \in Terminal => status'[k] \in {status[k], "deleted"}
  BY <1>9
  DEF ClaimForSend, Settled, Terminal, OneSender, HandledIsHeld, DownIsEmpty,
         Sender, TypeOK, RowTypes, WorkTypes, rowVars, workVars
<1>10. ASSUME NEW w \in Workers, NEW m \in Mails, MarkUnserved(w, m) PROVE \A k \in Mails : status[k] \in Terminal => status'[k] \in {status[k], "deleted"}
  BY <1>10
  DEF MarkUnserved, Mark, Continue, Settled, Terminal, OneSender,
         HandledIsHeld, DownIsEmpty, Sender, TypeOK, RowTypes, WorkTypes,
         rowVars, workVars
<1>11. ASSUME NEW w \in Workers, NEW m \in Mails, SendOne(w, m) PROVE \A k \in Mails : status[k] \in Terminal => status'[k] \in {status[k], "deleted"}
  BY <1>11
  DEF SendOne, Terminal, OneSender, HandledIsHeld, DownIsEmpty, Sender,
         TypeOK, RowTypes, WorkTypes, rowVars, workVars
<1>12. ASSUME NEW w \in Workers, LoadAccount(w) PROVE \A k \in Mails : status[k] \in Terminal => status'[k] \in {status[k], "deleted"}
  BY <1>12
  DEF LoadAccount, Continue, Terminal, OneSender, HandledIsHeld, DownIsEmpty,
         Sender, TypeOK, RowTypes, WorkTypes, rowVars, workVars
<1>13. ASSUME NEW w \in Workers, Lookup(w) PROVE \A k \in Mails : status[k] \in Terminal => status'[k] \in {status[k], "deleted"}
  BY <1>13
  DEF Lookup, Decide, Terminal, OneSender, HandledIsHeld, DownIsEmpty, Sender,
         TypeOK, RowTypes, WorkTypes, rowVars, workVars
<1>14. ASSUME NEW w \in Workers, Record(w) PROVE \A k \in Mails : status[k] \in Terminal => status'[k] \in {status[k], "deleted"}
  BY <1>14
  DEF Record, Mark, Continue, Settled, Terminal, OneSender, HandledIsHeld,
         DownIsEmpty, Sender, TypeOK, RowTypes, WorkTypes, rowVars, workVars
<1>15. ASSUME NEW w \in Workers, NEW o \in Outcomes, Dispatch(w, o) PROVE \A k \in Mails : status[k] \in Terminal => status'[k] \in {status[k], "deleted"}
  BY <1>15
  DEF Dispatch, Decide, Terminal, OneSender, HandledIsHeld, DownIsEmpty,
         Sender, TypeOK, RowTypes, WorkTypes, rowVars, workVars
<1>16. ASSUME NEW w \in Workers, AbortTick(w) PROVE \A k \in Mails : status[k] \in Terminal => status'[k] \in {status[k], "deleted"}
  BY <1>16
  DEF AbortTick, Forget, Terminal, OneSender, HandledIsHeld, DownIsEmpty,
         Sender, TypeOK, RowTypes, WorkTypes, rowVars, workVars
<1>17. ASSUME NEW m \in Mails, BecomeDue(m) PROVE \A k \in Mails : status[k] \in Terminal => status'[k] \in {status[k], "deleted"}
  BY <1>17
  DEF BecomeDue, Terminal, OneSender, HandledIsHeld, DownIsEmpty, Sender,
         TypeOK, RowTypes, WorkTypes, rowVars, workVars
<1>18. ASSUME NEW m \in Mails, Age(m) PROVE \A k \in Mails : status[k] \in Terminal => status'[k] \in {status[k], "deleted"}
  BY <1>18
  DEF Age, Terminal, OneSender, HandledIsHeld, DownIsEmpty, Sender, TypeOK,
         RowTypes, WorkTypes, rowVars, workVars
<1>19. ASSUME Crash PROVE \A k \in Mails : status[k] \in Terminal => status'[k] \in {status[k], "deleted"}
  BY <1>19
  DEF Crash, Forget, Terminal, OneSender, HandledIsHeld, DownIsEmpty, Sender,
         TypeOK, RowTypes, WorkTypes, rowVars, workVars
<1>20. ASSUME Start PROVE \A k \in Mails : status[k] \in Terminal => status'[k] \in {status[k], "deleted"}
  BY <1>20
  DEF Start, Terminal, OneSender, HandledIsHeld, DownIsEmpty, Sender, TypeOK,
         RowTypes, WorkTypes, rowVars, workVars
<1>21. CASE UNCHANGED vars
  BY <1>21
  DEF Terminal, OneSender, HandledIsHeld, DownIsEmpty, Sender, TypeOK,
         RowTypes, WorkTypes, rowVars, workVars, vars
<1>22. ASSUME NEW w \in Workers, Misrecord(w) PROVE \A k \in Mails : status[k] \in Terminal => status'[k] \in {status[k], "deleted"}
  BY <1>22
  DEF Misrecord, Decide, Terminal, OneSender, HandledIsHeld, DownIsEmpty, Sender,
      TypeOK, RowTypes, WorkTypes, rowVars, workVars
<1>23. QED
  BY <1>1, <1>2, <1>3, <1>4, <1>5, <1>6, <1>7, <1>8, <1>9, <1>10, <1>11,
         <1>12, <1>13, <1>14, <1>15, <1>16, <1>17, <1>18, <1>19, <1>20, <1>21,
         <1>22
  DEF Next, UserStep, WorkerStep, Workers

\* A step delivers nothing that has an outcome.
LEMMA QuietStep ==
    ASSUME Sender, [Next]_vars PROVE \A k \in Mails : status[k] \in Terminal => delivered'[k] = delivered[k]
PROOF
<1>1. ASSUME NEW m \in Mails, Schedule(m) PROVE \A k \in Mails : status[k] \in Terminal => delivered'[k] = delivered[k]
  BY <1>1
  DEF Schedule, Terminal, OneSender, HandledIsHeld, Sender, TypeOK, RowTypes,
         WorkTypes, rowVars, workVars
<1>2. ASSUME NEW m \in Mails, Cancel(m) PROVE \A k \in Mails : status[k] \in Terminal => delivered'[k] = delivered[k]
  BY <1>2
  DEF Cancel, Terminal, OneSender, HandledIsHeld, Sender, TypeOK, RowTypes,
         WorkTypes, rowVars, workVars
<1>3. ASSUME NEW m \in Mails, UpdateSendAt(m) PROVE \A k \in Mails : status[k] \in Terminal => delivered'[k] = delivered[k]
  BY <1>3
  DEF UpdateSendAt, Terminal, OneSender, HandledIsHeld, Sender, TypeOK,
         RowTypes, WorkTypes, rowVars, workVars
<1>4. ASSUME NEW m \in Mails, UpdatePayload(m) PROVE \A k \in Mails : status[k] \in Terminal => delivered'[k] = delivered[k]
  BY <1>4
  DEF UpdatePayload, Terminal, OneSender, HandledIsHeld, Sender, TypeOK,
         RowTypes, WorkTypes, rowVars, workVars
<1>5. ASSUME NEW w \in Workers, NEW m \in Mails, SendNow(w, m) PROVE \A k \in Mails : status[k] \in Terminal => delivered'[k] = delivered[k]
  BY <1>5
  DEF SendNow, Row, Terminal, OneSender, HandledIsHeld, Sender, TypeOK,
         RowTypes, WorkTypes, rowVars, workVars
<1>6. ASSUME NEW a \in Accounts, DeleteByAccount(a) PROVE \A k \in Mails : status[k] \in Terminal => delivered'[k] = delivered[k]
  BY <1>6
  DEF DeleteByAccount, Terminal, OneSender, HandledIsHeld, Sender, TypeOK,
         RowTypes, WorkTypes, rowVars, workVars
<1>7. ASSUME ListDue PROVE \A k \in Mails : status[k] \in Terminal => delivered'[k] = delivered[k]
  BY <1>7
  DEF ListDue, Due, Row, Terminal, OneSender, HandledIsHeld, Sender, TypeOK,
         RowTypes, WorkTypes, rowVars, workVars
<1>8. ASSUME NEW w \in Workers, NEW a \in Accounts, StartAccount(w, a) PROVE \A k \in Mails : status[k] \in Terminal => delivered'[k] = delivered[k]
  BY <1>8
  DEF StartAccount, Terminal, OneSender, HandledIsHeld, Sender, TypeOK,
         RowTypes, WorkTypes, rowVars, workVars
<1>9. ASSUME NEW w \in Workers, NEW m \in Mails, ClaimForSend(w, m) PROVE \A k \in Mails : status[k] \in Terminal => delivered'[k] = delivered[k]
  BY <1>9
  DEF ClaimForSend, Settled, Terminal, OneSender, HandledIsHeld, Sender,
         TypeOK, RowTypes, WorkTypes, rowVars, workVars
<1>10. ASSUME NEW w \in Workers, NEW m \in Mails, MarkUnserved(w, m) PROVE \A k \in Mails : status[k] \in Terminal => delivered'[k] = delivered[k]
  BY <1>10
  DEF MarkUnserved, Mark, Continue, Settled, Terminal, OneSender,
         HandledIsHeld, Sender, TypeOK, RowTypes, WorkTypes, rowVars, workVars
<1>11. ASSUME NEW w \in Workers, NEW m \in Mails, SendOne(w, m) PROVE \A k \in Mails : status[k] \in Terminal => delivered'[k] = delivered[k]
  BY <1>11
  DEF SendOne, Terminal, OneSender, HandledIsHeld, Sender, TypeOK, RowTypes,
         WorkTypes, rowVars, workVars
<1>12. ASSUME NEW w \in Workers, LoadAccount(w) PROVE \A k \in Mails : status[k] \in Terminal => delivered'[k] = delivered[k]
  BY <1>12
  DEF LoadAccount, Continue, Terminal, OneSender, HandledIsHeld, Sender,
         TypeOK, RowTypes, WorkTypes, rowVars, workVars
<1>13. ASSUME NEW w \in Workers, Lookup(w) PROVE \A k \in Mails : status[k] \in Terminal => delivered'[k] = delivered[k]
  BY <1>13
  DEF Lookup, Decide, Terminal, OneSender, HandledIsHeld, Sender, TypeOK,
         RowTypes, WorkTypes, rowVars, workVars
<1>14. ASSUME NEW w \in Workers, Record(w) PROVE \A k \in Mails : status[k] \in Terminal => delivered'[k] = delivered[k]
  BY <1>14
  DEF Record, Mark, Continue, Settled, Terminal, OneSender, HandledIsHeld,
         Sender, TypeOK, RowTypes, WorkTypes, rowVars, workVars
<1>15. ASSUME NEW w \in Workers, NEW o \in Outcomes, Dispatch(w, o) PROVE \A k \in Mails : status[k] \in Terminal => delivered'[k] = delivered[k]
  BY <1>15
  DEF Dispatch, Decide, Terminal, OneSender, HandledIsHeld, Sender, TypeOK,
         RowTypes, WorkTypes, rowVars, workVars
<1>16. ASSUME NEW w \in Workers, AbortTick(w) PROVE \A k \in Mails : status[k] \in Terminal => delivered'[k] = delivered[k]
  BY <1>16
  DEF AbortTick, Forget, Terminal, OneSender, HandledIsHeld, Sender, TypeOK,
         RowTypes, WorkTypes, rowVars, workVars
<1>17. ASSUME NEW m \in Mails, BecomeDue(m) PROVE \A k \in Mails : status[k] \in Terminal => delivered'[k] = delivered[k]
  BY <1>17
  DEF BecomeDue, Terminal, OneSender, HandledIsHeld, Sender, TypeOK, RowTypes,
         WorkTypes, rowVars, workVars
<1>18. ASSUME NEW m \in Mails, Age(m) PROVE \A k \in Mails : status[k] \in Terminal => delivered'[k] = delivered[k]
  BY <1>18
  DEF Age, Terminal, OneSender, HandledIsHeld, Sender, TypeOK, RowTypes,
         WorkTypes, rowVars, workVars
<1>19. ASSUME Crash PROVE \A k \in Mails : status[k] \in Terminal => delivered'[k] = delivered[k]
  BY <1>19
  DEF Crash, Forget, Terminal, OneSender, HandledIsHeld, Sender, TypeOK,
         RowTypes, WorkTypes, rowVars, workVars
<1>20. ASSUME Start PROVE \A k \in Mails : status[k] \in Terminal => delivered'[k] = delivered[k]
  BY <1>20
  DEF Start, Terminal, OneSender, HandledIsHeld, Sender, TypeOK, RowTypes,
         WorkTypes, rowVars, workVars
<1>21. CASE UNCHANGED vars
  BY <1>21
  DEF Terminal, OneSender, HandledIsHeld, Sender, TypeOK, RowTypes, WorkTypes,
         rowVars, workVars, vars
<1>22. ASSUME NEW w \in Workers, Misrecord(w) PROVE \A k \in Mails : status[k] \in Terminal => delivered'[k] = delivered[k]
  BY <1>22
  DEF Misrecord, Decide, Terminal, OneSender, HandledIsHeld, Sender, TypeOK,
      RowTypes, WorkTypes, rowVars, workVars
<1>23. QED
  BY <1>1, <1>2, <1>3, <1>4, <1>5, <1>6, <1>7, <1>8, <1>9, <1>10, <1>11,
         <1>12, <1>13, <1>14, <1>15, <1>16, <1>17, <1>18, <1>19, <1>20, <1>21,
         <1>22
  DEF Next, UserStep, WorkerStep, Workers

LEMMA DeliveryInit == Init => Delivery
  BY SenderInit
  DEF Init, Delivery, ReadOrHeld, SendingWasTried, AbsentIsNew,
      DispatchIsFirst, DeliveredIsKnown, NoCopyUnsought

\* Delivery is inductive.
THEOREM DeliveryInvariant == Spec => []Delivery
PROOF
<1>1. Sender /\ [Next]_vars => Sender'
  BY TypeStep, SenderStep, DownStep, HandledStep, VerdictStep, SentVerdictStep, SentStep
  DEF Sender
<1>2. Delivery /\ [Next]_vars => Delivery'
  <2> SUFFICES ASSUME Delivery, [Next]_vars PROVE Delivery'
    OBVIOUS
  <2>1. Sender'
    BY <1>1 DEF Delivery
  <2>2. ReadOrHeld' /\ SendingWasTried' /\ AbsentIsNew'
    BY ReadStep, TriedStep, AbsentStep DEF Delivery
  <2>3. DispatchIsFirst' /\ DeliveredIsKnown' /\ NoCopyUnsought'
    BY FirstStep, KnownStep, OnceStep
  <2> QED
    BY <2>1, <2>2, <2>3 DEF Delivery
<1> QED
  BY DeliveryInit, <1>2, PTL DEF Spec

\* However sends, aborted ticks, crashes and recoveries interleave, a message leaves
\* again only after a lookup that missed every copy of it.
THEOREM DeliveredOnce == Spec => []NoCopyUnsought
PROOF
<1>1. Delivery => NoCopyUnsought
  BY DEF Delivery
<1> QED
  BY <1>1, DeliveryInvariant, PTL

\* An outcome on record is never overwritten, although mark_sent and
\* mark_failed do not look at the status.
THEOREM OutcomeStays == Spec => OutcomeIsFinal
PROOF
<1>1. Sender /\ [Next]_vars =>
        [\A m \in Mails : status[m] \in Terminal => status'[m] \in {status[m], "deleted"}]_vars
  BY TerminalStep DEF Sender
<1> QED
  BY SenderInvariant, <1>1, PTL DEF Spec, OutcomeIsFinal

\* A message is not delivered once its outcome is on record.
THEOREM SettledStays == Spec => SettledIsNotDelivered
PROOF
<1>1. Sender /\ [Next]_vars =>
        [\A m \in Mails : status[m] \in Terminal => delivered'[m] = delivered[m]]_vars
  BY QuietStep DEF Sender
<1> QED
  BY SenderInvariant, <1>1, PTL DEF Spec, SettledIsNotDelivered

-----------------------------------------------------------------------------
(***************************************************************************)
(* How often a message is tried.  A worker judges by the attempts it read, *)
(* which others may have passed since, so the count itself is no budget.   *)
(* What a claim spends is the reader: it leaves Readers as the attempt is  *)
(* counted, and only one that finds two more attempts left enters it.      *)
(***************************************************************************)

\* Who has read the row and may still put it back; whether it may be claimed again.
Readers(m) == {w \in Workers : m \in batch[w] /\ MayRetry(w, m)}
Requeueable(m) ==
    \/ status[m] \in {"absent", "pending"}
    \/ \E w \in Workers : m \in work[w] /\ MayRetry(w, m)

\* Every claim is paid for by its reader, and the last one by the margin.
Margin == MAX_SEND_ATTEMPTS + Cardinality(Clicks)
Spent(m) == attempts[m] + Cardinality(Readers(m))
Budget(m) == Spent(m) <= Margin /\ (Requeueable(m) => Spent(m) < Margin)

\* A retry is recorded within the budget.
RetryVerdict ==
    \A w \in Workers : pc[w] = "record" /\ verdict[w] = "retry" => MayRetry(w, mail[w])

Capped == alive /\ ReadOrHeld /\ RetryVerdict /\ \A m \in Mails : Budget(m)

\* The readers are some of the workers.
LEMMA ReadersCount ==
    ASSUME IsFiniteSet(Clicks), NEW m
    PROVE  /\ Cardinality(Clicks) \in Nat
           /\ IsFiniteSet(Readers(m)) /\ Cardinality(Readers(m)) \in 0..(Cardinality(Clicks) + 1)
PROOF
<1>1. /\ IsFiniteSet(Workers) /\ Cardinality(Workers) = Cardinality(Clicks) + 1
      /\ Cardinality(Clicks) \in Nat
  <2>1. Workers = Clicks \cup {Scheduler} /\ Scheduler \notin Clicks
    BY SenderAssumption DEF Workers
  <2> QED
    BY <2>1, FS_AddElement, FS_CardinalityType
<1>2. Readers(m) \in SUBSET Workers
  BY DEF Readers
<1> QED
  BY <1>1, <1>2, FS_Subset, FS_CardinalityType

\* A step that makes no new reader and claims nothing keeps the budget.
LEMMA NoNewReader ==
    ASSUME IsFiniteSet(Clicks), TypeOK, NEW m \in Mails, Budget(m),
           attempts'[m] \in 0..attempts[m], Readers(m)' \subseteq Readers(m),
           Requeueable(m)' => Requeueable(m)
    PROVE  Budget(m)'
PROOF
<1> DEFINE a == Cardinality(Readers(m))
           b == Cardinality(Readers(m)')
<1>1. a \in Nat /\ b \in Nat /\ b <= a
  <2>1. IsFiniteSet(Readers(m)) /\ a \in Nat
    BY ReadersCount
  <2> QED
    BY <2>1, FS_Subset, FS_CardinalityType
<1>2. attempts[m] \in Nat /\ Margin \in Nat
  BY ReadersCount, BoundsAssumption DEF TypeOK, RowTypes, Margin
<1>3. Spent(m) = attempts[m] + a /\ Spent(m)' = attempts'[m] + b /\ Margin' = Margin
  BY DEF Spent, Margin
<1> HIDE DEF a, b
<1> QED
  BY <1>1, <1>2, <1>3 DEF Budget

\* Whoever reads the row while it may be tried twice more finds it within the budget.
LEMMA ReadInTime ==
    ASSUME IsFiniteSet(Clicks), NEW m \in Mails, attempts'[m] \in Nat,
           attempts'[m] + 1 < MAX_SEND_ATTEMPTS
    PROVE  Budget(m)'
PROOF
<1> DEFINE b == Cardinality(Readers(m)')
<1>1. b \in 0..(Cardinality(Clicks) + 1) /\ Cardinality(Clicks) \in Nat
  <2>1. Readers(m)' \in SUBSET Workers
    BY DEF Readers
  <2>2. IsFiniteSet(Workers) /\ Cardinality(Workers) = Cardinality(Clicks) + 1
    <3>1. Workers = Clicks \cup {Scheduler} /\ Scheduler \notin Clicks
      BY SenderAssumption DEF Workers
    <3> QED
      BY <3>1, FS_AddElement, FS_CardinalityType
  <2> QED
    BY <2>1, <2>2, ReadersCount, FS_Subset, FS_CardinalityType
<1>2. Spent(m)' = attempts'[m] + b /\ Margin' = MAX_SEND_ATTEMPTS + Cardinality(Clicks)
  BY DEF Spent, Margin
<1> HIDE DEF b
<1> QED
  BY <1>1, <1>2, BoundsAssumption DEF Budget

\* Steps that touch neither what was read nor what was claimed.
LEMMA StillRead ==
    ASSUME IsFiniteSet(Clicks), TypeOK, NEW m \in Mails, Budget(m),
           UNCHANGED <<batch, seen, work>>, attempts'[m] \in 0..attempts[m],
           status'[m] \in {"absent", "pending"} => status[m] \in {"absent", "pending"}
    PROVE  Budget(m)'
PROOF
<1>1. Readers(m)' = Readers(m)
  BY DEF Readers, MayRetry
<1>2. Requeueable(m)' => Requeueable(m)
  BY DEF Requeueable, MayRetry
<1> QED
  BY <1>1, <1>2, NoNewReader

\* Worker w reads the pending rows B.
Reads(w, B) ==
    /\ \A k \in B : status[k] = "pending"
    /\ batch' = [batch EXCEPT ![w] = B]
    /\ \A v \in Workers, k \in Mails :
          seen'[v][k] = IF v = w /\ k \in B THEN Row(k) ELSE seen[v][k]
    /\ UNCHANGED <<status, attempts, work>>

\* A worker reads pending rows: a new reader is one that finds two more attempts left.
LEMMA ReadBudget ==
    ASSUME IsFiniteSet(Clicks), Sender, NEW m \in Mails, Budget(m),
           NEW w \in Workers, NEW B \in SUBSET Mails,
           Reads(w, B)
    PROVE  Budget(m)'
PROOF
<1>0. /\ TypeOK /\ OneSender /\ attempts[m] \in Nat
      /\ \A k \in B : status[k] = "pending"
      /\ batch' = [batch EXCEPT ![w] = B]
      /\ \A v \in Workers, k \in Mails :
            seen'[v][k] = IF v = w /\ k \in B THEN Row(k) ELSE seen[v][k]
      /\ UNCHANGED <<status, attempts, work>>
  BY DEF Sender, TypeOK, RowTypes, Reads
<1>1. CASE attempts[m] + 1 < MAX_SEND_ATTEMPTS
  BY <1>0, <1>1, ReadInTime
<1>2. CASE ~(attempts[m] + 1 < MAX_SEND_ATTEMPTS)
  <2>1. Row(m).attempts = attempts[m]
    BY DEF Row
  <2>2. ASSUME NEW v \in Workers, m \in batch'[v], MayRetry(v, m)'
        PROVE  m \in batch[v] /\ MayRetry(v, m)
    <3>1. CASE v = w
      <4>1. m \in B
        BY <1>0, <2>2, <3>1 DEF TypeOK, WorkTypes
      <4>2. seen'[w][m] = Row(m)
        BY <1>0, <4>1
      <4> QED
        BY <1>2, <2>1, <2>2, <3>1, <4>2 DEF MayRetry
    <3>2. CASE v # w
      BY <1>0, <2>2, <3>2 DEF TypeOK, WorkTypes, MayRetry
    <3> QED
      BY <3>1, <3>2
  <2>3. Readers(m)' \subseteq Readers(m)
    BY <2>2 DEF Readers
  <2>4. Requeueable(m)' => Requeueable(m)
    <3>1. ASSUME NEW v \in Workers, m \in work[v], MayRetry(v, m)' PROVE MayRetry(v, m)
      <4>1. ~(v = w /\ m \in B)
        BY <1>0, <3>1 DEF OneSender
      <4> QED
        BY <1>0, <3>1, <4>1 DEF MayRetry
    <3> QED
      BY <1>0, <3>1 DEF Requeueable
  <2> QED
    BY <1>0, <2>3, <2>4, NoNewReader
<1> QED
  BY <1>1, <1>2

\* A claim turns a reader into an attempt; one that may not retry ends the row.
LEMMA ClaimBudget ==
    ASSUME IsFiniteSet(Clicks), Sender, ReadOrHeld, NEW m \in Mails, Budget(m),
           NEW w \in Workers, NEW k \in Mails, ClaimForSend(w, k)
    PROVE  Budget(m)'
PROOF
<1>0. /\ TypeOK /\ OneSender /\ attempts[m] \in Nat
      /\ k \in batch[w] /\ batch' = [batch EXCEPT ![w] = @ \ {k}]
      /\ batch \in [Workers -> SUBSET Mails] /\ work \in [Workers -> SUBSET Mails]
  BY DEF Sender, TypeOK, RowTypes, WorkTypes, ClaimForSend
<1>1. CASE status[k] = "pending" /\ m # k
  <2>1. attempts'[m] = attempts[m] /\ status'[m] = status[m] /\ UNCHANGED seen
    BY <1>0, <1>1 DEF ClaimForSend, TypeOK, RowTypes
  <2>2. \A v \in Workers : /\ m \in batch'[v] => m \in batch[v]
                           /\ m \in work'[v] => m \in work[v]
    BY <1>0, <1>1 DEF ClaimForSend
  <2>3. Readers(m)' \subseteq Readers(m) /\ (Requeueable(m)' => Requeueable(m))
    BY <2>1, <2>2 DEF Readers, Requeueable, MayRetry
  <2> QED
    BY <1>0, <2>1, <2>3, NoNewReader
<1>2. CASE status[k] # "pending"
  <2>1. UNCHANGED <<status, attempts, work>> /\ seen' = [seen EXCEPT ![w][k] = Unread]
    BY <1>2 DEF ClaimForSend, Settled
  <2>2. \A v \in Workers : m \in batch'[v] => m \in batch[v] /\ ~(v = w /\ m = k)
    BY <1>0
  <2>3. \A v \in Workers : m \in work[v] => ~(v = w /\ m = k)
    BY <1>0 DEF ReadOrHeld
  <2>4. \A v \in Workers : ~(v = w /\ m = k) => seen'[v][m] = seen[v][m]
    BY <1>0, <2>1 DEF TypeOK, SeenTypes
  <2>5. Readers(m)' \subseteq Readers(m) /\ (Requeueable(m)' => Requeueable(m))
    BY <2>1, <2>2, <2>3, <2>4 DEF Readers, Requeueable, MayRetry
  <2> QED
    BY <1>0, <2>1, <2>5, NoNewReader
<1>3. CASE status[k] = "pending" /\ m = k
  <2> DEFINE a == Cardinality(Readers(m))
             b == Cardinality(Readers(m)')
  <2>1. /\ attempts'[m] = attempts[m] + 1 /\ status'[m] = "sending" /\ UNCHANGED seen
        /\ work' = [work EXCEPT ![w] = @ \cup {m}]
    BY <1>0, <1>3 DEF ClaimForSend, TypeOK, RowTypes
  <2>2. Readers(m)' = Readers(m) \ {w}
    <3>1. \A v \in Workers : m \in batch'[v] <=> m \in batch[v] /\ v # w
      BY <1>0, <1>3
    <3> QED
      BY <2>1, <3>1 DEF Readers, MayRetry
  <2>3. /\ attempts[m] + a < Margin /\ Spent(m)' = attempts'[m] + b /\ Margin' = Margin
        /\ Margin \in Nat /\ a \in Nat /\ IsFiniteSet(Readers(m))
    BY <1>3, ReadersCount, BoundsAssumption DEF Budget, Requeueable, Spent, Margin
  <2>4. CASE w \in Readers(m)
    <3>1. b = a - 1
      BY <2>2, <2>3, <2>4, FS_RemoveElement
    <3> HIDE DEF a, b
    <3> QED
      BY <1>0, <2>1, <2>3, <3>1 DEF Budget
  <2>5. CASE w \notin Readers(m)
    <3>1. Readers(m)' = Readers(m)
      BY <2>2, <2>5
    <3>2. b = a
      BY <3>1
    <3>3. ~MayRetry(w, m)
      BY <1>0, <1>3, <2>5 DEF Readers
    <3>4. ~Requeueable(m)'
      <4>1. \A v \in Workers : m \in work'[v] => v = w
        BY <1>0, <1>3, <2>1 DEF OneSender
      <4> QED
        BY <2>1, <3>3, <4>1 DEF Requeueable, MayRetry
    <3> HIDE DEF a, b
    <3> QED
      BY <1>0, <2>1, <2>3, <3>2, <3>4 DEF Budget
  <2> QED
    BY <2>4, <2>5
<1> QED
  BY <1>1, <1>2, <1>3

\* A worker settles a row it holds: it goes back to pending within the budget only.
LEMMA SettleBudget ==
    ASSUME IsFiniteSet(Clicks), Sender, ReadOrHeld, NEW m \in Mails, Budget(m),
           NEW w \in Workers, NEW k \in work[w], NEW v,
           Mark(k, v), v \in {"sent", "found", "failed", "retry"},
           v = "retry" => MayRetry(w, k),
           work' = [work EXCEPT ![w] = @ \ {k}], Settled(w, k), UNCHANGED <<attempts, batch>>
    PROVE  Budget(m)'
PROOF
<1>0. /\ TypeOK /\ OneSender /\ k \in Mails /\ attempts[m] \in Nat
      /\ batch \in [Workers -> SUBSET Mails] /\ work \in [Workers -> SUBSET Mails]
      /\ status \in [Mails -> Status]
  BY DEF Sender, TypeOK, RowTypes, WorkTypes
<1>1. \A u \in Workers : m \in batch[u] => ~(u = w /\ m = k)
  BY <1>0 DEF ReadOrHeld
<1>2. \A u \in Workers : m \in work'[u] => m \in work[u] /\ ~(u = w /\ m = k)
  BY <1>0
<1>3. \A u \in Workers : ~(u = w /\ m = k) => seen'[u][m] = seen[u][m]
  BY <1>0 DEF Settled, TypeOK, SeenTypes
<1>4. Readers(m)' \subseteq Readers(m)
  BY <1>1, <1>3 DEF Readers, MayRetry
<1>5. Requeueable(m)' => Requeueable(m)
  <2>1. CASE status'[m] \in {"absent", "pending"}
    <3>1. CASE m # k
      BY <1>0, <2>1, <3>1 DEF Mark, Requeueable
    <3>2. CASE m = k
      <4>1. v = "retry"
        BY <1>0, <2>1, <3>2 DEF Mark, OneSender
      <4> QED
        BY <3>2, <4>1 DEF Requeueable
    <3> QED
      BY <3>1, <3>2
  <2>2. CASE status'[m] \notin {"absent", "pending"}
    BY <1>2, <1>3, <2>2 DEF Requeueable, MayRetry
  <2> QED
    BY <2>1, <2>2
<1> QED
  BY <1>0, <1>4, <1>5, NoNewReader

\* Every step keeps the budget.
LEMMA BudgetStep ==
    ASSUME ~Faults, IsFiniteSet(Clicks), Sender, Capped, [Next]_vars, NEW m \in Mails
    PROVE  Budget(m)'
PROOF
<1>0. /\ TypeOK /\ OneSender /\ ReadOrHeld /\ RetryVerdict /\ Budget(m) /\ alive
      /\ HandledIsHeld /\ VerdictReady
      /\ status \in [Mails -> Status] /\ attempts \in [Mails -> Nat]
      /\ seen \in [Workers -> [Mails -> Rows]]
  BY DEF Sender, Capped, TypeOK, RowTypes, SeenTypes
<1>1. ASSUME NEW k \in Mails, Schedule(k) \/ Cancel(k) \/ UpdateSendAt(k) \/ UpdatePayload(k)
      PROVE  Budget(m)'
  <2>1. /\ UNCHANGED <<batch, seen, work, attempts>>
        /\ status'[m] \in {"absent", "pending"} => status[m] \in {"absent", "pending"}
    BY <1>0, <1>1 DEF Schedule, Cancel, UpdateSendAt, UpdatePayload, workVars
  <2> QED
    BY <1>0, <2>1, StillRead
<1>2. ASSUME NEW w \in Clicks, NEW k \in Mails, SendNow(w, k) PROVE Budget(m)'
  <2>1. w \in Workers /\ {k} \in SUBSET Mails
    BY DEF Workers
  <2>2. \A v \in Workers, j \in Mails :
           seen'[v][j] = IF v = w /\ j \in {k} THEN Row(j) ELSE seen[v][j]
    BY <1>0, <1>2 DEF SendNow
  <2>3. Reads(w, {k})
    BY <1>2, <2>2 DEF SendNow, Reads, rowVars
  <2> QED
    BY <1>0, <2>1, <2>3, ReadBudget
<1>3. CASE ListDue
  <2>1. Scheduler \in Workers /\ Due \in SUBSET Mails
    BY DEF Workers, Due
  <2>2. \A v \in Workers, j \in Mails :
           seen'[v][j] = IF v = Scheduler /\ j \in Due THEN Row(j) ELSE seen[v][j]
    BY <1>0, <1>3 DEF ListDue
  <2>3. Reads(Scheduler, Due)
    BY <1>3, <2>2 DEF ListDue, Reads, Due, rowVars
  <2> QED
    BY <1>0, <2>1, <2>3, ReadBudget
<1>4. ASSUME NEW a \in Accounts, DeleteByAccount(a) PROVE Budget(m)'
  <2>1. UNCHANGED <<batch, seen, work>>
    BY <1>4 DEF DeleteByAccount, workVars
  <2>2. attempts'[m] \in 0..attempts[m]
    BY <1>0, <1>4 DEF DeleteByAccount
  <2>3. status'[m] \in {"absent", "pending"} => status[m] \in {"absent", "pending"}
    BY <1>0, <1>4 DEF DeleteByAccount
  <2> QED
    BY <1>0, <2>1, <2>2, <2>3, StillRead
<1>5. ASSUME NEW w \in Workers, NEW k \in Mails, ClaimForSend(w, k) PROVE Budget(m)'
  BY <1>0, <1>5, ClaimBudget
<1>6. ASSUME NEW w \in Workers, NEW k \in Mails, MarkUnserved(w, k) PROVE Budget(m)'
  <2> DEFINE v == IF verdict[w] = "retry" /\ w = Scheduler /\ MayRetry(w, k)
                  THEN "retry" ELSE "failed"
  <2>1. /\ k \in work[w] /\ Mark(k, v) /\ work' = [work EXCEPT ![w] = @ \ {k}]
        /\ Settled(w, k) /\ UNCHANGED <<attempts, batch>>
    BY <1>6 DEF MarkUnserved
  <2>2. v \in {"sent", "found", "failed", "retry"} /\ (v = "retry" => MayRetry(w, k))
    OBVIOUS
  <2> HIDE DEF v
  <2> QED
    BY <1>0, <2>1, <2>2, SettleBudget
<1>7. ASSUME NEW w \in Workers, Record(w) PROVE Budget(m)'
  <2>1. /\ mail[w] \in work[w] /\ Mark(mail[w], verdict[w])
        /\ work' = [work EXCEPT ![w] = @ \ {mail[w]}]
        /\ Settled(w, mail[w]) /\ UNCHANGED <<attempts, batch>>
    BY <1>0, <1>7 DEF Record, HandledIsHeld
  <2>2. /\ verdict[w] \in {"sent", "found", "failed", "retry"}
        /\ verdict[w] = "retry" => MayRetry(w, mail[w])
    BY <1>0, <1>7 DEF Record, VerdictReady, RetryVerdict, TypeOK, WorkTypes
  <2> QED
    BY <1>0, <2>1, <2>2, SettleBudget
<1>8. ASSUME NEW w \in Workers,
             \/ \E a \in Accounts : StartAccount(w, a)
             \/ \E k \in Mails : SendOne(w, k)
             \/ LoadAccount(w) \/ Lookup(w)
             \/ \E o \in Outcomes : Dispatch(w, o)
      PROVE  Budget(m)'
  <2>1. UNCHANGED <<status, batch, seen, work, attempts>>
    BY <1>8 DEF StartAccount, SendOne, LoadAccount, Lookup, Dispatch, rowVars
  <2> QED
    BY <1>0, <2>1, StillRead
<1>9. CASE (\E k \in Mails : BecomeDue(k) \/ Age(k)) \/ UNCHANGED vars
  <2>1. UNCHANGED <<status, batch, seen, work, attempts>>
    BY <1>9 DEF BecomeDue, Age, vars, rowVars, workVars
  <2> QED
    BY <1>0, <2>1, StillRead
<1>10. ~Crash /\ ~Start /\ \A w \in Workers : ~AbortTick(w) /\ ~Misrecord(w)
  BY <1>0 DEF Crash, Start, AbortTick, Misrecord
<1> QED
  BY <1>1, <1>2, <1>3, <1>4, <1>5, <1>6, <1>7, <1>8, <1>9, <1>10
  DEF Next, UserStep, WorkerStep

\* A worker decides to retry only within the budget, and nobody else touches what it read.
LEMMA RetryStep ==
    ASSUME ~Faults, Sender, alive, RetryVerdict, [Next]_vars
    PROVE  RetryVerdict'
PROOF
<1>0. /\ TypeOK /\ HandledIsHeld /\ VerdictReady
      /\ pc \in [Workers -> PCs] /\ mail \in [Workers -> Mails \cup {None}]
      /\ verdict \in [Workers -> {"none", "sent", "found", "failed", "retry"}]
      /\ seen \in [Workers -> [Mails -> Rows]]
  BY DEF Sender, TypeOK, WorkTypes, SeenTypes
<1> SUFFICES ASSUME NEW w \in Workers, pc'[w] = "record", verdict'[w] = "retry"
             PROVE  MayRetry(w, mail[w])'
  BY DEF RetryVerdict
<1>1. CASE pc'[w] = pc[w] /\ verdict'[w] = verdict[w] /\ mail'[w] = mail[w] /\ seen'[w] = seen[w]
  BY <1>1 DEF RetryVerdict, MayRetry
<1>2. ASSUME NEW u \in Workers, WorkerStep(u), u # w PROVE MayRetry(w, mail[w])'
  <2>1. /\ pc'[w] = pc[w] /\ verdict'[w] = verdict[w] /\ mail'[w] = mail[w]
        /\ seen'[w] = seen[w]
    BY <1>0, <1>2
    DEF WorkerStep, ListDue, StartAccount, ClaimForSend, MarkUnserved, SendOne, LoadAccount,
        Lookup, Record, Dispatch, Decide, Continue, Settled
  <2> QED
    BY <1>1, <2>1
<1>3. CASE WorkerStep(w)
  <2>1. PICK o \in Outcomes : Dispatch(w, o)
    BY <1>0, <1>3
    DEF WorkerStep, ListDue, StartAccount, ClaimForSend, MarkUnserved, SendOne, LoadAccount,
        Lookup, Record, Decide, Continue
  <2>2. MayRetry(w, mail[w]) /\ UNCHANGED <<mail, seen>>
    BY <1>0, <2>1 DEF Dispatch, Decide
  <2> QED
    BY <2>2 DEF MayRetry
<1>4. ASSUME NEW u \in Clicks, NEW k \in Mails, SendNow(u, k) PROVE MayRetry(w, mail[w])'
  <2>1. u # w
    BY <1>0, <1>4 DEF SendNow
  <2>2. /\ pc'[w] = pc[w] /\ verdict'[w] = verdict[w] /\ mail'[w] = mail[w]
        /\ seen'[w] = seen[w]
    BY <1>0, <1>4, <2>1 DEF SendNow
  <2> QED
    BY <1>1, <2>2
<1>5. ASSUME \/ \E k \in Mails : \/ Schedule(k) \/ Cancel(k) \/ UpdateSendAt(k)
                                 \/ UpdatePayload(k) \/ BecomeDue(k) \/ Age(k)
             \/ \E a \in Accounts : DeleteByAccount(a)
             \/ UNCHANGED vars
      PROVE  MayRetry(w, mail[w])'
  <2>1. UNCHANGED workVars
    BY <1>5
    DEF Schedule, Cancel, UpdateSendAt, UpdatePayload, BecomeDue, Age, DeleteByAccount, vars
  <2> QED
    BY <1>1, <2>1 DEF workVars
<1>6. ~Crash /\ ~Start /\ \A u \in Workers : ~AbortTick(u) /\ ~Misrecord(u)
  BY DEF Crash, Start, AbortTick, Misrecord
<1> QED
  BY <1>2, <1>3, <1>4, <1>5, <1>6 DEF Next, UserStep

\* Who takes a row back to pending has the budget for it, and every claim was paid for.
THEOREM BudgetInvariant ==
    ASSUME ~Faults, IsFiniteSet(Clicks)
    PROVE  Spec => []Capped
PROOF
<1>1. Init => Capped
  <2> SUFFICES ASSUME Init PROVE Capped
    OBVIOUS
  <2>1. alive /\ ReadOrHeld /\ RetryVerdict
    BY DEF Init, ReadOrHeld, RetryVerdict
  <2>2. ASSUME NEW m \in Mails PROVE Budget(m)
    <3>1. attempts[m] = 0 /\ Readers(m) = {}
      BY <2>2 DEF Init, Readers
    <3>2. Spent(m) = 0 /\ Margin \in Nat \ {0}
      BY <3>1, FS_EmptySet, ReadersCount, BoundsAssumption DEF Spent, Margin
    <3> QED
      BY <3>2 DEF Budget
  <2> QED
    BY <2>1, <2>2 DEF Capped
<1>2. Sender /\ Capped /\ [Next]_vars => Capped'
  <2> SUFFICES ASSUME Sender, Capped, [Next]_vars PROVE Capped'
    OBVIOUS
  <2>1. ReadOrHeld' /\ RetryVerdict'
    BY ReadStep, RetryStep DEF Capped
  <2>2. alive'
    <3>1. ~Crash /\ \A w \in Workers : ~AbortTick(w) /\ ~Misrecord(w)
      BY DEF Crash, AbortTick, Misrecord
    <3>2. alive /\ (UNCHANGED vars => UNCHANGED alive)
      BY DEF Capped, vars
    <3> QED
      BY <3>1, <3>2
      DEF Next, UserStep, WorkerStep, Schedule, Cancel, UpdateSendAt, UpdatePayload, SendNow,
          DeleteByAccount, ListDue, StartAccount, ClaimForSend, MarkUnserved, SendOne,
          LoadAccount, Lookup, Record, Dispatch, BecomeDue, Age, Start
  <2>3. \A m \in Mails : Budget(m)'
    BY BudgetStep
  <2> QED
    BY <2>1, <2>2, <2>3 DEF Capped
<1> QED
  BY <1>1, <1>2, SenderInvariant, PTL DEF Spec

\* Without crashes a message is claimed MAX_SEND_ATTEMPTS times, and once more at most for
\* each "send now" under way beside the scheduler.
THEOREM AttemptsCorrect ==
    ASSUME ~Faults, IsFiniteSet(Clicks)
    PROVE  Spec => []AttemptsCapped
PROOF
<1>1. TypeOK /\ Capped => AttemptsCapped
  <2> SUFFICES ASSUME TypeOK, Capped, NEW m \in Mails
               PROVE  attempts[m] <= MAX_SEND_ATTEMPTS + Cardinality(Clicks)
    BY DEF AttemptsCapped
  <2>1. Spent(m) <= Margin /\ attempts[m] \in Nat /\ Cardinality(Readers(m)) \in Nat
    BY ReadersCount DEF Capped, Budget, TypeOK, RowTypes
  <2>2. Margin \in Nat
    BY ReadersCount, BoundsAssumption DEF Margin
  <2> DEFINE a == Cardinality(Readers(m))
  <2>3. Spent(m) = attempts[m] + a
    BY DEF Spent
  <2> HIDE DEF a
  <2>4. attempts[m] <= Margin
    BY <2>1, <2>2, <2>3 DEF a
  <2> QED
    BY <2>4 DEF Margin
<1> QED
  BY <1>1, TypeCorrect, BudgetInvariant, PTL
=============================================================================
