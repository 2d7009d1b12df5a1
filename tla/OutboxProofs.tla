---------------------------- MODULE OutboxProofs ----------------------------
(***************************************************************************)
(* ScheduledSend implements Outbox: the initial states map to an initial   *)
(* state, and every step to a step of Outbox or to none.                   *)
(***************************************************************************)
EXTENDS ScheduledSendProofs

\* A step that leaves status, deliveries and lookups alone is no step of Outbox.
LEMMA HiddenStep ==
    ASSUME UNCHANGED <<status, delivered, missed>> PROVE UNCHANGED Promise!vars
  BY DEF Promise!vars, Fate

\* Nor is one that only moves rows between pending and sending.
LEMMA OpenStaysOpen ==
    ASSUME UNCHANGED <<delivered, missed>>,
           \A m \in Mails : \/ status'[m] = status[m]
                            \/ {status[m], status'[m]} \subseteq {"pending", "sending"}
    PROVE  UNCHANGED Promise!vars
PROOF
<1>1. ASSUME NEW m \in Mails PROVE Fate(m)' = Fate(m)
  BY DEF Fate
<1> QED
  BY <1>1 DEF Promise!vars

\* One row that moves, with the others and the deliveries as they were, moves
\* one fate.
LEMMA OneFate ==
    ASSUME TypeOK, NEW m \in Mails, NEW s, status' = [status EXCEPT ![m] = s],
           NEW f, Fate(m)' = f
    PROVE  [k \in Mails |-> Fate(k)]' = [[k \in Mails |-> Fate(k)] EXCEPT ![m] = f]
PROOF
<1>1. ASSUME NEW k \in Mails, k # m PROVE Fate(k)' = Fate(k)
  BY <1>1 DEF Fate, TypeOK, RowTypes
<1> QED
  BY <1>1

\* What a worker writes about a row it holds is a decision about an open
\* message, or nothing if the row goes back to pending or was purged.
LEMMA MarkDecides ==
    ASSUME TypeOK, NEW m \in Mails, NEW v \in {"sent", "found", "failed", "retry"}, Mark(m, v),
           status[m] \in {"sending", "deleted"},
           v \in {"sent", "found"} => delivered[m] > 0, UNCHANGED <<delivered, missed>>
    PROVE  [Promise!Next]_(Promise!vars)
PROOF
<1>1. CASE status[m] = "deleted"
  <2>1. status' = status
    BY <1>1 DEF Mark, TypeOK, RowTypes
  <2> QED
    BY <2>1, HiddenStep
<1>2. CASE status[m] = "sending" /\ v = "retry"
  BY <1>2, OpenStaysOpen DEF Mark, TypeOK, RowTypes
<1>3. CASE status[m] = "sending" /\ v # "retry"
  <2> DEFINE o == IF v = "found" THEN "sent" ELSE v
  <2>1. /\ status' = [status EXCEPT ![m] = o] /\ Fate(m)' = o /\ Fate(m) = "open"
        /\ o \in {"sent", "failed"} /\ (o = "sent" => delivered[m] > 0)
    BY <1>3 DEF Mark, Fate, TypeOK, RowTypes
  <2> HIDE DEF o
  <2>2. [k \in Mails |-> Fate(k)]' = [[k \in Mails |-> Fate(k)] EXCEPT ![m] = o]
    BY <2>1, OneFate
  <2>3. Promise!Decide(m, o)
    BY <2>1, <2>2 DEF Promise!Decide
  <2> QED
    BY <2>1, <2>3 DEF Promise!Next
<1> QED
  BY <1>1, <1>2, <1>3

\* The steps of users.
LEMMA UserPromise ==
    ASSUME Delivery, UserStep PROVE [Promise!Next]_(Promise!vars)
PROOF
<1> USE DEF Delivery, Sender
<1>1. ASSUME NEW m \in Mails, Schedule(m) PROVE Promise!Submit(m)
  <2>1. Fate(m) = "absent" /\ Fate(m)' = "open"
    BY <1>1 DEF Schedule, Fate, TypeOK, RowTypes
  <2>2. [k \in Mails |-> Fate(k)]' = [[k \in Mails |-> Fate(k)] EXCEPT ![m] = "open"]
    BY <1>1, <2>1, OneFate DEF Schedule
  <2> QED
    BY <1>1, <2>1, <2>2 DEF Schedule, Promise!Submit
<1>2. ASSUME NEW m \in Mails, Cancel(m) PROVE Promise!Decide(m, "cancelled")
  <2>1. Fate(m) = "open" /\ Fate(m)' = "cancelled"
    BY <1>2 DEF Cancel, Fate, TypeOK, RowTypes
  <2>2. [k \in Mails |-> Fate(k)]' = [[k \in Mails |-> Fate(k)] EXCEPT ![m] = "cancelled"]
    BY <1>2, <2>1, OneFate DEF Cancel
  <2> QED
    BY <1>2, <2>1, <2>2 DEF Cancel, Promise!Decide
<1>3. ASSUME NEW m \in Mails, UpdateSendAt(m) \/ UpdatePayload(m) \/ \E w \in Clicks : SendNow(w, m)
      PROVE  UNCHANGED Promise!vars
  BY <1>3, HiddenStep DEF UpdateSendAt, UpdatePayload, SendNow, rowVars
<1>4. ASSUME NEW a \in Accounts, DeleteByAccount(a) PROVE \E M \in SUBSET Mails : Promise!Purge(M)
  <2> DEFINE M == {m \in Mails : AccountOf[m] = a /\ status[m] # "absent"}
  <2>1. ASSUME NEW m \in Mails PROVE Fate(m)' = IF m \in M THEN "gone" ELSE Fate(m)
    BY <1>4 DEF DeleteByAccount, Fate, TypeOK, RowTypes
  <2>2. \A m \in M : Fate(m) # "absent"
    BY DEF Fate, TypeOK, RowTypes
  <2>3. Promise!Purge(M)
    BY <1>4, <2>1, <2>2 DEF DeleteByAccount, Promise!Purge
  <2> QED
    BY <2>3
<1> QED
  BY <1>1, <1>2, <1>3, <1>4 DEF UserStep, Promise!Next

\* The steps of a worker: a dispatch is where a message leaves.
LEMMA WorkerPromise ==
    ASSUME Delivery, NEW w \in Workers, WorkerStep(w) PROVE [Promise!Next]_(Promise!vars)
PROOF
<1> USE DEF Delivery, Sender
<1>1. ASSUME \/ ListDue \/ (\E a \in Accounts : StartAccount(w, a))
             \/ (\E m \in Mails : SendOne(w, m)) \/ LoadAccount(w)
      PROVE  UNCHANGED Promise!vars
  BY <1>1, HiddenStep DEF ListDue, StartAccount, SendOne, LoadAccount, rowVars
<1>2. ASSUME NEW m \in Mails, ClaimForSend(w, m) PROVE UNCHANGED Promise!vars
  BY <1>2, OpenStaysOpen DEF ClaimForSend, TypeOK, RowTypes
<1>3. ASSUME NEW m \in Mails, MarkUnserved(w, m) PROVE [Promise!Next]_(Promise!vars)
  <2>1. /\ status[m] \in {"sending", "deleted"} /\ UNCHANGED <<delivered, missed>>
    BY <1>3 DEF MarkUnserved, OneSender
  <2>2. Mark(m, "retry") \/ Mark(m, "failed")
    BY <1>3 DEF MarkUnserved
  <2> QED
    BY <2>1, <2>2, MarkDecides
<1>4. ASSUME NEW o \in Outcomes, Dispatch(w, o) PROVE [Promise!Next]_(Promise!vars)
  <2> DEFINE m == mail[w]
  <2>1. m \in Mails /\ m \in work[w] /\ delivered[m] <= missed[m]
    BY <1>4 DEF Dispatch, HandledIsHeld, DispatchIsFirst, TypeOK, WorkTypes
  <2>2. Fate(m) \in {"open", "gone"}
    BY <2>1 DEF OneSender, Fate
  <2>3. status' = status /\ [k \in Mails |-> Fate(k)]' = [k \in Mails |-> Fate(k)]
    BY <1>4 DEF Dispatch, rowVars, Fate
  <2>4. CASE o \in {"ok", "lost"}
    <3>1. delivered' = [delivered EXCEPT ![m] = @ + 1] /\ UNCHANGED missed
      BY <1>4, <2>4 DEF Dispatch
    <3>2. Promise!Leave(m)
      BY <2>1, <2>2, <2>3, <3>1 DEF Promise!Leave
    <3> QED
      BY <2>1, <3>2 DEF Promise!Next
  <2>5. CASE o \notin {"ok", "lost"}
    BY <1>4, <2>3, <2>5, HiddenStep DEF Dispatch
  <2> QED
    BY <2>4, <2>5
<1>5. ASSUME Record(w) PROVE [Promise!Next]_(Promise!vars)
  <2> DEFINE m == mail[w]
  <2>1. m \in Mails /\ m \in work[w]
    BY <1>5 DEF Record, HandledIsHeld, TypeOK, WorkTypes
  <2>2. status[m] \in {"sending", "deleted"}
    BY <2>1 DEF OneSender
  <2>3. /\ verdict[w] \in {"sent", "found", "failed", "retry"}
        /\ verdict[w] \in {"sent", "found"} => delivered[m] > 0
    BY <1>5 DEF Record, VerdictReady, SentVerdict, TypeOK, WorkTypes
  <2>4. Mark(m, verdict[w]) /\ UNCHANGED <<delivered, missed>>
    BY <1>5 DEF Record
  <2> QED
    BY <2>1, <2>2, <2>3, <2>4, MarkDecides
<1>6. ASSUME Lookup(w) PROVE [Promise!Next]_(Promise!vars)
  <2> DEFINE m == mail[w]
  <2>1. m \in Mails /\ m \in work[w]
    BY <1>6 DEF Lookup, HandledIsHeld, TypeOK, WorkTypes
  <2>2. Fate(m) \in {"open", "gone"}
    BY <2>1 DEF OneSender, Fate
  <2>3. UNCHANGED <<status, delivered>> /\ [k \in Mails |-> Fate(k)]' = [k \in Mails |-> Fate(k)]
    BY <1>6 DEF Lookup, rowVars, Fate
  <2>4. CASE missed' = [missed EXCEPT ![m] = delivered[m]]
    <3>1. Promise!Miss(m)
      BY <2>1, <2>2, <2>3, <2>4 DEF Promise!Miss
    <3> QED
      BY <2>1, <3>1 DEF Promise!Next
  <2>5. CASE UNCHANGED missed
    BY <2>3, <2>5, HiddenStep
  <2> QED
    BY <1>6, <2>4, <2>5 DEF Lookup
<1> QED
  BY <1>1, <1>2, <1>3, <1>4, <1>5, <1>6 DEF WorkerStep

\* Every step.
LEMMA StepPromise ==
    Delivery /\ [Next]_vars => [Promise!Next]_(Promise!vars)
PROOF
<1> SUFFICES ASSUME Delivery, [Next]_vars PROVE [Promise!Next]_(Promise!vars)
  OBVIOUS
<1>1. ASSUME NEW w \in Workers, AbortTick(w) \/ Misrecord(w) PROVE UNCHANGED Promise!vars
  BY <1>1, HiddenStep DEF AbortTick, Misrecord, rowVars
<1>2. ASSUME NEW m \in Mails, BecomeDue(m) \/ Age(m) PROVE UNCHANGED Promise!vars
  BY <1>2, HiddenStep DEF BecomeDue, Age
<1>3. CASE Crash
  BY <1>3, HiddenStep DEF Crash, rowVars
<1>4. CASE Start
  BY <1>4, OpenStaysOpen DEF Start, Delivery, Sender, TypeOK, RowTypes
<1>5. CASE UNCHANGED vars
  BY <1>5, HiddenStep DEF vars, rowVars
<1> QED
  BY <1>1, <1>2, <1>3, <1>4, <1>5, UserPromise, WorkerPromise DEF Next

\* ScheduledSend implements Outbox: a message leaves again only after a search that
\* missed its copies, its outcome is decided once, "sent" only after it left, and
\* nothing leaves after it.
THEOREM SendImplementsOutbox == Spec => ImplementsOutbox
PROOF
<1>1. Init => Promise!Init
  BY DEF Init, Promise!Init, Fate
<1> QED
  BY <1>1, StepPromise, DeliveryInvariant, PTL DEF Spec, ImplementsOutbox, Promise!Spec

=============================================================================
