-------------------------- MODULE QuickStepsProofs --------------------------
(***************************************************************************)
(* Proofs about QuickSteps, for every set of mails and rules, every chain, *)
(* and any number of threads and requests.  Chains says how far a chain    *)
(* has come, Swept what the sweep knows of the rows there were at its      *)
(* start, and Kept that an answered key has its report.  Counted adds up   *)
(* how often a rule has run, however often the sweep's lists have it.      *)
(***************************************************************************)
EXTENDS QuickSteps, FiniteSetTheorems, TLAPS

\* Where a chain is; it is whole when it comes to be recorded without a failure.
ChainOf(r) ==
    /\ r.pc \in {"idle", "look"} => r.pos = 1 /\ r.did = {}
    /\ r.pc = "chain" => r.pos \in 1..Len(Actions[r.pair[1]]) /\ r.did = 1..(r.pos - 1)
    /\ r.pc = "record" /\ r.ok => r.did = DOMAIN Actions[r.pair[1]]
Chains == \A t \in Threads : ChainOf(run[t])

\* A thread at work has been given rules.
RulesOf(t) == IF t = Sweep THEN TimeRules ELSE Rules
Loaded == \A t \in Evaluators : run[t].pc # "idle" => RulesOf(t) # <<>>

\* The sweep looks at its own pairs, and its batch has those with a row.
SweepWork ==
    /\ \A i \in DOMAIN work[Sweep].steps : \E k \in DOMAIN TimeRules : work[Sweep].steps[i] = TimeRules[k]
    /\ \A i \in DOMAIN work[Sweep].mails : \E k \in DOMAIN Inbox : work[Sweep].mails[i] = Inbox[k]
SweepRows == before \subseteq audited /\ (batched => before \cap TimePairs \subseteq known)

\* An answered key has a report.
Kept == \A k \in answered : stored[k] # "none"

\* TypeOK in two parts: the threads, and the rest.
ThreadsOK ==
    /\ work \in [Evaluators -> Work]
    /\ run \in [Threads -> Run]
    /\ \A t \in Evaluators : run[t].pc # "idle" =>
         /\ work[t].mails # <<>> /\ work[t].steps # <<>>
         /\ run[t].pc \in {"look", "chain", "record"}
RunsOK == ran \in [Pairs -> Nat] /\ \A p \in Pairs : ran[p] <= MaxRan(p)
CountsOK ==
    /\ wanted \in [Emails -> 0..MaxWanted]
    /\ known \subseteq Pairs /\ batched \in BOOLEAN /\ audited \subseteq Pairs
    /\ stored \in [Keys -> Outcomes]
    /\ changes \in 0..MaxChanges /\ mishaps \in 0..MaxMishaps
    /\ RunsOK
    /\ before \subseteq Pairs /\ answered \subseteq Keys

\* What the threads do, and what they know and have written.
ThreadInv == ThreadsOK /\ Chains /\ Loaded /\ SweepWork
RowInv == CountsOK /\ SweepRows /\ Kept
Inv == ThreadInv /\ RowInv

-----------------------------------------------------------------------------
(* Types. *)

LEMMA TypeParts == TypeOK <=> ThreadsOK /\ CountsOK
  BY DEF TypeOK, ThreadsOK, CountsOK, RunsOK

LEMMA ThreadNames ==
    /\ Sweep \in Evaluators /\ Sweep \notin Calls
    /\ Evaluators \subseteq Threads /\ Calls \subseteq Threads
    /\ \A t \in Threads : t \in Evaluators \/ t \in Calls
    /\ \A t \in Evaluators : t \notin Calls
PROOF
<1>1. Evaluators \cap Calls = {}
  BY QuickAssumption
<1>2. Sweep \in Evaluators
  BY DEF Evaluators
<1> QED
  BY <1>1, <1>2 DEF Threads

\* A sweep has finitely many places.
LEMMA PlacesFinite ==
    ASSUME NEW p
    PROVE  /\ IsFiniteSet(Places(p)) /\ Cardinality(Places(p)) \in Nat
           /\ \A x \in Places(p) : x[1] \in 1..Len(Inbox) /\ x[2] \in 1..Len(TimeRules)
                                /\ x = <<x[1], x[2]>>
           /\ Len(Inbox) \in Nat /\ Len(TimeRules) \in Nat
PROOF
<1>1. /\ DOMAIN Inbox = 1..Len(Inbox) /\ Len(Inbox) \in Nat
      /\ DOMAIN TimeRules = 1..Len(TimeRules) /\ Len(TimeRules) \in Nat
  BY QuickAssumption
<1> DEFINE A == 1..Len(Inbox)
           B == 1..Len(TimeRules)
<1>2. IsFiniteSet(A) /\ IsFiniteSet(B)
  BY <1>1, FS_Interval
<1>3. Places(p) \in SUBSET (A \X B)
  BY <1>1 DEF Places
<1>4. \A x \in Places(p) : x[1] \in A /\ x[2] \in B /\ x = <<x[1], x[2]>>
  BY <1>3
<1> HIDE DEF A, B
<1>5. IsFiniteSet(Places(p))
  BY <1>2, <1>3, FS_Product, FS_Subset
<1>6. Cardinality(Places(p)) \in Nat
  BY <1>5, FS_CardinalityType
<1> QED
  BY <1>1, <1>4, <1>5, <1>6 DEF A, B

\* What one mishap pays for: a run by each evaluation and at each place of the sweep.
PerMishap(p) == Cardinality(Evals) + Cardinality(Places(p))

LEMMA PerMishapType ==
    ASSUME NEW p, NEW m \in Nat
    PROVE  /\ PerMishap(p) \in Nat /\ Cardinality(Evals) \in Nat
           /\ PerMishap(p) * m \in Nat
           /\ Reruns(p, m) = PerMishap(p) * m + PerMishap(p)
           /\ MaxRan(p) \in Nat \ {0}
PROOF
<1>1. PerMishap(p) \in Nat /\ Cardinality(Evals) \in Nat
  BY PlacesFinite, QuickAssumption, FS_CardinalityType DEF PerMishap
<1> DEFINE K == PerMishap(p)
           n == MaxMishaps
<1>2. Reruns(p, m) = K * (1 + m) /\ MaxRan(p) = K * (1 + n) + 1
  BY DEF Reruns, MaxRan, PerMishap
<1>3. K \in Nat /\ n \in Nat
  BY <1>1, QuickLimits
<1> HIDE DEF K, n
<1>4. K * m \in Nat /\ K * (1 + m) = K * m + K /\ K * (1 + n) \in Nat
  BY <1>3
<1> QED
  BY <1>1, <1>2, <1>4 DEF K

LEMMA ChainLength ==
    ASSUME NEW s \in Steps
    PROVE  Len(Actions[s]) \in Nat \ {0} /\ DOMAIN Actions[s] = 1..Len(Actions[s])
PROOF
<1>1. Actions[s] \in Seq(Kinds) /\ Actions[s] # <<>>
  BY QuickAssumption
<1> DEFINE a == Actions[s]
<1>2. a \in Seq(Kinds) /\ a # <<>>
  BY <1>1
<1> HIDE DEF a
<1>3. Len(a) \in Nat \ {0} /\ DOMAIN a = 1..Len(a)
  BY <1>2
<1> QED
  BY <1>3 DEF a

\* A thread at rest.
LEMMA RestingFacts ==
    ASSUME NEW pc \in {"idle", "look", "answered", "replayed", "lost"}
    PROVE  /\ Resting(pc) \in Run /\ ChainOf(Resting(pc)) /\ Resting(pc).pc = pc
PROOF
<1>1. PICK s \in Steps, e \in Emails : TRUE
  BY QuickAssumption
<1>2. SomePair \in Pairs
  <2>1. <<s, e>> \in Pairs
    BY <1>1 DEF Pairs
  <2> QED
    BY <2>1 DEF SomePair
<1>3. Resting(pc).pc = pc /\ Resting(pc).pos = 1 /\ Resting(pc).did = {}
  BY DEF Resting
<1>4. Resting(pc) \in Run
  BY <1>2 DEF Resting, Run
<1>5. ChainOf(Resting(pc))
  BY <1>3 DEF ChainOf
<1> QED
  BY <1>3, <1>4, <1>5

LEMMA NoWorkFacts == NoWork \in Work /\ NoWork.mails = <<>> /\ NoWork.steps = <<>>
PROOF
<1>1. <<>> \in Seq(Emails) /\ <<>> \in Seq(Steps)
  OBVIOUS
<1> QED
  BY <1>1 DEF NoWork, Work

LEMMA InvInit == Init => Inv
PROOF
<1> SUFFICES ASSUME Init PROVE Inv
  OBVIOUS
<1>1. /\ work = [t \in Evaluators |-> NoWork] /\ run = [t \in Threads |-> Resting("idle")]
  BY DEF Init
<1>2. /\ \A t \in Evaluators : work[t] = NoWork
      /\ \A t \in Threads : run[t] = Resting("idle") /\ run[t].pc = "idle" /\ ChainOf(run[t])
  BY <1>1, RestingFacts
<1>3. ThreadsOK
  BY <1>1, <1>2, NoWorkFacts, RestingFacts, ThreadNames DEF ThreadsOK
<1>4. Chains /\ Loaded
  BY <1>2, ThreadNames DEF Chains, Loaded
<1>5. SweepWork
  BY <1>2, NoWorkFacts, ThreadNames DEF SweepWork
<1>6. CountsOK
  <2>1. 0 \in 0..MaxWanted /\ 0 \in 0..MaxChanges /\ 0 \in 0..MaxMishaps
    BY QuickLimits
  <2>2. RunsOK
    <3>1. \A p \in Pairs : 0 <= MaxRan(p)
      BY PerMishapType
    <3> QED
      BY <3>1 DEF Init, RunsOK
  <2> QED
    BY <2>1, <2>2 DEF Init, CountsOK, Outcomes
<1>7. RowInv
  BY <1>6 DEF Init, RowInv, SweepRows, Kept
<1> QED
  BY <1>3, <1>4, <1>5, <1>7 DEF Inv, ThreadInv

LEMMA MishapFacts ==
    ASSUME CountsOK
    PROVE  /\ Mishap => mishaps' \in 0..MaxMishaps /\ mishaps' > mishaps
           /\ NoMishap => mishaps' = mishaps
PROOF
<1>1. mishaps \in 0..MaxMishaps /\ MaxMishaps \in Nat
  BY QuickLimits DEF CountsOK
<1>2. ASSUME Mishap
      PROVE  mishaps' \in 0..MaxMishaps /\ mishaps' > mishaps
  <2>1. mishaps < MaxMishaps /\ mishaps' = mishaps + 1
    BY <1>2 DEF Mishap
  <2> QED
    BY <1>1, <2>1
<1> QED
  BY <1>2 DEF NoMishap

-----------------------------------------------------------------------------
(* The threads. *)

\* The pair in hand of an evaluation at work.
LEMMA CurrentFacts ==
    ASSUME ThreadInv, NEW t \in Evaluators, run[t].pc # "idle"
    PROVE  /\ Current(t) \in Pairs /\ Current(t)[1] \in Steps
           /\ t = Sweep => Current(t) \in TimePairs
PROOF
<1> DEFINE m == work[t].mails
           s == work[t].steps
<1>1. m \in Seq(Emails) /\ s \in Seq(Steps) /\ m # <<>> /\ s # <<>>
  BY DEF ThreadInv, ThreadsOK, Work
<1>2. Current(t) = <<Head(s), Head(m)>>
  BY DEF Current
<1>3. t = Sweep =>
        /\ \A i \in DOMAIN s : \E k \in DOMAIN TimeRules : s[i] = TimeRules[k]
        /\ \A i \in DOMAIN m : \E k \in DOMAIN Inbox : m[i] = Inbox[k]
  BY DEF ThreadInv, SweepWork
<1> HIDE DEF m, s
<1>4. /\ Head(s) = s[1] /\ 1 \in DOMAIN s /\ s[1] \in Steps
      /\ Head(m) = m[1] /\ 1 \in DOMAIN m /\ m[1] \in Emails
  BY <1>1
<1>5. Current(t) = <<s[1], m[1]>>
  BY <1>2, <1>4
<1>6. ASSUME t = Sweep PROVE Current(t) \in TimePairs
  <2>1. PICK k \in DOMAIN TimeRules : s[1] = TimeRules[k]
    BY <1>3, <1>4, <1>6
  <2>2. PICK j \in DOMAIN Inbox : m[1] = Inbox[j]
    BY <1>3, <1>4, <1>6
  <2> QED
    BY <1>5, <2>1, <2>2 DEF TimePairs
<1> QED
  BY <1>4, <1>5, <1>6 DEF Pairs

\* A step of one thread within its chain, or into or out of it.
LEMMA StepKeeps ==
    ASSUME ThreadInv, NEW t \in Threads, NEW r, r \in Run, ChainOf(r),
           UNCHANGED work, run' = [run EXCEPT ![t] = r],
           t \in Evaluators => run[t].pc # "idle" /\ r.pc \in {"look", "chain", "record"}
    PROVE  ThreadInv'
PROOF
<1>1. run \in [Threads -> Run] /\ work \in [Evaluators -> Work]
  BY DEF ThreadInv, ThreadsOK
<1>2. run' \in [Threads -> Run] /\ run'[t] = r /\ \A u \in Threads : u # t => run'[u] = run[u]
  BY <1>1
<1>3. ASSUME NEW u \in Evaluators, run'[u].pc # "idle"
      PROVE  /\ work'[u].mails # <<>> /\ work'[u].steps # <<>>
             /\ run'[u].pc \in {"look", "chain", "record"}
             /\ RulesOf(u) # <<>>
  <2>1. run[u].pc # "idle" /\ u \in Threads
    BY <1>2, <1>3, ThreadNames
  <2>2. /\ work[u].mails # <<>> /\ work[u].steps # <<>> /\ RulesOf(u) # <<>>
        /\ run[u].pc \in {"look", "chain", "record"}
    BY <2>1 DEF ThreadInv, ThreadsOK, Loaded
  <2> QED
    BY <1>2, <2>1, <2>2
<1>4. ThreadsOK'
  BY <1>1, <1>2, <1>3 DEF ThreadsOK
<1>5. Loaded'
  BY <1>3 DEF Loaded, RulesOf
<1>6. Chains'
  BY <1>2 DEF ThreadInv, Chains
<1>7. SweepWork'
  BY DEF ThreadInv, SweepWork
<1> QED
  BY <1>4, <1>5, <1>6, <1>7 DEF ThreadInv

\* A step in which no thread takes part.
LEMMA SameThreads ==
    ASSUME ThreadInv, UNCHANGED <<work, run>>
    PROVE  ThreadInv'
PROOF
<1>1. work' = work /\ run' = run
  OBVIOUS
<1>2. ThreadsOK'
  BY <1>1 DEF ThreadInv, ThreadsOK
<1>3. Chains' /\ Loaded'
  BY <1>1 DEF ThreadInv, Chains, Loaded, RulesOf
<1>4. SweepWork'
  BY <1>1 DEF ThreadInv, SweepWork
<1> QED
  BY <1>2, <1>3, <1>4 DEF ThreadInv

\* An evaluation that is given work, or comes to the end of it.
LEMMA WorkKeeps ==
    ASSUME ThreadInv, NEW t \in Evaluators, NEW w, w \in Work, NEW r, r \in Run, ChainOf(r),
           work' = [work EXCEPT ![t] = w], run' = [run EXCEPT ![t] = r],
           \/ r.pc = "look" /\ RulesOf(t) # <<>> /\ w.mails # <<>> /\ w.steps # <<>>
           \/ r.pc = "idle",
           t = Sweep =>
             /\ \A i \in DOMAIN w.steps : \E k \in DOMAIN TimeRules : w.steps[i] = TimeRules[k]
             /\ \A i \in DOMAIN w.mails : \E k \in DOMAIN Inbox : w.mails[i] = Inbox[k]
    PROVE  ThreadInv'
PROOF
<1>1. run \in [Threads -> Run] /\ work \in [Evaluators -> Work] /\ t \in Threads
  BY ThreadNames DEF ThreadInv, ThreadsOK
<1>2. /\ run' \in [Threads -> Run] /\ run'[t] = r /\ \A u \in Threads : u # t => run'[u] = run[u]
      /\ work' \in [Evaluators -> Work] /\ work'[t] = w
      /\ \A u \in Evaluators : u # t => work'[u] = work[u]
  BY <1>1
<1>3. ASSUME NEW u \in Evaluators, run'[u].pc # "idle"
      PROVE  /\ work'[u].mails # <<>> /\ work'[u].steps # <<>>
             /\ run'[u].pc \in {"look", "chain", "record"}
             /\ RulesOf(u) # <<>>
  <2>1. CASE u = t
    BY <1>2, <1>3, <2>1
  <2>2. CASE u # t
    <3>1. run[u].pc # "idle" /\ u \in Threads
      BY <1>2, <1>3, <2>2, ThreadNames
    <3>2. /\ work[u].mails # <<>> /\ work[u].steps # <<>> /\ RulesOf(u) # <<>>
          /\ run[u].pc \in {"look", "chain", "record"}
      BY <3>1 DEF ThreadInv, ThreadsOK, Loaded
    <3> QED
      BY <1>2, <2>2, <3>1, <3>2
  <2> QED
    BY <2>1, <2>2
<1>4. ThreadsOK'
  BY <1>1, <1>2, <1>3 DEF ThreadsOK
<1>5. Loaded'
  BY <1>3 DEF Loaded, RulesOf
<1>6. Chains'
  BY <1>2 DEF ThreadInv, Chains
<1>7. SweepWork'
  <2>1. CASE t = Sweep
    BY <1>2, <2>1 DEF SweepWork
  <2>2. CASE t # Sweep
    BY <1>2, <2>2, ThreadNames DEF ThreadInv, SweepWork
  <2> QED
    BY <2>1, <2>2
<1> QED
  BY <1>4, <1>5, <1>6, <1>7 DEF ThreadInv

\* The end of a non-empty sequence has only elements of the sequence.
LEMMA TailFacts ==
    ASSUME NEW S, NEW q, q \in Seq(S), Len(q) > 1
    PROVE  /\ Tail(q) \in Seq(S) /\ Tail(q) # <<>>
           /\ \A i \in DOMAIN Tail(q) : \E k \in DOMAIN q : Tail(q)[i] = q[k]
PROOF
<1>1. /\ Tail(q) \in Seq(S) /\ Len(Tail(q)) = Len(q) - 1 /\ Len(q) \in Nat
      /\ DOMAIN Tail(q) = 1..Len(Tail(q)) /\ DOMAIN q = 1..Len(q)
  OBVIOUS
<1>2. ASSUME NEW i \in DOMAIN Tail(q)
      PROVE  \E k \in DOMAIN q : Tail(q)[i] = q[k]
  <2>1. i + 1 \in DOMAIN q /\ Tail(q)[i] = q[i + 1]
    BY <1>1
  <2> QED
    BY <2>1
<1>3. Tail(q) # <<>>
  <2> DEFINE u == Tail(q)
  <2>1. u \in Seq(S) /\ Len(u) # 0
    BY <1>1
  <2> HIDE DEF u
  <2>2. u # <<>>
    BY <2>1
  <2> QED
    BY <2>2 DEF u
<1> QED
  BY <1>1, <1>2, <1>3

\* On to the next pair: the next rule, the next mail, or nothing more.
LEMMA PopKeeps ==
    ASSUME ThreadInv, NEW t \in Evaluators, NEW fired \in Nat, Pop(t, fired), run[t].pc # "idle"
    PROVE  /\ ThreadInv'
           /\ \E r \in Run : r.pc \in {"look", "idle"} /\ run' = [run EXCEPT ![t] = r]
PROOF
<1> DEFINE w == work[t]
           rest == CASE NextRule(t, fired) -> [w EXCEPT !.steps = Tail(@)]
                     [] ~NextRule(t, fired) /\ Len(w.mails) > 1 ->
                          [mails |-> Tail(w.mails), steps |-> IF t = Sweep THEN TimeRules ELSE Rules]
                     [] OTHER -> NoWork
           r == IF rest = NoWork THEN Resting("idle")
                ELSE [Resting("look") EXCEPT !.fired = IF NextRule(t, fired) THEN fired ELSE 0]
<1>1. work' = [work EXCEPT ![t] = rest] /\ run' = [run EXCEPT ![t] = r]
  BY DEF Pop
<1>2. /\ w \in Work /\ w = [mails |-> w.mails, steps |-> w.steps]
      /\ w.mails \in Seq(Emails) /\ w.steps \in Seq(Steps) /\ w.mails # <<>> /\ w.steps # <<>>
      /\ RulesOf(t) # <<>>
  BY DEF ThreadInv, ThreadsOK, Loaded, Work
<1>3. t = Sweep =>
        /\ \A i \in DOMAIN w.steps : \E k \in DOMAIN TimeRules : w.steps[i] = TimeRules[k]
        /\ \A i \in DOMAIN w.mails : \E k \in DOMAIN Inbox : w.mails[i] = Inbox[k]
  BY DEF ThreadInv, SweepWork
<1>4. RulesOf(t) \in Seq(Steps) /\ (t = Sweep => RulesOf(t) = TimeRules)
  BY QuickAssumption DEF RulesOf
<1>5. r \in Run /\ ChainOf(r) /\ r.pc \in {"look", "idle"} /\ (r.pc = "idle" <=> rest = NoWork)
  <2>1. CASE rest = NoWork
    BY <2>1, RestingFacts
  <2>2. CASE rest # NoWork
    <3> DEFINE f == IF NextRule(t, fired) THEN fired ELSE 0
               q == Resting("look")
    <3>1. r = [q EXCEPT !.fired = f] /\ f \in Nat
      BY <2>2
    <3>2. q \in Run /\ ChainOf(q) /\ q.pc = "look"
      BY RestingFacts
    <3> HIDE DEF r, f, q, rest
    <3>3. r \in Run
      BY <3>1, <3>2 DEF Run
    <3>4. r.pc = "look" /\ r.pos = q.pos /\ r.did = q.did
      BY <3>1, <3>2 DEF Run
    <3>5. ChainOf(r)
      BY <3>2, <3>4 DEF ChainOf
    <3> QED
      BY <2>2, <3>3, <3>4, <3>5
  <2> QED
    BY <2>1, <2>2
<1> DEFINE Fits(v) ==
      /\ v \in Work
      /\ v # NoWork => RulesOf(t) # <<>> /\ v.mails # <<>> /\ v.steps # <<>>
      /\ t = Sweep =>
           /\ \A i \in DOMAIN v.steps : \E k \in DOMAIN TimeRules : v.steps[i] = TimeRules[k]
           /\ \A i \in DOMAIN v.mails : \E k \in DOMAIN Inbox : v.mails[i] = Inbox[k]
<1>9. Fits(rest)
  <2>1. CASE NextRule(t, fired)
    <3>1. rest = [w EXCEPT !.steps = Tail(@)] /\ Len(w.steps) > 1
      BY <2>1 DEF NextRule
    <3> HIDE DEF rest, w
    <3>2. /\ rest = [mails |-> w.mails, steps |-> Tail(w.steps)]
          /\ rest.mails = w.mails /\ rest.steps = Tail(w.steps)
      <4>1. w = [mails |-> w.mails, steps |-> w.steps]
        BY <1>2
      <4> DEFINE m == w.mails
                 q == w.steps
      <4>2. w = [mails |-> m, steps |-> q] /\ rest = [w EXCEPT !.steps = Tail(w.steps)]
        BY <3>1, <4>1
      <4> HIDE DEF m, q
      <4>3. rest = [mails |-> m, steps |-> Tail(q)]
        BY <4>2
      <4> QED
        BY <4>3 DEF m, q
    <3>3. /\ Tail(w.steps) \in Seq(Steps) /\ Tail(w.steps) # <<>>
          /\ \A i \in DOMAIN Tail(w.steps) : \E k \in DOMAIN w.steps : Tail(w.steps)[i] = w.steps[k]
      BY <1>2, <3>1, TailFacts
    <3>4. rest \in Work
      BY <1>2, <3>2, <3>3 DEF Work
    <3>5. t = Sweep => \A i \in DOMAIN rest.steps : \E k \in DOMAIN TimeRules : rest.steps[i] = TimeRules[k]
      BY <1>3, <3>2, <3>3
    <3> QED
      BY <1>2, <1>3, <3>2, <3>3, <3>4, <3>5
  <2>2. CASE ~NextRule(t, fired) /\ Len(w.mails) > 1
    <3>1. rest = [mails |-> Tail(w.mails), steps |-> RulesOf(t)]
      BY <2>2 DEF RulesOf
    <3> HIDE DEF rest, w
    <3>2. rest.mails = Tail(w.mails) /\ rest.steps = RulesOf(t)
      BY <3>1
    <3>3. /\ Tail(w.mails) \in Seq(Emails) /\ Tail(w.mails) # <<>>
          /\ \A i \in DOMAIN Tail(w.mails) : \E k \in DOMAIN w.mails : Tail(w.mails)[i] = w.mails[k]
      BY <1>2, <2>2, TailFacts
    <3>4. rest \in Work
      BY <1>4, <3>1, <3>3 DEF Work
    <3>5. t = Sweep => \A i \in DOMAIN rest.mails : \E k \in DOMAIN Inbox : rest.mails[i] = Inbox[k]
      BY <1>3, <3>2, <3>3
    <3>6. t = Sweep => \A i \in DOMAIN rest.steps : \E k \in DOMAIN TimeRules : rest.steps[i] = TimeRules[k]
      BY <1>4, <3>2
    <3> QED
      BY <1>2, <3>2, <3>3, <3>4, <3>5, <3>6
  <2>3. CASE ~NextRule(t, fired) /\ ~(Len(w.mails) > 1)
    <3>1. rest = NoWork
      BY <2>3
    <3> HIDE DEF rest, w
    <3> QED
      BY <3>1, NoWorkFacts
  <2> QED
    BY <2>1, <2>2, <2>3
<1> HIDE DEF rest, r, w
<1>10. /\ \/ r.pc = "look" /\ RulesOf(t) # <<>> /\ rest.mails # <<>> /\ rest.steps # <<>>
          \/ r.pc = "idle"
       /\ rest \in Work
       /\ t = Sweep =>
            /\ \A i \in DOMAIN rest.steps : \E k \in DOMAIN TimeRules : rest.steps[i] = TimeRules[k]
            /\ \A i \in DOMAIN rest.mails : \E k \in DOMAIN Inbox : rest.mails[i] = Inbox[k]
  BY <1>5, <1>9
<1> HIDE DEF Fits
<1>11. ThreadInv'
  BY <1>1, <1>5, <1>10, WorkKeeps
<1> QED
  BY <1>1, <1>5, <1>11

-----------------------------------------------------------------------------
(* The rows. *)

\* What the sweep asked for is kept to its end; the log only grows.
LEMMA BatchKeeps ==
    ASSUME CountsOK, SweepRows, Batch, audited \subseteq audited'
    PROVE  known' \subseteq Pairs /\ batched' \in BOOLEAN /\ before' \subseteq Pairs /\ SweepRows'
PROOF
<1>1. CASE work'[Sweep] = NoWork
  <2>1. known' = {} /\ batched' = FALSE /\ before' = {}
    BY <1>1 DEF Batch
  <2> QED
    BY <2>1 DEF SweepRows
<1>2. CASE work'[Sweep] # NoWork
  <2>1. UNCHANGED <<known, batched, before>>
    BY <1>2 DEF Batch
  <2> QED
    BY <2>1 DEF CountsOK, SweepRows
<1> QED
  BY <1>1, <1>2

\* A step that writes no row of its own.
LEMMA RowsKeep ==
    ASSUME RowInv, UNCHANGED <<dedupVars, before, stored, answered>>,
           wanted' \in [Emails -> 0..MaxWanted], RunsOK',
           changes' \in 0..MaxChanges, mishaps' \in 0..MaxMishaps
    PROVE  RowInv'
PROOF
<1>1. /\ known' = known /\ batched' = batched /\ audited' = audited
      /\ before' = before /\ stored' = stored /\ answered' = answered
  BY DEF dedupVars
<1>2. CountsOK'
  BY <1>1 DEF RowInv, CountsOK
<1>3. SweepRows' /\ Kept'
  BY <1>1 DEF RowInv, SweepRows, Kept, TimePairs
<1> QED
  BY <1>2, <1>3 DEF RowInv

\* One more evaluation that waits, up to the bound.
LEMMA WantedKeeps ==
    ASSUME CountsOK, NEW e \in Emails,
           \/ wanted[e] < MaxWanted /\ wanted' = [wanted EXCEPT ![e] = @ + 1]
           \/ wanted[e] > 0 /\ wanted' = [wanted EXCEPT ![e] = @ - 1]
           \/ wanted' = [wanted EXCEPT ![e] = IF @ < MaxWanted THEN @ + 1 ELSE @]
           \/ UNCHANGED wanted
    PROVE  wanted' \in [Emails -> 0..MaxWanted]
PROOF
<1>1. wanted \in [Emails -> 0..MaxWanted] /\ MaxWanted \in Nat /\ wanted[e] \in 0..MaxWanted
  BY QuickLimits DEF CountsOK
<1>2. \E n \in 0..MaxWanted : wanted' = [wanted EXCEPT ![e] = n] \/ wanted' = wanted
  BY <1>1
<1> QED
  BY <1>1, <1>2

-----------------------------------------------------------------------------
(* The steps. *)

LEMMA ChangeKeeps == ASSUME Inv, NEW e \in Emails, Change(e) PROVE Inv'
PROOF
<1>1. /\ changes < MaxChanges /\ wanted[e] < MaxWanted /\ changes' = changes + 1
      /\ wanted' = [wanted EXCEPT ![e] = @ + 1]
      /\ UNCHANGED <<work, run, dedupVars, stored, mishaps, ran, before, answered>>
  BY DEF Change
<1>2. ThreadInv'
  BY <1>1, SameThreads DEF Inv
<1>3. CountsOK /\ changes \in 0..MaxChanges /\ MaxChanges \in Nat
  BY QuickLimits DEF Inv, RowInv, CountsOK
<1>4. wanted' \in [Emails -> 0..MaxWanted] /\ changes' \in 0..MaxChanges
  <2>1. wanted' \in [Emails -> 0..MaxWanted]
    BY <1>1, <1>3, WantedKeeps
  <2>2. changes' \in 0..MaxChanges
    BY <1>1, <1>3
  <2> QED
    BY <2>1, <2>2
<1>5. RowInv'
  <2>1. RunsOK' /\ mishaps' \in 0..MaxMishaps
    BY <1>1, <1>3 DEF CountsOK, RunsOK
  <2> QED
    BY <1>1, <1>4, <2>1, RowsKeep DEF Inv
<1> QED
  BY <1>2, <1>5 DEF Inv

LEMMA BeginEvalKeeps == ASSUME Inv, NEW t \in Evals, NEW e \in Emails, BeginEval(t, e) PROVE Inv'
PROOF
<1> DEFINE w == [mails |-> <<e>>, steps |-> Rules]
<1>1. /\ wanted[e] > 0 /\ Rules # <<>> /\ wanted' = [wanted EXCEPT ![e] = @ - 1]
      /\ work' = [work EXCEPT ![t] = w] /\ run' = [run EXCEPT ![t] = Resting("look")]
      /\ UNCHANGED <<dedupVars, stored, changes, mishaps, ran, before, answered>>
  BY DEF BeginEval
<1>2. t \in Evaluators /\ t # Sweep
  BY QuickAssumption DEF Evaluators
<1>3. w \in Work /\ w.mails # <<>> /\ w.steps = Rules
  <2>1. Rules \in Seq(Steps) /\ <<e>> \in Seq(Emails) /\ <<e>> # <<>>
    BY QuickAssumption
  <2> QED
    BY <2>1 DEF Work
<1> HIDE DEF w
<1>4. ThreadInv'
  <2>1. Resting("look") \in Run /\ ChainOf(Resting("look")) /\ Resting("look").pc = "look"
    BY RestingFacts
  <2>2. RulesOf(t) # <<>>
    BY <1>1, <1>2 DEF RulesOf
  <2> DEFINE r == Resting("look")
  <2>3. r \in Run /\ ChainOf(r) /\ r.pc = "look" /\ run' = [run EXCEPT ![t] = r]
    BY <1>1, <2>1
  <2> HIDE DEF r
  <2>4. ThreadInv
    BY DEF Inv
  <2>5. r.pc = "look" /\ RulesOf(t) # <<>> /\ w.mails # <<>> /\ w.steps # <<>>
    BY <1>1, <1>3, <2>2, <2>3
  <2> QED
    BY <1>1, <1>2, <1>3, <2>3, <2>4, <2>5, WorkKeeps
<1>5. CountsOK
  BY DEF Inv, RowInv
<1>6. RowInv'
  <2>1. wanted' \in [Emails -> 0..MaxWanted]
    BY <1>1, <1>5, WantedKeeps
  <2>2. /\ RunsOK' /\ mishaps' \in 0..MaxMishaps
        /\ changes' \in 0..MaxChanges
    BY <1>1, <1>5 DEF CountsOK, RunsOK
  <2> QED
    BY <1>1, <2>1, <2>2, RowsKeep DEF Inv
<1> QED
  BY <1>4, <1>6 DEF Inv

LEMMA BeginSweepKeeps == ASSUME Inv, BeginSweep PROVE Inv'
PROOF
<1> DEFINE w == [mails |-> Inbox, steps |-> TimeRules]
           r == Resting("look")
<1>1. /\ TimeRules # <<>> /\ Inbox # <<>>
      /\ \/ known' = audited \cap TimePairs /\ batched' = TRUE /\ NoMishap
         \/ known' = {} /\ batched' = FALSE /\ Mishap
      /\ before' = audited
      /\ work' = [work EXCEPT ![Sweep] = w] /\ run' = [run EXCEPT ![Sweep] = r]
      /\ UNCHANGED <<wanted, audited, stored, changes, ran, answered>>
  BY DEF BeginSweep
<1>2. w \in Work /\ w.mails = Inbox /\ w.steps = TimeRules
  <2>1. TimeRules \in Seq(Steps) /\ Inbox \in Seq(Emails)
    BY QuickAssumption
  <2> QED
    BY <2>1 DEF Work
<1>3. r \in Run /\ ChainOf(r) /\ r.pc = "look"
  BY RestingFacts
<1> HIDE DEF w, r
<1>4. ThreadInv'
  <2>1. ThreadInv /\ Sweep \in Evaluators /\ RulesOf(Sweep) # <<>>
    BY <1>1, ThreadNames DEF Inv, RulesOf
  <2>2. r.pc = "look" /\ RulesOf(Sweep) # <<>> /\ w.mails # <<>> /\ w.steps # <<>>
    BY <1>1, <1>2, <1>3, <2>1
  <2>3. /\ \A i \in DOMAIN w.steps : \E k \in DOMAIN TimeRules : w.steps[i] = TimeRules[k]
        /\ \A i \in DOMAIN w.mails : \E k \in DOMAIN Inbox : w.mails[i] = Inbox[k]
    BY <1>2
  <2> QED
    BY <1>1, <1>2, <1>3, <2>1, <2>2, <2>3, WorkKeeps
<1>5. CountsOK /\ Kept
  BY DEF Inv, RowInv
<1>6. mishaps' \in 0..MaxMishaps
  <2>1. mishaps \in 0..MaxMishaps
    BY <1>5 DEF CountsOK
  <2> QED
    BY <1>1, <1>5, <2>1, MishapFacts
<1>7. CountsOK'
  BY <1>1, <1>5, <1>6 DEF CountsOK, RunsOK
<1>8. SweepRows' /\ Kept'
  BY <1>1, <1>5 DEF SweepRows, Kept, TimePairs
<1> QED
  BY <1>4, <1>7, <1>8 DEF Inv, RowInv

LEMMA SkipKeeps == ASSUME Inv, NEW t \in Evaluators, Skip(t) PROVE Inv'
PROOF
<1>1. /\ run[t].pc = "look" /\ Pop(t, run[t].fired) /\ Batch
      /\ UNCHANGED <<wanted, audited, stored, changes, mishaps, ran, answered>>
  BY DEF Skip
<1>2. ThreadInv /\ CountsOK /\ SweepRows /\ Kept
  BY DEF Inv, RowInv
<1>3. run[t].fired \in Nat
  BY <1>2, ThreadNames DEF ThreadInv, ThreadsOK, Run
<1>4. ThreadInv'
  BY <1>1, <1>2, <1>3, PopKeeps
<1>5. known' \subseteq Pairs /\ batched' \in BOOLEAN /\ before' \subseteq Pairs /\ SweepRows'
  BY <1>1, <1>2, BatchKeeps
<1>6. CountsOK' /\ Kept'
  BY <1>1, <1>2, <1>5 DEF CountsOK, RunsOK, Kept
<1> QED
  BY <1>4, <1>5, <1>6 DEF Inv, RowInv

LEMMA FireKeeps == ASSUME Inv, NEW t \in Evaluators, Fire(t) PROVE Inv'
PROOF
<1> DEFINE p == Current(t)
           r == [run[t] EXCEPT !.pc = "chain", !.pair = p]
<1>1. /\ run[t].pc = "look" /\ (NoMishap \/ Mishap)
      /\ run' = [run EXCEPT ![t] = r]
      /\ ran' = [ran EXCEPT ![p] = IF @ < MaxRan(p) THEN @ + 1 ELSE @]
      /\ UNCHANGED <<wanted, work, dedupVars, stored, changes, before, answered>>
  BY DEF Fire
<1>2. ThreadInv /\ CountsOK /\ RowInv /\ t \in Threads
  BY ThreadNames DEF Inv, RowInv
<1>3. p \in Pairs /\ p[1] \in Steps
  BY <1>1, <1>2, CurrentFacts
<1> HIDE DEF p
<1>4. run[t] \in Run /\ run[t].pos = 1 /\ run[t].did = {}
  BY <1>1, <1>2 DEF ThreadInv, ThreadsOK, Chains, ChainOf
<1>5. r \in Run /\ r.pc = "chain" /\ r.pair = p /\ r.pos = 1 /\ r.did = {}
  <2> DEFINE q == run[t]
  <2>1. q \in Run /\ q.pos = 1 /\ q.did = {} /\ r = [q EXCEPT !.pc = "chain", !.pair = p]
    BY <1>4
  <2> HIDE DEF q, r
  <2> QED
    BY <1>3, <2>1 DEF Run
<1> HIDE DEF r
<1>6. ChainOf(r)
  <2>1. Len(Actions[p[1]]) \in Nat \ {0}
    BY <1>3, ChainLength
  <2> QED
    BY <1>5, <2>1 DEF ChainOf
<1>7. ThreadInv'
  BY <1>1, <1>2, <1>5, <1>6, StepKeeps
<1>8. mishaps' \in 0..MaxMishaps
  <2>1. mishaps \in 0..MaxMishaps
    BY <1>2 DEF CountsOK
  <2> QED
    BY <1>1, <1>2, <2>1, MishapFacts
<1>9. RunsOK'
  <2> DEFINE n == IF ran[p] < MaxRan(p) THEN ran[p] + 1 ELSE ran[p]
  <2>1. ran \in [Pairs -> Nat] /\ ran[p] \in Nat /\ MaxRan(p) \in Nat /\ ran[p] <= MaxRan(p)
    BY <1>2, <1>3, PerMishapType, QuickLimits DEF CountsOK, RunsOK
  <2>2. n \in Nat /\ n <= MaxRan(p) /\ ran' = [ran EXCEPT ![p] = n]
    BY <1>1, <2>1
  <2> HIDE DEF n
  <2>3. \A x \in Pairs : ran[x] <= MaxRan(x)
    BY <1>2 DEF CountsOK, RunsOK
  <2>4. ran' \in [Pairs -> Nat] /\ \A x \in Pairs : ran'[x] <= MaxRan(x)
    BY <2>1, <2>2, <2>3
  <2> QED
    BY <2>4 DEF RunsOK
<1>10. RowInv'
  BY <1>1, <1>2, <1>8, <1>9, RowsKeep DEF CountsOK
<1> QED
  BY <1>7, <1>10 DEF Inv

LEMMA ActKeeps == ASSUME Inv, NEW t \in Threads, Act(t) PROVE Inv'
PROOF
<1> DEFINE q == run[t]
           len == Len(Actions[q.pair[1]])
           r == [q EXCEPT !.pos = @ + 1, !.did = @ \cup {q.pos},
                          !.pc = IF q.pos = len THEN "record" ELSE "chain"]
<1>1. ThreadInv /\ RowInv /\ CountsOK
  BY DEF Inv, RowInv
<1>2. q \in Run /\ run \in [Threads -> Run] /\ q.pair \in Pairs /\ q.pair[1] \in Steps /\ q.pair[2] \in Emails
  BY <1>1 DEF ThreadInv, ThreadsOK, Run, Pairs
<1>3. /\ q.pc = "chain" /\ UNCHANGED <<work, dedupVars, stored, changes, mishaps, ran, before, answered>>
      /\ \/ UNCHANGED wanted
         \/ wanted' = [wanted EXCEPT ![EmailOf(t)] = IF @ < MaxWanted THEN @ + 1 ELSE @]
  BY DEF Act
<1>4. run' = [run EXCEPT ![t] = r]
  BY <1>2 DEF Act, Chain
<1>5. /\ q.pos \in 1..len /\ q.did = 1..(q.pos - 1)
      /\ len \in Nat \ {0} /\ DOMAIN Actions[q.pair[1]] = 1..len
  BY <1>1, <1>2, <1>3, ChainLength DEF ThreadInv, Chains, ChainOf
<1> HIDE DEF q, len
<1>6. /\ r \in Run /\ r.pair = q.pair /\ r.pos = q.pos + 1 /\ r.did = 1..q.pos
      /\ r.pc = IF q.pos = len THEN "record" ELSE "chain"
  <2>1. q.pos \in Nat /\ q.pos + 1 \in Nat /\ q.did \cup {q.pos} \subseteq Nat
    BY <1>5
  <2>2. r.did = q.did \cup {q.pos}
    BY <1>2 DEF Run
  <2>3. q.did \cup {q.pos} = 1..q.pos
    BY <1>5
  <2>4. r.pair = q.pair /\ r.pos = q.pos + 1 /\ r.pc = (IF q.pos = len THEN "record" ELSE "chain")
    BY <1>2 DEF Run
  <2>5. r \in Run
    BY <1>2, <2>1 DEF Run
  <2> QED
    BY <2>2, <2>3, <2>4, <2>5
<1> HIDE DEF r
<1>7. ChainOf(r)
  <2>1. CASE q.pos = len
    BY <1>5, <1>6, <2>1 DEF ChainOf
  <2>2. CASE q.pos # len
    <3>1. r.pc = "chain" /\ r.pos \in 1..len /\ r.did = 1..(r.pos - 1)
      BY <1>5, <1>6, <2>2
    <3>2. len = Len(Actions[r.pair[1]])
      BY <1>6 DEF len
    <3> QED
      BY <3>1, <3>2 DEF ChainOf
  <2> QED
    BY <2>1, <2>2
<1>8. ThreadInv'
  <2>1. run[t].pc # "idle" /\ r.pc \in {"look", "chain", "record"}
    BY <1>3, <1>6 DEF q
  <2>2. UNCHANGED work
    BY <1>3
  <2> QED
    BY <1>1, <1>4, <1>6, <1>7, <2>1, <2>2, StepKeeps
<1>9. wanted' \in [Emails -> 0..MaxWanted]
  <2>1. EmailOf(t) \in Emails
    BY <1>2 DEF EmailOf, q
  <2> QED
    BY <1>1, <1>3, <2>1, WantedKeeps
<1>10. RowInv'
  <2>1. /\ RunsOK' /\ mishaps' \in 0..MaxMishaps
        /\ changes' \in 0..MaxChanges
    BY <1>1, <1>3 DEF CountsOK, RunsOK
  <2> QED
    BY <1>1, <1>3, <1>9, <2>1, RowsKeep
<1> QED
  BY <1>8, <1>10 DEF Inv

LEMMA FailKeeps == ASSUME Inv, NEW t \in Threads, Fail(t) PROVE Inv'
PROOF
<1> DEFINE q == run[t]
           r == [q EXCEPT !.pc = "record", !.ok = FALSE]
<1>1. ThreadInv /\ RowInv /\ CountsOK
  BY DEF Inv, RowInv
<1>2. q \in Run /\ run \in [Threads -> Run]
  BY <1>1 DEF ThreadInv, ThreadsOK
<1>3. /\ q.pc = "chain" /\ Mishap
      /\ UNCHANGED <<wanted, work, dedupVars, stored, changes, ran, before, answered>>
  BY DEF Fail
<1>4. run' = [run EXCEPT ![t] = r]
  BY <1>2 DEF Fail
<1> HIDE DEF q
<1>5. r \in Run /\ r.pc = "record" /\ r.ok = FALSE
  BY <1>2 DEF Run
<1> HIDE DEF r
<1>6. ChainOf(r)
  BY <1>5 DEF ChainOf
<1>7. ThreadInv'
  <2>1. run[t].pc # "idle" /\ r.pc \in {"look", "chain", "record"}
    BY <1>3, <1>5 DEF q
  <2>2. UNCHANGED work
    BY <1>3
  <2> QED
    BY <1>1, <1>4, <1>5, <1>6, <2>1, <2>2, StepKeeps
<1>8. RowInv'
  <2>1. mishaps' \in 0..MaxMishaps
    BY <1>1, <1>3, MishapFacts
  <2>2. /\ RunsOK' /\ wanted' \in [Emails -> 0..MaxWanted]
        /\ changes' \in 0..MaxChanges
    BY <1>1, <1>3 DEF CountsOK, RunsOK
  <2> QED
    BY <1>1, <1>3, <2>1, <2>2, RowsKeep
<1> QED
  BY <1>7, <1>8 DEF Inv

LEMMA RecordKeeps == ASSUME Inv, NEW t \in Evaluators, Record(t) PROVE Inv'
PROOF
<1>1. /\ run[t].pc = "record" /\ Pop(t, run[t].fired + 1) /\ Batch
      /\ \/ audited' = (IF run[t].ok THEN audited \cup {run[t].pair} ELSE audited) /\ NoMishap
         \/ UNCHANGED audited /\ Mishap
      /\ UNCHANGED <<wanted, stored, changes, ran, answered>>
  BY DEF Record
<1>2. ThreadInv /\ CountsOK /\ SweepRows /\ Kept
  BY DEF Inv, RowInv
<1>3. run[t].fired + 1 \in Nat /\ run[t].pair \in Pairs
  BY <1>2, ThreadNames DEF ThreadInv, ThreadsOK, Run
<1>4. ThreadInv'
  BY <1>1, <1>2, <1>3, PopKeeps
<1>5. audited' \subseteq Pairs /\ audited \subseteq audited'
  BY <1>1, <1>2, <1>3 DEF CountsOK
<1>6. known' \subseteq Pairs /\ batched' \in BOOLEAN /\ before' \subseteq Pairs /\ SweepRows'
  BY <1>1, <1>2, <1>5, BatchKeeps
<1>7. mishaps' \in 0..MaxMishaps
  <2>1. mishaps \in 0..MaxMishaps
    BY <1>2 DEF CountsOK
  <2> QED
    BY <1>1, <1>2, <2>1, MishapFacts
<1>8. CountsOK' /\ Kept'
  BY <1>1, <1>2, <1>5, <1>6, <1>7 DEF CountsOK, RunsOK, Kept
<1> QED
  BY <1>4, <1>6, <1>8 DEF Inv, RowInv

LEMMA CallKeeps == ASSUME Inv, NEW c \in Calls, Call(c) PROVE Inv'
PROOF
<1> DEFINE q == run[c]
           s == [q EXCEPT !.pc = "replayed"]
           r == [q EXCEPT !.pc = "chain", !.pair = PairOf[c]]
<1>1. ThreadInv /\ RowInv /\ CountsOK /\ c \in Threads /\ c \notin Evaluators
  BY ThreadNames DEF Inv, RowInv
<1>2. /\ q.pc = "idle" /\ (NoMishap \/ Mishap)
      /\ run' = [run EXCEPT ![c] = s] \/ run' = [run EXCEPT ![c] = r]
      /\ UNCHANGED <<wanted, work, dedupVars, stored, changes, ran, before, answered>>
  BY DEF Call
<1>3. q \in Run /\ q.pos = 1 /\ q.did = {}
  BY <1>1, <1>2 DEF ThreadInv, ThreadsOK, Chains, ChainOf
<1>4. PairOf[c] \in Pairs /\ PairOf[c][1] \in Steps
  BY QuickAssumption DEF Pairs
<1> HIDE DEF q
<1>5. s \in Run /\ ChainOf(s)
  <2>1. s \in Run /\ s.pc = "replayed"
    BY <1>3 DEF Run
  <2> HIDE DEF s
  <2> QED
    BY <2>1 DEF ChainOf
<1>6. r \in Run /\ ChainOf(r)
  <2> DEFINE p == PairOf[c]
  <2>1. p \in Pairs /\ p[1] \in Steps /\ r = [q EXCEPT !.pc = "chain", !.pair = p]
    BY <1>4
  <2> HIDE DEF p, r
  <2>2. r \in Run /\ r.pc = "chain" /\ r.pair = p /\ r.pos = 1 /\ r.did = {}
    BY <1>3, <2>1 DEF Run
  <2>3. Len(Actions[p[1]]) \in Nat \ {0}
    BY <2>1, ChainLength
  <2> QED
    BY <2>2, <2>3 DEF ChainOf
<1> HIDE DEF s, r
<1>7. ThreadInv'
  <2>1. CASE run' = [run EXCEPT ![c] = s]
    BY <1>1, <1>2, <1>5, <2>1, StepKeeps
  <2>2. CASE run' = [run EXCEPT ![c] = r]
    BY <1>1, <1>2, <1>6, <2>2, StepKeeps
  <2> QED
    BY <1>2, <2>1, <2>2
<1>8. RowInv'
  <2>1. mishaps' \in 0..MaxMishaps
    <3>1. mishaps \in 0..MaxMishaps
      BY <1>1 DEF CountsOK
    <3> QED
      BY <1>1, <1>2, <3>1, MishapFacts
  <2>2. /\ RunsOK' /\ wanted' \in [Emails -> 0..MaxWanted]
        /\ changes' \in 0..MaxChanges
    BY <1>1, <1>2 DEF CountsOK, RunsOK
  <2> QED
    BY <1>1, <1>2, <2>1, <2>2, RowsKeep
<1> QED
  BY <1>7, <1>8 DEF Inv

LEMMA AnswerKeeps == ASSUME Inv, NEW c \in Calls, Answer(c) PROVE Inv'
PROOF
<1> DEFINE k == KeyOf[c]
           report == IF run[c].ok THEN "ok" ELSE "failed"
           q == Resting("answered")
           r == [q EXCEPT !.ok = run[c].ok]
<1>1. ThreadInv /\ CountsOK /\ SweepRows /\ Kept /\ c \in Threads /\ c \notin Evaluators
  BY ThreadNames DEF Inv, RowInv
<1>2. /\ run' = [run EXCEPT ![c] = r]
      /\ \/ /\ stored' = [stored EXCEPT ![k] = IF @ = "none" THEN report ELSE @]
            /\ answered' = answered \cup {k}
            /\ NoMishap
         \/ UNCHANGED <<stored, answered>> /\ Mishap
      /\ UNCHANGED <<wanted, work, dedupVars, changes, ran, before>>
  BY DEF Answer
<1>3. k \in Keys /\ report \in Outcomes /\ report # "none"
  BY QuickAssumption DEF Outcomes
<1>4. r \in Run /\ r.pc = "answered"
  <2>1. q \in Run /\ q.pc = "answered" /\ run[c].ok \in BOOLEAN
    BY <1>1, RestingFacts DEF ThreadInv, ThreadsOK, Run
  <2> HIDE DEF q
  <2> QED
    BY <2>1 DEF Run
<1> HIDE DEF k, report, r, q
<1>5. ThreadInv'
  <2>1. ChainOf(r)
    BY <1>4 DEF ChainOf
  <2> QED
    BY <1>1, <1>2, <1>4, <2>1, StepKeeps
<1>6. mishaps' \in 0..MaxMishaps
  <2>1. mishaps \in 0..MaxMishaps
    BY <1>1 DEF CountsOK
  <2> QED
    BY <1>1, <1>2, <2>1, MishapFacts
<1>7. stored' \in [Keys -> Outcomes] /\ answered' \subseteq Keys /\ Kept'
  <2>1. stored \in [Keys -> Outcomes] /\ answered \subseteq Keys
    BY <1>1 DEF CountsOK
  <2>2. CASE UNCHANGED <<stored, answered>>
    BY <1>1, <2>1, <2>2 DEF Kept
  <2>3. CASE /\ stored' = [stored EXCEPT ![k] = IF @ = "none" THEN report ELSE @]
             /\ answered' = answered \cup {k}
    BY <1>1, <1>3, <2>1, <2>3 DEF Kept
  <2> QED
    BY <1>2, <2>2, <2>3
<1>8. CountsOK'
  BY <1>1, <1>2, <1>6, <1>7 DEF CountsOK, RunsOK, dedupVars
<1>9. SweepRows'
  BY <1>1, <1>2 DEF SweepRows, dedupVars, TimePairs
<1> QED
  BY <1>5, <1>7, <1>8, <1>9 DEF Inv, RowInv

LEMMA ExpireKeeps == ASSUME Inv, NEW k \in Keys, Expire(k) PROVE Inv'
PROOF
<1>1. ThreadInv /\ CountsOK /\ SweepRows /\ Kept
  BY DEF Inv, RowInv
<1>2. /\ stored' = [stored EXCEPT ![k] = "none"] /\ answered' = answered \ {k}
      /\ UNCHANGED <<wanted, work, run, dedupVars, changes, mishaps, ran, before>>
  BY DEF Expire
<1>3. ThreadInv'
  BY <1>1, <1>2, SameThreads
<1>4. CountsOK'
  BY <1>1, <1>2 DEF CountsOK, RunsOK, dedupVars, Outcomes
<1>5. SweepRows'
  BY <1>1, <1>2 DEF SweepRows, dedupVars, TimePairs
<1>6. Kept'
  BY <1>1, <1>2 DEF Kept, CountsOK
<1> QED
  BY <1>3, <1>4, <1>5, <1>6 DEF Inv, RowInv

LEMMA CrashKeeps == ASSUME Inv, Crash PROVE Inv'
PROOF
<1>1. ThreadInv /\ CountsOK /\ SweepRows /\ Kept
  BY DEF Inv, RowInv
<1>2. /\ Mishap /\ Batch /\ wanted' = [e \in Emails |-> 0]
      /\ work' = [t \in Evaluators |-> NoWork]
      /\ run' = [t \in Threads |->
           CASE t \in Evaluators -> Resting("idle")
             [] t \in Calls /\ run[t].pc \in {"chain", "record"} -> Resting("lost")
             [] OTHER -> run[t]]
      /\ UNCHANGED <<audited, stored, changes, ran, answered>>
  BY DEF Crash
<1>3. ASSUME NEW t \in Threads
      PROVE  /\ run'[t] \in Run /\ ChainOf(run'[t])
             /\ t \in Evaluators => run'[t].pc = "idle"
  <2>1. run'[t] \in {Resting("idle"), Resting("lost"), run[t]}
    BY <1>2
  <2>2. run[t] \in Run /\ ChainOf(run[t])
    BY <1>1 DEF ThreadInv, ThreadsOK, Chains
  <2>3. t \in Evaluators => run'[t] = Resting("idle")
    BY <1>2, ThreadNames
  <2> QED
    BY <2>1, <2>2, <2>3, RestingFacts
<1>4. ThreadsOK'
  <2>1. run' \in [Threads -> Run]
    BY <1>2, <1>3
  <2>2. work' \in [Evaluators -> Work]
    BY <1>2, NoWorkFacts
  <2> QED
    BY <1>3, <2>1, <2>2, ThreadNames DEF ThreadsOK
<1>5. Chains' /\ Loaded'
  BY <1>3, ThreadNames DEF Chains, Loaded
<1>6. SweepWork'
  <2>1. work'[Sweep] = NoWork
    BY <1>2, ThreadNames
  <2> QED
    BY <2>1, NoWorkFacts DEF SweepWork
<1>7. known' \subseteq Pairs /\ batched' \in BOOLEAN /\ before' \subseteq Pairs /\ SweepRows'
  BY <1>1, <1>2, BatchKeeps
<1>8. mishaps' \in 0..MaxMishaps /\ 0 \in 0..MaxWanted
  BY <1>1, <1>2, MishapFacts, QuickLimits
<1>9. CountsOK' /\ Kept'
  BY <1>1, <1>2, <1>7, <1>8 DEF CountsOK, RunsOK, Kept
<1> QED
  BY <1>4, <1>5, <1>6, <1>7, <1>9 DEF Inv, ThreadInv, RowInv

LEMMA InvNext == Inv /\ [Next]_vars => Inv'
PROOF
<1> SUFFICES ASSUME Inv, [Next]_vars PROVE Inv'
  OBVIOUS
<1>1. ASSUME NEW t \in Threads, Step(t) PROVE Inv'
  BY <1>1, SkipKeeps, FireKeeps, RecordKeeps, ActKeeps, FailKeeps, CallKeeps, AnswerKeeps DEF Step
<1>2. CASE UNCHANGED vars
  <2>1. /\ UNCHANGED <<work, run>> /\ UNCHANGED <<dedupVars, before, stored, answered>>
        /\ UNCHANGED <<wanted, ran, changes, mishaps>>
    BY <1>2 DEF vars
  <2>2. ThreadInv'
    BY <2>1, SameThreads DEF Inv
  <2>3. RowInv'
    BY <2>1, RowsKeep DEF Inv, RowInv, CountsOK, RunsOK
  <2> QED
    BY <2>2, <2>3 DEF Inv
<1> QED
  BY <1>1, <1>2, ChangeKeeps, BeginEvalKeeps, BeginSweepKeeps, ExpireKeeps, CrashKeeps DEF Next

\* How far each chain has come, what the sweep knows and which keys have a report, in
\* every state.
THEOREM QuickInvariant == Spec => []Inv
PROOF
<1> QED
  BY InvInit, InvNext, PTL DEF Spec

\* Every variable has its type: an evaluation at work always has a mail and a rule.
THEOREM QuickTypes == Spec => []TypeOK
PROOF
<1>1. Inv => TypeOK
  BY TypeParts DEF Inv, ThreadInv, RowInv
<1> QED
  BY <1>1, QuickInvariant, PTL

-----------------------------------------------------------------------------
(* What a step may do. *)

\* A step is one thread's.
LEMMA OneThread ==
    ASSUME NEW t \in Threads, Step(t)
    PROVE  \E r : run' = [run EXCEPT ![t] = r]
PROOF
<1>1. CASE Skip(t) \/ Record(t)
  BY <1>1 DEF Skip, Record, Pop
<1>2. CASE Fire(t)
  BY <1>2 DEF Fire
<1>3. CASE Act(t)
  BY <1>3 DEF Act
<1>4. CASE Fail(t)
  BY <1>4 DEF Fail
<1>5. CASE Call(t) \/ Answer(t)
  BY <1>5 DEF Call, Answer
<1> QED
  BY <1>1, <1>2, <1>3, <1>4, <1>5 DEF Step

\* A row that stops a rule for good is written by a run that came through its whole
\* chain, in whatever order evaluations, the sweep, failures and restarts come.
THEOREM FiredCorrect == Spec => FiredMeansWhole
PROOF
<1> DEFINE Whole == \A p \in audited' \ audited :
             \E t \in Evaluators : run[t].pair = p /\ run[t].did = DOMAIN Actions[p[1]]
<1>1. ASSUME Inv, [Next]_vars
      PROVE  Whole
  <2> SUFFICES ASSUME NEW p \in audited' \ audited
               PROVE  \E t \in Evaluators : run[t].pair = p /\ run[t].did = DOMAIN Actions[p[1]]
    OBVIOUS
  <2>1. \E t \in Evaluators : Record(t)
    <3>1. ASSUME NEW t \in Threads, Step(t), ~(t \in Evaluators /\ Record(t))
          PROVE  UNCHANGED audited
      BY <3>1 DEF Step, Skip, Fire, Act, Fail, Call, Answer, dedupVars
    <3>2. UNCHANGED vars => UNCHANGED audited
      BY DEF vars, dedupVars
    <3> QED
      BY <1>1, <3>1, <3>2, ThreadNames
      DEF Next, Change, BeginEval, BeginSweep, Expire, Crash, dedupVars
  <2>2. PICK t \in Evaluators : Record(t)
    BY <2>1
  <2>3. run[t].pc = "record" /\ run[t].ok /\ p = run[t].pair
    BY <2>2 DEF Record
  <2>4. ChainOf(run[t])
    BY <1>1, ThreadNames DEF Inv, ThreadInv, Chains
  <2> QED
    BY <2>3, <2>4 DEF ChainOf
<1> HIDE DEF Whole
<1>2. Spec => [][Whole]_vars
  BY <1>1, QuickInvariant, PTL DEF Spec
<1> QED
  BY <1>2 DEF Whole, FiredMeansWhole

\* The sweep runs no pair that had its row when the sweep began, unless the query for
\* that very pair fails: a failed batch query costs it none of the rows.
THEOREM SweepCorrect == Spec => SweepHonoursRows
PROOF
<1> DEFINE Honours == \A p \in before :
             ran'[p] > ran[p] /\ run[Sweep].pc = "look" /\ run'[Sweep].pc = "chain"
                 /\ run'[Sweep].pair = p
             => mishaps' > mishaps
<1>1. ASSUME Inv, [Next]_vars
      PROVE  Honours
  <2> SUFFICES ASSUME NEW p \in before, run[Sweep].pc = "look", run'[Sweep].pc = "chain",
                      run'[Sweep].pair = p
               PROVE  mishaps' > mishaps
    OBVIOUS
  <2>0. /\ ThreadInv /\ CountsOK /\ SweepRows /\ Sweep \in Evaluators /\ Sweep \in Threads
        /\ run \in [Threads -> Run] /\ Sweep \notin Calls
    BY <1>1, ThreadNames DEF Inv, RowInv, ThreadInv, ThreadsOK
  <2>1. CASE Fire(Sweep)
    <3>1. run'[Sweep].pair = Current(Sweep)
      <4> DEFINE c == Current(Sweep)
                 q == run[Sweep]
      <4>1. run' = [run EXCEPT ![Sweep] = [q EXCEPT !.pc = "chain", !.pair = c]]
        BY <2>1 DEF Fire
      <4>2. run'[Sweep] = [q EXCEPT !.pc = "chain", !.pair = c] /\ q \in Run
        BY <2>0, <4>1
      <4> HIDE DEF c, q
      <4>3. run'[Sweep].pair = c
        BY <4>2 DEF Run
      <4> QED
        BY <4>3 DEF c
    <3>2. p \in TimePairs
      BY <2>0, <3>1, CurrentFacts
    <3>3. HasFired(Sweep, p)
      BY <2>0, <3>2 DEF SweepRows, HasFired
    <3>4. Mishap
      BY <2>1, <3>1, <3>3 DEF Fire
    <3> QED
      BY <2>0, <3>4, MishapFacts
  <2>2. CASE ~Fire(Sweep)
    <3>1. ASSUME NEW t \in Threads, Step(t)
          PROVE  FALSE
      <4>1. CASE t # Sweep
        <5>1. \E r : run' = [run EXCEPT ![t] = r]
          BY <3>1, OneThread
        <5> QED
          BY <2>0, <4>1, <5>1
      <4>2. CASE t = Sweep
        <5>1. Skip(Sweep)
          BY <2>0, <2>2, <3>1, <4>2 DEF Step, Record, Act, Fail
        <5>2. Pop(Sweep, run[Sweep].fired) /\ run[Sweep].fired \in Nat
          BY <2>0, <5>1 DEF Skip, Run
        <5>3. PICK r \in Run : r.pc \in {"look", "idle"} /\ run' = [run EXCEPT ![Sweep] = r]
          BY <2>0, <5>2, PopKeeps
        <5> QED
          BY <2>0, <5>3
      <4> QED
        BY <4>1, <4>2
    <3>2. ASSUME NEW t \in Evals, NEW e \in Emails, BeginEval(t, e)
          PROVE  FALSE
      <4>1. t # Sweep
        BY QuickAssumption
      <4> QED
        BY <2>0, <3>2, <4>1 DEF BeginEval
    <3>3. ~BeginSweep
      BY DEF BeginSweep
    <3>4. ~Crash
      <4>1. Crash => run'[Sweep] = Resting("idle")
        BY <2>0 DEF Crash
      <4> QED
        BY <4>1, RestingFacts
    <3>5. ~(UNCHANGED run)
      OBVIOUS
    <3>6. (\E e \in Emails : Change(e)) \/ (\E k \in Keys : Expire(k)) \/ UNCHANGED vars
          => UNCHANGED run
      BY DEF Change, Expire, vars
    <3> QED
      BY <1>1, <3>1, <3>2, <3>3, <3>4, <3>5, <3>6 DEF Next
  <2> QED
    BY <2>1, <2>2
<1> HIDE DEF Honours
<1>2. Spec => [][Honours]_vars
  BY <1>1, QuickInvariant, PTL DEF Spec
<1> QED
  BY <1>2 DEF Honours, SweepHonoursRows

\* A request whose key was answered is answered from the store, unless the look into
\* the store fails: however the first one ended, and with any number of requests.
THEOREM ReplayCorrect == Spec => RetryIsReplayed
PROOF
<1> DEFINE Replays == \A c \in Calls :
             KeyOf[c] \in answered /\ run[c].pc = "idle" /\ run'[c].pc # "idle" =>
                 run'[c].pc = "replayed" \/ mishaps' > mishaps
<1>1. ASSUME Inv, [Next]_vars
      PROVE  Replays
  <2> SUFFICES ASSUME NEW c \in Calls, KeyOf[c] \in answered, run[c].pc = "idle",
                      run'[c].pc # "idle"
               PROVE  run'[c].pc = "replayed" \/ mishaps' > mishaps
    OBVIOUS
  <2>0. /\ CountsOK /\ stored[KeyOf[c]] # "none" /\ c \in Threads /\ c \notin Evaluators
        /\ run \in [Threads -> Run]
    BY <1>1, ThreadNames DEF Inv, RowInv, Kept, ThreadInv, ThreadsOK
  <2>1. CASE Call(c)
    <3>1. CASE Mishap
      BY <2>0, <3>1, MishapFacts
    <3>2. CASE ~Mishap
      <4> DEFINE q == run[c]
      <4>1. run' = [run EXCEPT ![c] = [q EXCEPT !.pc = "replayed"]]
        BY <2>0, <2>1, <3>2 DEF Call
      <4>2. run'[c] = [q EXCEPT !.pc = "replayed"] /\ q \in Run
        BY <2>0, <4>1
      <4> HIDE DEF q
      <4> QED
        BY <4>2 DEF Run
    <3> QED
      BY <3>1, <3>2
  <2>2. CASE ~Call(c)
    <3>1. ASSUME NEW t \in Threads, Step(t)
          PROVE  FALSE
      <4>1. CASE t # c
        <5>1. \E r : run' = [run EXCEPT ![t] = r]
          BY <3>1, OneThread
        <5> QED
          BY <2>0, <4>1, <5>1
      <4>2. CASE t = c
        BY <2>0, <2>2, <3>1, <4>2 DEF Step, Act, Fail, Answer
      <4> QED
        BY <4>1, <4>2
    <3>2. ASSUME NEW t \in Evals, NEW e \in Emails, BeginEval(t, e)
          PROVE  FALSE
      <4>1. t # c
        BY <2>0 DEF Evaluators
      <4> QED
        BY <2>0, <3>2, <4>1 DEF BeginEval
    <3>3. ~BeginSweep
      <4>1. c # Sweep
        BY <2>0, ThreadNames
      <4> QED
        BY <2>0, <4>1 DEF BeginSweep
    <3>4. ~Crash
      <4>1. Crash => run'[c] = run[c]
        BY <2>0 DEF Crash
      <4> QED
        BY <4>1
    <3>5. ~(UNCHANGED run)
      OBVIOUS
    <3>6. (\E e \in Emails : Change(e)) \/ (\E k \in Keys : Expire(k)) \/ UNCHANGED vars
          => UNCHANGED run
      BY DEF Change, Expire, vars
    <3> QED
      BY <1>1, <3>1, <3>2, <3>3, <3>4, <3>5, <3>6 DEF Next
  <2> QED
    BY <2>1, <2>2
<1> HIDE DEF Replays
<1>2. Spec => [][Replays]_vars
  BY <1>1, QuickInvariant, PTL DEF Spec
<1> QED
  BY <1>2 DEF Replays, RetryIsReplayed
-----------------------------------------------------------------------------
(***************************************************************************)
(* How often a rule runs.  An evaluation that has begun a pair is blocked  *)
(* for it: by its own chain, then by the row.  The sweep asks once for all *)
(* its pairs, and its answer does not have the rows it writes itself; but  *)
(* it comes to each of its places once, so the place at which it has begun *)
(* the pair is taken.  Only a mishap takes that away, and at most for all  *)
(* threads and places at once.  So the runs of a pair are no more than the *)
(* blocked threads, the taken places, and one of each per mishap.          *)
(***************************************************************************)

\* The thread is in a chain of the pair, which nothing has failed in yet.
Runs(t, p) == run[t].pc \in {"chain", "record"} /\ run[t].ok /\ run[t].pair = p

\* Evaluation t does not begin the pair again, unless something goes wrong.
Blocked(t, p) == p \in audited \/ Runs(t, p)
BlockedFor(p) == {t \in Evals : Blocked(t, p)}

\* The place the sweep is at, and those it has come through or runs.
HereMail == Len(Inbox) - Len(work[Sweep].mails) + 1
HereStep == Len(TimeRules) - Len(work[Sweep].steps) + 1
Past(x) ==
    \/ x[1] < HereMail
    \/ x[1] = HereMail /\ x[2] < HereStep
    \/ x[1] = HereMail /\ x[2] = HereStep /\ run[Sweep].pc # "look"

\* Nor does the sweep begin it at place x: it knows of the row, or it does not come to
\* the place again before it asks for the rows anew.
Taken(x, p) ==
    \/ p \in audited /\ (batched => p \in known)
    \/ (p \in audited \/ Runs(Sweep, p)) /\ Past(x)
TakenFor(p) == {x \in Places(p) : Taken(x, p)}

\* What the sweep has in hand are ends of its lists.
EndOf(q, l) == Len(q) <= Len(l) /\ \A k \in DOMAIN q : q[k] = l[k + Len(l) - Len(q)]
SweepLists == EndOf(work[Sweep].mails, Inbox) /\ EndOf(work[Sweep].steps, TimeRules)

\* What a thread has that looks or runs.
InHandOf(t) ==
    /\ run[t].pc = "look" => run[t].ok
    /\ run[t].pc \in {"chain", "record"} => run[t].pair = Current(t)
InHand == \A t \in Evaluators : InHandOf(t)

\* Each mishap may unblock every thread and place, and a run takes one of them.
Paid(p) == Cardinality(BlockedFor(p)) + Cardinality(TakenFor(p))
Counted == \A p \in Pairs : ran[p] <= PerMishap(p) * mishaps + Paid(p)
CountInv == SweepLists /\ InHand /\ Counted

\* An end of a list: the list, nothing, and its tail.
LEMMA EndOfFacts ==
    ASSUME NEW S, NEW l, l \in Seq(S)
    PROVE  /\ EndOf(l, l) /\ EndOf(<<>>, l)
           /\ \A q \in Seq(S) : EndOf(q, l) /\ Len(q) > 1 =>
                EndOf(Tail(q), l) /\ Len(Tail(q)) = Len(q) - 1
PROOF
<1>1. Len(l) \in Nat /\ DOMAIN l = 1..Len(l)
  OBVIOUS
<1>2. EndOf(l, l)
  BY <1>1 DEF EndOf
<1>3. EndOf(<<>>, l)
  BY <1>1 DEF EndOf
<1>4. ASSUME NEW q \in Seq(S), EndOf(q, l), Len(q) > 1
      PROVE  EndOf(Tail(q), l) /\ Len(Tail(q)) = Len(q) - 1
  <2> DEFINE r == Tail(q)
  <2>1. /\ Len(r) = Len(q) - 1 /\ Len(q) \in Nat /\ DOMAIN r = 1..Len(r) /\ DOMAIN q = 1..Len(q)
        /\ \A k \in 1..Len(r) : r[k] = q[k + 1]
    BY <1>4
  <2>2. Len(q) <= Len(l) /\ \A k \in DOMAIN q : q[k] = l[k + Len(l) - Len(q)]
    BY <1>4 DEF EndOf
  <2> HIDE DEF r
  <2>3. ASSUME NEW k \in DOMAIN r PROVE r[k] = l[k + Len(l) - Len(r)]
    <3>1. k + 1 \in DOMAIN q /\ k \in Nat
      BY <2>1, <2>3
    <3>2. (k + 1) + Len(l) - Len(q) = k + Len(l) - Len(r)
      BY <1>1, <2>1, <3>1
    <3> QED
      BY <2>1, <2>2, <2>3, <3>1, <3>2
  <2>4. Len(r) <= Len(l)
    BY <1>1, <2>1, <2>2
  <2> QED
    BY <2>1, <2>3, <2>4 DEF EndOf, r
<1> QED
  BY <1>2, <1>3, <1>4

\* Where a thread goes after a pair.
LEMMA PopWork ==
    ASSUME ThreadInv, NEW t \in Evaluators, NEW fired, Pop(t, fired), run[t].pc # "idle"
    PROVE  /\ \A u \in Evaluators : u # t => work'[u] = work[u]
           /\ \A u \in Threads : u # t => run'[u] = run[u]
           /\ run'[t].ok
           /\ \/ work'[t] = NoWork
              \/ /\ Len(work[t].steps) > 1
                 /\ work'[t].mails = work[t].mails /\ work'[t].steps = Tail(work[t].steps)
              \/ /\ Len(work[t].mails) > 1
                 /\ work'[t].mails = Tail(work[t].mails) /\ work'[t].steps = RulesOf(t)
PROOF
<1> DEFINE w == work[t]
           rest == CASE NextRule(t, fired) -> [w EXCEPT !.steps = Tail(@)]
                     [] ~NextRule(t, fired) /\ Len(w.mails) > 1 ->
                          [mails |-> Tail(w.mails), steps |-> IF t = Sweep THEN TimeRules ELSE Rules]
                     [] OTHER -> NoWork
           q == Resting("look")
           r == IF rest = NoWork THEN Resting("idle")
                ELSE [q EXCEPT !.fired = IF NextRule(t, fired) THEN fired ELSE 0]
<1>1. work' = [work EXCEPT ![t] = rest] /\ run' = [run EXCEPT ![t] = r]
  BY DEF Pop
<1>2. /\ w \in Work /\ t \in Threads
      /\ work \in [Evaluators -> Work] /\ run \in [Threads -> Run]
  BY ThreadNames DEF ThreadInv, ThreadsOK
<1>3. r.ok
  <2>1. q.ok /\ Resting("idle").ok /\ q \in Run
    BY RestingFacts DEF Resting
  <2> HIDE DEF q
  <2> QED
    BY <2>1 DEF Run
<1>4. \/ rest = NoWork
      \/ Len(w.steps) > 1 /\ rest.mails = w.mails /\ rest.steps = Tail(w.steps)
      \/ Len(w.mails) > 1 /\ rest.mails = Tail(w.mails) /\ rest.steps = RulesOf(t)
  <2>1. CASE NextRule(t, fired)
    <3>1. rest = [w EXCEPT !.steps = Tail(w.steps)] /\ Len(w.steps) > 1
      BY <2>1 DEF NextRule
    <3> HIDE DEF rest, w
    <3>2. rest.mails = w.mails /\ rest.steps = Tail(w.steps)
      BY <1>2, <3>1 DEF Work
    <3> QED
      BY <3>1, <3>2
  <2>2. CASE ~NextRule(t, fired) /\ Len(w.mails) > 1
    <3>1. rest = [mails |-> Tail(w.mails), steps |-> RulesOf(t)]
      BY <2>2 DEF RulesOf
    <3> HIDE DEF rest, w
    <3> QED
      BY <2>2, <3>1
  <2>3. CASE ~NextRule(t, fired) /\ ~(Len(w.mails) > 1)
    BY <2>3
  <2> QED
    BY <2>1, <2>2, <2>3
<1> HIDE DEF rest, r
<1>5. work'[t] = rest /\ run'[t] = r
  BY <1>1, <1>2
<1> QED
  BY <1>1, <1>2, <1>3, <1>4, <1>5

\* The sweep does not come again to where it has been.
LEMMA PopPast ==
    ASSUME ThreadInv, SweepLists, NEW fired, Pop(Sweep, fired), run[Sweep].pc # "idle",
           NEW p, NEW x \in Places(p), Past(x)
    PROVE  Past(x)'
PROOF
<1> DEFINE m == work[Sweep].mails
           s == work[Sweep].steps
           m2 == work'[Sweep].mails
           s2 == work'[Sweep].steps
<1>1. m \in Seq(Emails) /\ s \in Seq(Steps) /\ Sweep \in Evaluators
  BY ThreadNames DEF ThreadInv, ThreadsOK, Work
<1>2. /\ x[1] \in 1..Len(Inbox) /\ x[2] \in 1..Len(TimeRules)
      /\ Len(Inbox) \in Nat /\ Len(TimeRules) \in Nat
  BY PlacesFinite
<1>3. \/ m2 = <<>> /\ s2 = <<>>
      \/ Len(s) > 1 /\ m2 = m /\ s2 = Tail(s)
      \/ Len(m) > 1 /\ m2 = Tail(m) /\ s2 = TimeRules
  BY <1>1, PopWork, NoWorkFacts DEF RulesOf
<1>4. Len(m) <= Len(Inbox) /\ Len(s) <= Len(TimeRules)
  BY DEF SweepLists, EndOf
<1>5. /\ HereMail = Len(Inbox) - Len(m) + 1 /\ HereStep = Len(TimeRules) - Len(s) + 1
      /\ HereMail' = Len(Inbox) - Len(m2) + 1 /\ HereStep' = Len(TimeRules) - Len(s2) + 1
  BY DEF HereMail, HereStep
<1>6. /\ Len(m) \in Nat /\ Len(s) \in Nat /\ HereMail \in Int /\ HereStep \in Int
      /\ x[1] \in Int /\ x[2] \in Int
  <2> HIDE DEF m, s, m2, s2
  <2>1. Len(m) \in Nat /\ Len(s) \in Nat
    BY <1>1
  <2> QED
    BY <1>2, <1>5, <2>1
<1>7. \/ x[1] < HereMail
      \/ x[1] = HereMail /\ x[2] <= HereStep
  BY <1>6 DEF Past
<1> SUFFICES \/ x[1] < HereMail'
             \/ x[1] = HereMail' /\ x[2] < HereStep'
  BY DEF Past
<1> HIDE DEF m, s, m2, s2
<1>8. CASE m2 = <<>> /\ s2 = <<>>
  <2>1. Len(m2) = 0
    BY <1>8
  <2> QED
    BY <1>2, <1>5, <2>1
<1>9. CASE Len(s) > 1 /\ m2 = m /\ s2 = Tail(s)
  <2>1. Len(s2) = Len(s) - 1 /\ Len(m2) = Len(m)
    BY <1>1, <1>9
  <2>2. HereMail' = HereMail /\ HereStep' = HereStep + 1
    BY <1>2, <1>5, <1>6, <2>1
  <2> QED
    BY <1>6, <1>7, <2>2
<1>10. CASE Len(m) > 1 /\ m2 = Tail(m) /\ s2 = TimeRules
  <2>1. Len(m2) = Len(m) - 1
    BY <1>1, <1>10
  <2>2. HereMail' = HereMail + 1
    BY <1>2, <1>5, <1>6, <2>1
  <2> QED
    BY <1>6, <1>7, <2>2
<1> QED
  BY <1>3, <1>8, <1>9, <1>10

\* Threads other than the one that takes a step go on as they were.
LEMMA SweepListsNext ==
    ASSUME Inv, SweepLists, [Next]_vars
    PROVE  SweepLists'
PROOF
<1>0. /\ ThreadInv /\ Sweep \in Evaluators /\ Sweep \in Threads /\ work \in [Evaluators -> Work]
      /\ Inbox \in Seq(Emails) /\ TimeRules \in Seq(Steps)
  BY ThreadNames, QuickAssumption DEF Inv, ThreadInv, ThreadsOK
<1>1. CASE work'[Sweep] = work[Sweep]
  BY <1>1 DEF SweepLists
<1>2. ASSUME NEW fired, Pop(Sweep, fired), run[Sweep].pc # "idle" PROVE SweepLists'
  <2> DEFINE m == work[Sweep].mails
             s == work[Sweep].steps
             m2 == work'[Sweep].mails
             s2 == work'[Sweep].steps
  <2>1. m \in Seq(Emails) /\ s \in Seq(Steps) /\ EndOf(m, Inbox) /\ EndOf(s, TimeRules)
    BY <1>0 DEF Work, SweepLists
  <2>2. \/ m2 = <<>> /\ s2 = <<>>
        \/ Len(s) > 1 /\ m2 = m /\ s2 = Tail(s)
        \/ Len(m) > 1 /\ m2 = Tail(m) /\ s2 = TimeRules
    BY <1>0, <1>2, PopWork, NoWorkFacts DEF RulesOf
  <2> SUFFICES EndOf(m2, Inbox) /\ EndOf(s2, TimeRules)
    BY DEF SweepLists
  <2> HIDE DEF m, s, m2, s2
  <2> QED
    BY <1>0, <2>1, <2>2, EndOfFacts
<1>3. CASE BeginSweep
  <2>1. work'[Sweep] = [mails |-> Inbox, steps |-> TimeRules]
    BY <1>0, <1>3 DEF BeginSweep
  <2>2. work'[Sweep].mails = Inbox /\ work'[Sweep].steps = TimeRules
    BY <2>1
  <2> QED
    BY <1>0, <2>2, EndOfFacts DEF SweepLists
<1>4. CASE Crash
  <2>1. work'[Sweep] = NoWork
    BY <1>0, <1>4 DEF Crash
  <2> QED
    BY <1>0, <2>1, NoWorkFacts, EndOfFacts DEF SweepLists
<1>5. ASSUME NEW t \in Evaluators, Skip(t) \/ Record(t) PROVE SweepLists'
  <2>1. PICK fired : Pop(t, fired) /\ run[t].pc # "idle"
    BY <1>5 DEF Skip, Record
  <2>2. CASE t = Sweep
    BY <1>2, <2>1, <2>2
  <2>3. CASE t # Sweep
    BY <1>0, <1>1, <2>1, <2>3, PopWork
  <2> QED
    BY <2>2, <2>3
<1>6. ASSUME NEW t \in Threads, Fire(t) \/ Act(t) \/ Fail(t) \/ Call(t) \/ Answer(t)
      PROVE  SweepLists'
  BY <1>1, <1>6 DEF Fire, Act, Fail, Call, Answer
<1>7. ASSUME NEW t \in Evals, NEW e \in Emails, BeginEval(t, e) PROVE SweepLists'
  <2>1. t # Sweep
    BY QuickAssumption
  <2> QED
    BY <1>0, <1>1, <1>7, <2>1 DEF BeginEval
<1>8. CASE (\E e \in Emails : Change(e)) \/ (\E k \in Keys : Expire(k)) \/ UNCHANGED vars
  BY <1>1, <1>8 DEF Change, Expire, vars
<1>9. ASSUME NEW t \in Threads, Step(t) PROVE SweepLists'
  BY <1>5, <1>6, <1>9 DEF Step
<1> QED
  BY <1>3, <1>4, <1>7, <1>8, <1>9 DEF Next

\* A thread runs the pair it has in hand to the end.
LEMMA InHandNext ==
    ASSUME Inv, InHand, [Next]_vars
    PROVE  InHand'
PROOF
<1>0. /\ ThreadInv /\ work \in [Evaluators -> Work] /\ run \in [Threads -> Run]
      /\ \A t \in Evaluators : t \in Threads /\ t \notin Calls
  BY ThreadNames DEF Inv, ThreadInv, ThreadsOK
<1> SUFFICES ASSUME NEW t \in Evaluators PROVE InHandOf(t)'
  BY DEF InHand
<1> DEFINE q == run[t]
           q2 == run'[t]
<1>1. CASE q2 = q /\ work'[t] = work[t]
  BY <1>1 DEF InHand, InHandOf, Current
<1>2. CASE q2.ok /\ q2.pc \in {"look", "idle"}
  BY <1>2 DEF InHandOf
<1>3. CASE BeginSweep \/ \E u \in Evals, e \in Emails : BeginEval(u, e)
  <2>1. (q2 = q /\ work'[t] = work[t]) \/ q2 = Resting("look")
    BY <1>0, <1>3 DEF BeginSweep, BeginEval
  <2>2. Resting("look").ok /\ Resting("look").pc = "look"
    BY DEF Resting
  <2> QED
    BY <1>1, <1>2, <2>1, <2>2
<1>4. CASE Crash
  <2>1. q2 = Resting("idle")
    BY <1>0, <1>4 DEF Crash
  <2>2. Resting("idle").ok /\ Resting("idle").pc = "idle"
    BY DEF Resting
  <2> QED
    BY <1>2, <2>1, <2>2
<1>5. ASSUME NEW u \in Evaluators, Skip(u) \/ Record(u) PROVE InHandOf(t)'
  <2>1. PICK fired \in Nat : Pop(u, fired) /\ run[u].pc # "idle"
    <3>1. run[u].fired \in Nat /\ run[u].fired + 1 \in Nat
      BY <1>0 DEF Run
    <3> QED
      BY <1>5, <3>1 DEF Skip, Record
  <2>2. CASE u # t
    BY <1>0, <1>1, <2>1, <2>2, PopWork
  <2>3. CASE u = t
    <3>1. PICK r \in Run : r.pc \in {"look", "idle"} /\ run' = [run EXCEPT ![t] = r]
      BY <1>0, <2>1, <2>3, PopKeeps
    <3>2. q2 = r /\ q2.ok
      BY <1>0, <2>1, <2>3, <3>1, PopWork
    <3> QED
      BY <1>2, <3>1, <3>2
  <2> QED
    BY <2>2, <2>3
<1>6. ASSUME NEW u \in Evaluators, Fire(u) PROVE InHandOf(t)'
  <2> DEFINE c == Current(t)
  <2>1. CASE u # t
    BY <1>0, <1>1, <1>6, <2>1 DEF Fire
  <2>2. CASE u = t
    <3>1. q2 = [q EXCEPT !.pc = "chain", !.pair = c] /\ UNCHANGED work /\ q \in Run
      BY <1>0, <1>6, <2>2 DEF Fire
    <3>2. Current(t)' = c
      BY <3>1 DEF Current
    <3> HIDE DEF q, q2, c
    <3>3. q2.pc = "chain" /\ q2.pair = c
      BY <3>1 DEF Run
    <3> QED
      BY <3>2, <3>3 DEF q2, InHandOf
  <2> QED
    BY <2>1, <2>2
<1>7. ASSUME NEW u \in Threads, Act(u) \/ Fail(u) PROVE InHandOf(t)'
  <2>1. CASE u # t
    BY <1>0, <1>1, <1>7, <2>1 DEF Act, Fail
  <2>2. CASE u = t
    <3> DEFINE len == Len(Chain(t))
    <3>1. /\ UNCHANGED work /\ q \in Run /\ q.pc = "chain"
          /\ \/ q2 = [q EXCEPT !.pos = @ + 1, !.did = @ \cup {q.pos},
                               !.pc = IF q.pos = len THEN "record" ELSE "chain"]
             \/ q2 = [q EXCEPT !.pc = "record", !.ok = FALSE]
      BY <1>0, <1>7, <2>2 DEF Act, Fail
    <3>2. Current(t)' = Current(t) /\ q.pair = Current(t)
      BY <3>1 DEF Current, InHand, InHandOf
    <3> HIDE DEF q, q2, len
    <3>3. q2.pc \in {"chain", "record"} /\ q2.pair = q.pair
      BY <3>1 DEF Run
    <3> QED
      BY <3>2, <3>3 DEF q2, InHandOf
  <2> QED
    BY <2>1, <2>2
<1>8. ASSUME NEW c \in Calls, Call(c) \/ Answer(c) PROVE InHandOf(t)'
  <2>1. c # t /\ c \in Threads
    BY <1>0, <1>8, ThreadNames
  <2> QED
    BY <1>0, <1>1, <1>8, <2>1 DEF Call, Answer
<1>9. CASE (\E e \in Emails : Change(e)) \/ (\E k \in Keys : Expire(k)) \/ UNCHANGED vars
  BY <1>1, <1>9 DEF Change, Expire, vars
<1>10. ASSUME NEW u \in Threads, Step(u) PROVE InHandOf(t)'
  <2>1. u \notin Evaluators => ~(Fire(u) /\ u \in Evaluators)
    OBVIOUS
  <2> QED
    BY <1>5, <1>6, <1>7, <1>8, <1>10 DEF Step
<1> QED
  BY <1>3, <1>4, <1>9, <1>10 DEF Next

-----------------------------------------------------------------------------
(* Who is blocked. *)

\* The log only grows.
LEMMA LogGrows == [Next]_vars => audited \subseteq audited'
PROOF
<1>1. ASSUME NEW t \in Threads, Step(t) PROVE audited \subseteq audited'
  BY <1>1 DEF Step, Skip, Fire, Record, Act, Fail, Call, Answer, dedupVars
<1>2. UNCHANGED vars => UNCHANGED audited
  BY DEF vars, dedupVars
<1> QED
  BY <1>1, <1>2 DEF Next, Change, BeginEval, BeginSweep, Expire, Crash, dedupVars

\* A chain goes on to its row, unless something goes wrong.
LEMMA RunsOn ==
    ASSUME Inv, [Next]_vars, mishaps' = mishaps,
           NEW p \in Pairs, NEW t \in Evaluators, Runs(t, p)
    PROVE  Runs(t, p)' \/ p \in audited'
PROOF
<1>0. /\ ThreadInv /\ t \in Threads /\ t \notin Calls /\ run \in [Threads -> Run]
      /\ mishaps \in Nat
  BY ThreadNames DEF Inv, RowInv, ThreadInv, ThreadsOK, CountsOK
<1> DEFINE q == run[t]
           q2 == run'[t]
<1>1. q.pc \in {"chain", "record"} /\ q.ok /\ q.pair = p
  BY DEF Runs
<1>2. ~Mishap
  BY <1>0 DEF Mishap
<1>3. CASE Record(t)
  BY <1>1, <1>2, <1>3 DEF Record
<1>4. CASE q2 = q
  BY <1>1, <1>4 DEF Runs
<1>5. CASE Act(t)
  <2> DEFINE len == Len(Chain(t))
  <2>1. q2 = [q EXCEPT !.pos = @ + 1, !.did = @ \cup {q.pos},
                       !.pc = IF q.pos = len THEN "record" ELSE "chain"]
        /\ q \in Run
    BY <1>0, <1>5 DEF Act
  <2> HIDE DEF q, q2, len
  <2>2. q2.pc \in {"chain", "record"} /\ q2.pair = q.pair /\ q2.ok = q.ok
    BY <2>1 DEF Run
  <2> QED
    BY <1>1, <2>2 DEF q2, Runs
<1>6. ASSUME NEW u \in Threads, Step(u) PROVE Runs(t, p)' \/ p \in audited'
  <2>1. CASE u # t
    <3>1. q2 = q
      BY <1>0, <1>6, <2>1, OneThread
    <3> QED
      BY <1>4, <3>1
  <2>2. CASE u = t
    BY <1>0, <1>1, <1>2, <1>3, <1>5, <1>6, <2>2 DEF Step, Skip, Fire, Fail
  <2> QED
    BY <2>1, <2>2
<1>7. CASE BeginSweep \/ \E u \in Evals, e \in Emails : BeginEval(u, e)
  <2>1. q2 = q
    BY <1>0, <1>1, <1>7 DEF BeginSweep, BeginEval
  <2> QED
    BY <1>4, <2>1
<1>8. CASE (\E e \in Emails : Change(e)) \/ (\E k \in Keys : Expire(k)) \/ UNCHANGED vars
  <2>1. q2 = q
    BY <1>8 DEF Change, Expire, vars
  <2> QED
    BY <1>4, <2>1
<1> QED
  BY <1>2, <1>6, <1>7, <1>8 DEF Next, Crash

\* Who is blocked stays so, unless something goes wrong.
LEMMA BlockedStays ==
    ASSUME Inv, [Next]_vars, mishaps' = mishaps,
           NEW p \in Pairs, NEW t \in Evals, Blocked(t, p)
    PROVE  Blocked(t, p)'
PROOF
<1>1. t \in Evaluators
  BY DEF Evaluators
<1>2. p \in audited => p \in audited'
  BY LogGrows
<1> QED
  BY <1>1, <1>2, RunsOn DEF Blocked

\* What becomes of the sweep's place and its batch, unless something goes wrong.
LEMMA SweepMoves ==
    ASSUME Inv, SweepLists, [Next]_vars, mishaps' = mishaps, NEW p \in Pairs, NEW x \in Places(p)
    PROVE  \/ UNCHANGED <<known, batched>> /\ (Past(x) => Past(x)')
           \/ ~batched' /\ Past(x)'
           \/ BeginSweep /\ (~batched' \/ (p \in audited => p \in known'))
PROOF
<1>0. /\ ThreadInv /\ Sweep \in Evaluators /\ Sweep \in Threads /\ Sweep \notin Calls
      /\ work \in [Evaluators -> Work] /\ run \in [Threads -> Run] /\ mishaps \in Nat
  BY ThreadNames DEF Inv, RowInv, ThreadInv, ThreadsOK, CountsOK
<1> DEFINE A == UNCHANGED <<known, batched>> /\ (Past(x) => Past(x)')
           B == ~batched' /\ Past(x)'
           C == BeginSweep /\ (~batched' \/ (p \in audited => p \in known'))
<1> SUFFICES A \/ B \/ C
  OBVIOUS
<1>1. CASE BeginSweep
  <2>1. known' = audited \cap TimePairs \/ ~batched'
    BY <1>1 DEF BeginSweep
  <2>2. p \in TimePairs
    <3>1. PICK j \in DOMAIN Inbox, i \in DOMAIN TimeRules : Inbox[j] = p[2] /\ TimeRules[i] = p[1]
      BY DEF Places
    <3>2. p = <<p[1], p[2]>>
      BY DEF Pairs
    <3> QED
      BY <3>1, <3>2 DEF TimePairs
  <2> QED
    BY <1>1, <2>1, <2>2
<1>2. ASSUME Batch, Past(x) => Past(x)' PROVE A \/ B
  <2>1. CASE work'[Sweep] # NoWork
    BY <1>2, <2>1 DEF Batch
  <2>2. CASE work'[Sweep] = NoWork
    <3>1. HereMail' = Len(Inbox) - Len(work'[Sweep].mails) + 1 /\ Len(work'[Sweep].mails) = 0
      BY <2>2, NoWorkFacts DEF HereMail
    <3>2. x[1] \in 1..Len(Inbox) /\ Len(Inbox) \in Nat
      BY PlacesFinite
    <3>3. x[1] < HereMail'
      BY <3>1, <3>2
    <3>4. Past(x)'
      BY <3>3 DEF Past
    <3> QED
      BY <1>2, <2>2, <3>4 DEF Batch
  <2> QED
    BY <2>1, <2>2
<1>3. ASSUME work'[Sweep] = work[Sweep], run[Sweep].pc # "look" => run'[Sweep].pc # "look"
      PROVE  Past(x) => Past(x)'
  BY <1>3 DEF Past, HereMail, HereStep
<1>4. ASSUME NEW t \in Evaluators, Skip(t) \/ Record(t) PROVE A \/ B
  <2>1. PICK fired : Pop(t, fired) /\ run[t].pc # "idle" /\ Batch
    BY <1>4 DEF Skip, Record
  <2>2. CASE t = Sweep
    <3>1. Past(x) => Past(x)'
      BY <1>0, <2>1, <2>2, PopPast
    <3> QED
      BY <1>2, <2>1, <3>1
  <2>3. CASE t # Sweep
    <3>1. work'[Sweep] = work[Sweep] /\ run'[Sweep] = run[Sweep]
      BY <1>0, <2>1, <2>3, PopWork
    <3> QED
      BY <1>2, <1>3, <2>1, <3>1
  <2> QED
    BY <2>2, <2>3
<1>5. ASSUME NEW t \in Threads, Step(t),
             Fire(t) \/ Act(t) \/ Fail(t) \/ (t \in Calls /\ (Call(t) \/ Answer(t)))
      PROVE  A
  <2>1. UNCHANGED <<work, known, batched>>
    BY <1>5 DEF Fire, Act, Fail, Call, Answer, dedupVars
  <2>2. run[Sweep].pc # "look" => run'[Sweep].pc # "look"
    <3>1. CASE t # Sweep
      BY <1>0, <1>5, <3>1, OneThread
    <3>2. CASE t = Sweep
      <4> DEFINE q == run[Sweep]
                 q2 == run'[Sweep]
                 c == Current(Sweep)
                 len == Len(Chain(Sweep))
      <4>1. /\ q \in Run
            /\ \/ q2 = [q EXCEPT !.pc = "chain", !.pair = c]
               \/ q2 = [q EXCEPT !.pos = @ + 1, !.did = @ \cup {q.pos},
                                 !.pc = IF q.pos = len THEN "record" ELSE "chain"]
               \/ q2 = [q EXCEPT !.pc = "record", !.ok = FALSE]
        BY <1>0, <1>5, <3>2 DEF Fire, Act, Fail
      <4> HIDE DEF q, q2, c, len
      <4>2. q2.pc \in {"chain", "record"}
        BY <4>1 DEF Run
      <4> QED
        BY <4>2 DEF q2
    <3> QED
      BY <3>1, <3>2
  <2> QED
    BY <1>3, <2>1, <2>2
<1>6. ASSUME NEW t \in Evals, NEW e \in Emails, BeginEval(t, e) PROVE A
  <2>1. t # Sweep
    BY QuickAssumption
  <2>2. work'[Sweep] = work[Sweep] /\ run'[Sweep] = run[Sweep] /\ UNCHANGED <<known, batched>>
    BY <1>0, <1>6, <2>1 DEF BeginEval, dedupVars
  <2> QED
    BY <1>3, <2>2
<1>7. CASE (\E e \in Emails : Change(e)) \/ (\E k \in Keys : Expire(k)) \/ UNCHANGED vars
  <2>1. UNCHANGED <<work, run, known, batched>>
    BY <1>7 DEF Change, Expire, vars, dedupVars
  <2> QED
    BY <1>3, <2>1
<1>8. ~Crash
  <2>1. Mishap => mishaps' = mishaps + 1
    BY DEF Mishap
  <2> QED
    BY <1>0, <2>1 DEF Crash
<1>9. ASSUME NEW t \in Threads, Step(t) PROVE A \/ B
  BY <1>4, <1>5, <1>9 DEF Step
<1> QED
  BY <1>1, <1>6, <1>7, <1>8, <1>9 DEF Next

\* A place that is taken stays so, unless something goes wrong.
LEMMA TakenStays ==
    ASSUME Inv, SweepLists, [Next]_vars, mishaps' = mishaps,
           NEW p \in Pairs, NEW x \in Places(p), Taken(x, p)
    PROVE  Taken(x, p)'
PROOF
<1>0. Sweep \in Evaluators
  BY ThreadNames
<1>1. p \in audited => p \in audited'
  BY LogGrows
<1>2. Runs(Sweep, p) => Runs(Sweep, p)' \/ p \in audited'
  BY <1>0, RunsOn
<1>3. Runs(Sweep, p) => ~BeginSweep
  BY DEF Runs, BeginSweep
<1>4. \/ UNCHANGED <<known, batched>> /\ (Past(x) => Past(x)')
      \/ ~batched' /\ Past(x)'
      \/ BeginSweep /\ (~batched' \/ (p \in audited => p \in known'))
  BY SweepMoves
<1> QED
  BY <1>1, <1>2, <1>3, <1>4 DEF Taken

\* The threads and places are counted, and so are the blocked and taken ones.
LEMMA PaidFinite ==
    ASSUME NEW p
    PROVE  /\ IsFiniteSet(BlockedFor(p)) /\ IsFiniteSet(TakenFor(p))
           /\ Cardinality(BlockedFor(p)) \in Nat /\ Cardinality(TakenFor(p)) \in Nat
           /\ Paid(p) \in 0..PerMishap(p)
PROOF
<1>1. IsFiniteSet(Evals) /\ IsFiniteSet(Places(p))
  BY QuickAssumption, PlacesFinite
<1>2. BlockedFor(p) \in SUBSET Evals /\ TakenFor(p) \in SUBSET Places(p)
  BY DEF BlockedFor, TakenFor
<1>3. /\ IsFiniteSet(BlockedFor(p)) /\ Cardinality(BlockedFor(p)) <= Cardinality(Evals)
      /\ IsFiniteSet(TakenFor(p)) /\ Cardinality(TakenFor(p)) <= Cardinality(Places(p))
      /\ Cardinality(BlockedFor(p)) \in Nat /\ Cardinality(TakenFor(p)) \in Nat
      /\ Cardinality(Evals) \in Nat /\ Cardinality(Places(p)) \in Nat
  BY <1>1, <1>2, FS_Subset, FS_CardinalityType
<1> QED
  BY <1>3 DEF Paid, PerMishap

\* The same after a step.
LEMMA PaidFiniteNext ==
    ASSUME NEW p
    PROVE  /\ IsFiniteSet(BlockedFor(p)') /\ IsFiniteSet(TakenFor(p)')
           /\ Cardinality(BlockedFor(p)') \in Nat /\ Cardinality(TakenFor(p)') \in Nat
           /\ Paid(p)' \in 0..PerMishap(p)
           /\ Paid(p)' = Cardinality(BlockedFor(p)') + Cardinality(TakenFor(p)')
PROOF
<1>1. IsFiniteSet(Evals) /\ IsFiniteSet(Places(p))
  BY QuickAssumption, PlacesFinite
<1>2. BlockedFor(p)' \in SUBSET Evals /\ TakenFor(p)' \in SUBSET Places(p)
  BY DEF BlockedFor, TakenFor, Places
<1>3. /\ IsFiniteSet(BlockedFor(p)') /\ Cardinality(BlockedFor(p)') <= Cardinality(Evals)
      /\ IsFiniteSet(TakenFor(p)') /\ Cardinality(TakenFor(p)') <= Cardinality(Places(p))
      /\ Cardinality(BlockedFor(p)') \in Nat /\ Cardinality(TakenFor(p)') \in Nat
      /\ Cardinality(Evals) \in Nat /\ Cardinality(Places(p)) \in Nat
  BY <1>1, <1>2, FS_Subset, FS_CardinalityType
<1>4. Paid(p)' = Cardinality(BlockedFor(p)') + Cardinality(TakenFor(p)')
  BY DEF Paid
<1> QED
  BY <1>3, <1>4 DEF PerMishap

\* A pair begins only in Fire, and takes a thread or a place with it, which was not taken
\* before if nothing goes wrong.
LEMMA Begins ==
    ASSUME Inv, SweepLists, InHand, [Next]_vars, NEW p \in Pairs, ran'[p] # ran[p]
    PROVE  /\ ran[p] \in Nat /\ ran'[p] = ran[p] + 1
           /\ \/ \E t \in BlockedFor(p)' : mishaps' = mishaps => t \notin BlockedFor(p)
              \/ \E x \in TakenFor(p)' : mishaps' = mishaps => x \notin TakenFor(p)
PROOF
<1>0. /\ ThreadInv /\ run \in [Threads -> Run] /\ ran \in [Pairs -> Nat]
      /\ mishaps \in Nat /\ work \in [Evaluators -> Work]
  BY DEF Inv, RowInv, ThreadInv, ThreadsOK, CountsOK, RunsOK
<1>1. PICK t \in Evaluators : Fire(t)
  <2>1. ASSUME NEW t \in Threads, Step(t) PROVE \E u \in Evaluators : Fire(u)
    BY <2>1 DEF Step, Skip, Record, Act, Fail, Call, Answer
  <2>2. ~(UNCHANGED vars)
    BY DEF vars
  <2> QED
    BY <2>1, <2>2 DEF Next, Change, BeginEval, BeginSweep, Expire, Crash
<1> DEFINE c == Current(t)
           q == run[t]
           q2 == run'[t]
<1>2. /\ run[t].pc = "look" /\ q \in Run /\ q.ok /\ t \in Threads
      /\ (~HasFired(t, c) /\ NoMishap) \/ Mishap
      /\ q2 = [q EXCEPT !.pc = "chain", !.pair = c]
      /\ ran' = [ran EXCEPT ![c] = IF @ < MaxRan(c) THEN @ + 1 ELSE @]
      /\ UNCHANGED <<work, known, batched, audited>>
  BY <1>0, <1>1, ThreadNames DEF Fire, InHand, InHandOf, dedupVars
<1>3. p = c /\ ran[p] \in Nat /\ ran'[p] = ran[p] + 1
  BY <1>0, <1>2
<1>4. q2.pc = "chain" /\ q2.ok /\ q2.pair = c
  <2> HIDE DEF q, q2, c
  <2> QED
    BY <1>2 DEF Run
<1>5. Runs(t, p)' /\ ~Runs(t, p)
  BY <1>2, <1>3, <1>4 DEF Runs
<1>6. mishaps' = mishaps => ~HasFired(t, p)
  BY <1>0, <1>2, <1>3 DEF Mishap
<1>7. CASE t \in Evals
  <2>1. t # Sweep
    BY <1>7, QuickAssumption
  <2>2. t \in BlockedFor(p)'
    BY <1>5, <1>7 DEF BlockedFor, Blocked
  <2>3. mishaps' = mishaps => t \notin BlockedFor(p)
    BY <1>5, <1>6, <2>1 DEF BlockedFor, Blocked, HasFired
  <2> QED
    BY <1>3, <2>2, <2>3
<1>8. CASE t = Sweep
  <2> DEFINE x == <<HereMail, HereStep>>
             m == work[t].mails
             s == work[t].steps
  <2>1. x \in Places(p)
    <3>1. m \in Seq(Emails) /\ s \in Seq(Steps) /\ m # <<>> /\ s # <<>>
      BY <1>0, <1>2 DEF ThreadInv, ThreadsOK, Work
    <3>2. EndOf(m, Inbox) /\ EndOf(s, TimeRules)
      BY <1>8 DEF SweepLists
    <3>3. HereMail = Len(Inbox) - Len(m) + 1 /\ HereStep = Len(TimeRules) - Len(s) + 1
      BY <1>8 DEF HereMail, HereStep
    <3>4. p = <<Head(s), Head(m)>>
      BY <1>3 DEF Current
    <3> HIDE DEF m, s
    <3>5. /\ Len(m) \in Nat \ {0} /\ Len(s) \in Nat \ {0} /\ Head(m) = m[1] /\ Head(s) = s[1]
          /\ 1 \in DOMAIN m /\ 1 \in DOMAIN s
      BY <3>1
    <3>6. /\ Len(Inbox) \in Nat /\ DOMAIN Inbox = 1..Len(Inbox)
          /\ Len(TimeRules) \in Nat /\ DOMAIN TimeRules = 1..Len(TimeRules)
      BY QuickAssumption
    <3>7. /\ m[1] = Inbox[1 + Len(Inbox) - Len(m)] /\ Len(m) <= Len(Inbox)
          /\ s[1] = TimeRules[1 + Len(TimeRules) - Len(s)] /\ Len(s) <= Len(TimeRules)
      BY <3>2, <3>5 DEF EndOf
    <3>8. /\ HereMail = 1 + Len(Inbox) - Len(m) /\ HereMail \in DOMAIN Inbox
          /\ HereStep = 1 + Len(TimeRules) - Len(s) /\ HereStep \in DOMAIN TimeRules
      BY <3>3, <3>5, <3>6, <3>7
    <3>9. Inbox[HereMail] = p[2] /\ TimeRules[HereStep] = p[1]
      BY <3>4, <3>5, <3>7, <3>8
    <3> QED
      BY <3>8, <3>9 DEF Places
  <2>2. PICK y \in Places(p) : y = x
    BY <2>1
  <2>3. /\ y[1] = HereMail /\ y[2] = HereStep
        /\ HereMail' = HereMail /\ HereStep' = HereStep
    BY <1>2, <2>2 DEF HereMail, HereStep
  <2>4. y[1] \in Int /\ y[2] \in Int
    BY PlacesFinite
  <2> HIDE DEF x
  <2>5. Past(y)' /\ ~Past(y)
    <3>1. run[Sweep].pc = "look" /\ run'[Sweep].pc = "chain"
      BY <1>2, <1>4, <1>8
    <3>2. Past(y)'
      BY <2>3, <3>1 DEF Past
    <3>3. ~Past(y)
      BY <2>3, <2>4, <3>1 DEF Past
    <3> QED
      BY <3>2, <3>3
  <2>6. y \in TakenFor(p)'
    BY <1>5, <1>8, <2>5 DEF TakenFor, Taken, Places
  <2>7. mishaps' = mishaps => y \notin TakenFor(p)
    BY <1>6, <1>8, <2>5 DEF TakenFor, Taken, HasFired
  <2> QED
    BY <1>3, <2>6, <2>7
<1> QED
  BY <1>7, <1>8 DEF Evaluators

\* A run without a mishap takes one more thread or place; a mishap pays for all of them.
LEMMA CountedNext ==
    ASSUME Inv, CountInv, [Next]_vars
    PROVE  Counted'
PROOF
<1> SUFFICES ASSUME NEW p \in Pairs
             PROVE  ran'[p] <= PerMishap(p) * mishaps' + Paid(p)'
  BY DEF Counted, PerMishap, Places
<1> DEFINE K == PerMishap(p)
           B == BlockedFor(p)
           T == TakenFor(p)
           B2 == BlockedFor(p)'
           T2 == TakenFor(p)'
           a == Paid(p)
           b == Paid(p)'
<1>1. /\ K \in Nat /\ a \in 0..K /\ b \in 0..K
      /\ IsFiniteSet(B) /\ IsFiniteSet(T) /\ IsFiniteSet(B2) /\ IsFiniteSet(T2)
      /\ Cardinality(B) \in Nat /\ Cardinality(T) \in Nat
      /\ Cardinality(B2) \in Nat /\ Cardinality(T2) \in Nat
      /\ a = Cardinality(B) + Cardinality(T) /\ b = Cardinality(B2) + Cardinality(T2)
  BY PaidFinite, PaidFiniteNext, PerMishapType DEF Paid
<1>2. /\ mishaps \in Nat /\ ran[p] \in Nat /\ ran[p] <= K * mishaps + a
      /\ mishaps' = mishaps \/ mishaps' = mishaps + 1
  <2>1. mishaps' = mishaps \/ mishaps' = mishaps + 1
    <3>1. ASSUME NEW t \in Threads, Step(t) PROVE mishaps' = mishaps \/ mishaps' = mishaps + 1
      BY <3>1 DEF Step, Skip, Fire, Record, Act, Fail, Call, Answer, Mishap, NoMishap
    <3>2. UNCHANGED vars => UNCHANGED mishaps
      BY DEF vars
    <3> QED
      BY <3>1, <3>2 DEF Next, Change, BeginEval, BeginSweep, Expire, Crash, Mishap, NoMishap
  <2>2. ran \in [Pairs -> Nat] /\ mishaps \in Nat
    BY DEF Inv, RowInv, CountsOK, RunsOK
  <2> QED
    BY <2>1, <2>2 DEF CountInv, Counted
<1>3. \/ ran'[p] = ran[p]
      \/ /\ ran'[p] = ran[p] + 1
         /\ \/ \E t \in B2 : mishaps' = mishaps => t \notin B
            \/ \E x \in T2 : mishaps' = mishaps => x \notin T
  BY Begins DEF CountInv
<1>4. CASE mishaps' = mishaps
  <2>1. B \in SUBSET B2 /\ T \in SUBSET T2
    <3>1. ASSUME NEW t \in B PROVE t \in B2
      BY <1>4, <3>1, BlockedStays DEF BlockedFor
    <3>2. ASSUME NEW x \in T PROVE x \in T2
      BY <1>4, <3>2, TakenStays DEF CountInv, TakenFor, Places
    <3> QED
      BY <3>1, <3>2
  <2> HIDE DEF a, b, K, B, T, B2, T2
  <2>2. Cardinality(B) <= Cardinality(B2) /\ Cardinality(T) <= Cardinality(T2)
    BY <1>1, <2>1, FS_Subset
  <2>3. \/ ran'[p] = ran[p]
        \/ ran'[p] = ran[p] + 1 /\ (Cardinality(B) + 1 <= Cardinality(B2) \/ Cardinality(T) + 1 <= Cardinality(T2))
    <3>1. ASSUME NEW t \in B2, t \notin B PROVE Cardinality(B) + 1 <= Cardinality(B2)
      <4>1. B \cup {t} \in SUBSET B2
        BY <2>1, <3>1
      <4>2. Cardinality(B \cup {t}) = Cardinality(B) + 1
        BY <1>1, <3>1, FS_AddElement
      <4> QED
        BY <1>1, <4>1, <4>2, FS_Subset
    <3>2. ASSUME NEW x \in T2, x \notin T PROVE Cardinality(T) + 1 <= Cardinality(T2)
      <4>1. T \cup {x} \in SUBSET T2
        BY <2>1, <3>2
      <4>2. Cardinality(T \cup {x}) = Cardinality(T) + 1
        BY <1>1, <3>2, FS_AddElement
      <4> QED
        BY <1>1, <4>1, <4>2, FS_Subset
    <3> QED
      BY <1>3, <1>4, <3>1, <3>2
  <2>4. K * mishaps \in Nat
    BY <1>1, <1>2
  <2>5. ran'[p] <= K * mishaps' + b
    BY <1>1, <1>2, <1>4, <2>2, <2>3, <2>4
  <2> QED
    BY <2>5 DEF b, K
<1>5. CASE mishaps' = mishaps + 1
  <2>1. ran'[p] = ran[p] \/ (ran'[p] = ran[p] + 1 /\ b >= 1)
    <3>1. B2 # {} => Cardinality(B2) # 0
      BY <1>1, FS_EmptySet
    <3>2. T2 # {} => Cardinality(T2) # 0
      BY <1>1, FS_EmptySet
    <3>3. B2 # {} \/ T2 # {} => b >= 1
      BY <1>1, <3>1, <3>2
    <3> QED
      BY <1>3, <3>3
  <2> HIDE DEF a, b, K
  <2>2. K * mishaps \in Nat /\ K * (mishaps + 1) = K * mishaps + K
    BY <1>1, <1>2
  <2>3. ran'[p] <= K * mishaps' + b
    BY <1>1, <1>2, <1>5, <2>1, <2>2
  <2> QED
    BY <2>3 DEF b, K
<1> QED
  BY <1>2, <1>4, <1>5

\* Nothing has run.
LEMMA CountInit == Init => CountInv
PROOF
<1> SUFFICES ASSUME Init PROVE CountInv
  OBVIOUS
<1>1. /\ work[Sweep] = NoWork /\ mishaps = 0 /\ \A p \in Pairs : ran[p] = 0
      /\ \A t \in Evaluators : run[t] = Resting("idle")
  BY ThreadNames DEF Init
<1>2. SweepLists
  <2>1. Inbox \in Seq(Emails) /\ TimeRules \in Seq(Steps)
    BY QuickAssumption
  <2> QED
    BY <1>1, <2>1, NoWorkFacts, EndOfFacts DEF SweepLists
<1>3. InHand
  BY <1>1, RestingFacts DEF InHand, InHandOf
<1>4. Counted
  <2>1. ASSUME NEW p \in Pairs PROVE ran[p] <= PerMishap(p) * mishaps + Paid(p)
    <3>1. PerMishap(p) * 0 \in Nat /\ PerMishap(p) \in Nat /\ Paid(p) \in 0..PerMishap(p)
      BY PaidFinite, PerMishapType
    <3> QED
      BY <1>1, <3>1
  <2> QED
    BY <2>1 DEF Counted
<1> QED
  BY <1>2, <1>3, <1>4 DEF CountInv

\* The blocked threads and the taken places pay for every run of a rule but those that
\* mishaps pay for, whatever the lists are.
THEOREM CountInvariant == Spec => []CountInv
PROOF
<1>1. Inv /\ CountInv /\ [Next]_vars => CountInv'
  BY SweepListsNext, InHandNext, CountedNext DEF CountInv
<1> QED
  BY <1>1, CountInit, QuickInvariant, PTL DEF Spec

\* A rule runs on a mail at most once for each evaluation thread and each place it has in
\* the sweep's list, as often as something goes wrong.
THEOREM RerunsCorrect == Spec => []RerunsBounded
PROOF
<1>1. Inv /\ CountInv => RerunsBounded
  <2> SUFFICES ASSUME Inv, CountInv, NEW p \in Pairs PROVE ran[p] <= Reruns(p, mishaps)
    BY DEF RerunsBounded
  <2> DEFINE K == PerMishap(p)
             n == K * mishaps
             a == Paid(p)
             b == Reruns(p, mishaps)
  <2>1. ran[p] \in Nat /\ mishaps \in Nat /\ ran[p] <= n + a
    BY DEF Inv, RowInv, CountsOK, RunsOK, CountInv, Counted
  <2>2. K \in Nat /\ n \in Nat /\ a \in 0..K /\ b = n + K
    BY <2>1, PaidFinite, PerMishapType
  <2> HIDE DEF K, a, b, n
  <2> QED
    BY <2>1, <2>2 DEF b
<1> QED
  BY <1>1, QuickInvariant, CountInvariant, PTL
=============================================================================
