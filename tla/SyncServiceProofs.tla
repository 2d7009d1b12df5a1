------------------------- MODULE SyncServiceProofs -------------------------
(***************************************************************************)
(* Proofs about SyncService, for every set of accounts, cap and bound.     *)
(* Unique says that a reservation names one thread.  Begun says which      *)
(* threads can lose a reservation to its age: those that have taken up     *)
(* their account already.  Timely says what holds as long as no call has   *)
(* hung.                                                                   *)
(***************************************************************************)
EXTENDS SyncService, FiniteSetTheorems, TLAPS

ThreadOK(t) ==
    /\ t.who = "push" <=> t.acct # All
    /\ t.gen # 0 \/ (t.acct = All /\ t.pc = "spawned")
    /\ t.pc \in {"fetch", "hung", "doomed"} => t.cur \in t.todo
    /\ t.pc = "forget" => t.cur # All

\* What a thread has to do: nothing before it has loaded, its account after.
Todo(t) ==
    /\ t.acct # All => t.todo \subseteq {t.acct}
    /\ t.pc \in {"spawned", "claimed", "end"} => t.todo = {}
    /\ t.acct # All /\ t.pc = "forget" => t.todo = {}
Todos == \A t \in threads : Todo(t)

\* A reservation names one thread.
Unique ==
    \A t, u \in threads : t.gen # 0 /\ t.gen = u.gen /\ t.acct = u.acct => t = u

\* A full sync has no account sync beside it; those keep within the cap.
Slots ==
    /\ full # 0 => Busy(active) = {}
    /\ Cardinality(Busy(active)) <= CAP

\* The thread of an old reservation has taken up its account.
Started(t) == \/ t.pc \in {"fetch", "hung", "doomed", "forget"}
              \/ t.pc = "sync" /\ t.acct \notin t.todo
Begun ==
    \A t \in threads : t.acct # All /\ t.acct \in old /\ Registered(t) => Started(t)

\* As long as no call has hung: reservations stand, so that the failures a sync has
\* read are those of its account, and these are the failures in a row; an account that
\* is about to be deactivated has N of them, and one whose entry is popped is out.
Timely ==
    hangs = 0 =>
        /\ old = {}
        /\ \A t \in threads :
             /\ t.pc # "hung"
             /\ t.gen # 0 => Registered(t)
             /\ t.todo \subseteq enabled
             /\ t.pc = "fetch" => t.seen = failures[t.cur]
             /\ t.pc = "doomed" => streak[t.cur] = N
             /\ t.pc = "forget" => t.cur \notin enabled
        /\ \A a \in enabled : failures[a] = streak[a]

\* A thread that PushIsRemembered counts on.
Coming(t, a) ==
    /\ t.acct = a /\ Registered(t)
    /\ t.pc \in {"spawned", "claimed"} \/ (t.pc = "sync" /\ a \in t.todo)

Inv == TypeOK /\ Todos /\ Unique /\ Slots /\ Begun /\ PushIsRemembered /\ Timely

-----------------------------------------------------------------------------
(* The accounts that get a slot. *)

\* Lowest takes at most as many as there are slots: the number of smaller
\* candidates tells the taken ones apart.
LEMMA LowestFits ==
    ASSUME NEW cand \in SUBSET Accounts, NEW n \in Nat
    PROVE  IsFiniteSet(Lowest(cand, n)) /\ Cardinality(Lowest(cand, n)) <= n
PROOF
<1> DEFINE Below(a) == {b \in cand : b < a}
           L == Lowest(cand, n)
           f == [a \in L |-> Cardinality(Below(a))]
<1>1. IsFiniteSet(cand) /\ cand \subseteq Nat
  BY FS_Subset, SyncAssumption
<1>2. \A a \in cand : IsFiniteSet(Below(a)) /\ Cardinality(Below(a)) \in Nat
  <2> TAKE a \in cand
  <2>1. Below(a) \in SUBSET cand
    OBVIOUS
  <2> QED
    BY <1>1, <2>1, FS_Subset, FS_CardinalityType
<1>3. ASSUME NEW a \in cand, NEW b \in cand, a < b
      PROVE  Cardinality(Below(a)) < Cardinality(Below(b))
  <2>1. /\ Below(a) \cup {a} \in SUBSET Below(b)
        /\ a \notin Below(a)
    <3>1. a \in Nat /\ b \in Nat
      BY <1>1
    <3>2. \A c \in Below(a) \cup {a} : c \in cand /\ c \in Nat /\ (c < a \/ c = a)
      BY <1>1
    <3>3. \A c \in Below(a) \cup {a} : c < b
      BY <1>3, <3>1, <3>2
    <3>4. ~(a < a)
      BY <3>1
    <3> QED
      BY ONLY <3>2, <3>3, <3>4
  <2>2. Cardinality(Below(a) \cup {a}) = Cardinality(Below(a)) + 1
    BY <1>2, <2>1, FS_AddElement
  <2>3. Cardinality(Below(a) \cup {a}) <= Cardinality(Below(b))
    BY <1>2, <2>1, FS_Subset
  <2> QED
    BY <1>2, <2>2, <2>3
<1>4. L \subseteq cand /\ \A a \in L : Cardinality(Below(a)) < n
  BY DEF Lowest
<1>5. f \in [L -> 0..(n - 1)]
  BY <1>2, <1>4
<1>6. \A a, b \in L : f[a] = f[b] => a = b
  <2> SUFFICES ASSUME NEW a \in L, NEW b \in L, a # b PROVE f[a] # f[b]
    OBVIOUS
  <2>1. a < b \/ b < a
    <3>1. a \in Nat /\ b \in Nat
      BY <1>1, <1>4
    <3> QED
      BY ONLY <3>1, a # b
  <2>2. Cardinality(Below(a)) \in Nat /\ Cardinality(Below(b)) \in Nat
    BY <1>2, <1>4
  <2> QED
    BY <1>3, <1>4, <2>1, <2>2
<1> HIDE DEF f, L, Below
<1>7. f \in Injection(L, 0..(n - 1))
  BY <1>5, <1>6 DEF Injection, IsInjective
<1>8. IsFiniteSet(0..(n - 1)) /\ Cardinality(0..(n - 1)) = n
  BY FS_Interval
<1>9. IsFiniteSet(L) /\ Cardinality(L) <= n
  BY <1>7, <1>8, FS_Injection
<1> QED
  BY <1>9 DEF L

\* Clearing reservations frees slots.
LEMMA FewerBusy ==
    ASSUME NEW act, NEW act2,
           Busy(act2) \subseteq Busy(act), Cardinality(Busy(act)) <= CAP
    PROVE  Cardinality(Busy(act2)) <= CAP
PROOF
<1>1. IsFiniteSet(Busy(act))
  BY SyncAssumption, FS_Subset DEF Busy
<1>2. Cardinality(Busy(act2)) <= Cardinality(Busy(act))
  BY <1>1, FS_Subset
<1>3. Cardinality(Busy(act)) \in Nat /\ Cardinality(Busy(act2)) \in Nat
  BY <1>1, FS_Subset, FS_CardinalityType
<1> QED
  BY <1>2, <1>3, SyncAssumption

-----------------------------------------------------------------------------
(* Reservations. *)

\* The threads of an invariant state.
LEMMA ThreadFacts ==
    ASSUME TypeOK, NEW t \in threads
    PROVE  t \in Thread /\ ThreadOK(t)
  BY DEF TypeOK, ThreadOK

\* The initial state satisfies the invariant: there is no thread.
LEMMA InvInit == Init => Inv
PROOF
<1> SUFFICES ASSUME Init PROVE Inv
  OBVIOUS
<1>1. TypeOK
  BY SyncAssumption DEF Init, TypeOK, All
<1>2. Busy(active) = {}
  BY DEF Init, Busy
<1>3. Slots
  BY <1>2, FS_EmptySet, SyncAssumption DEF Slots
<1> QED
  BY <1>1, <1>3 DEF Init, Inv, Todos, Unique, Begun, PushIsRemembered, Timely

\* The accounts in ready get a slot and a thread with the number g, the rest of the
\* queue stays.
Granted(g, ready, req, f, act, oldies, kept) ==
    /\ Fresh(g)
    /\ f # 0 => ready = {}
    /\ ready \cap Busy(act) = {}
    /\ Cardinality(Busy(act) \cup ready) <= CAP
    /\ full' = f
    /\ active' = [a \in Accounts |-> IF a \in ready THEN g ELSE act[a]]
    /\ old' = oldies \ ready
    /\ pending' = (pending \cup req) \ ready
    /\ threads' = kept \cup {Spawned("push", a, g) : a \in ready}

\* Reserve gives a fresh number and a thread to accounts that have none, as many as
\* there are slots, and leaves the rest of the queue.
LEMMA ReserveFacts ==
    ASSUME NEW req \in SUBSET Accounts, pending \subseteq Accounts,
           NEW f, NEW act, NEW oldies, NEW kept,
           Cardinality(Busy(act)) <= CAP, Reserve(req, f, act, oldies, kept)
    PROVE  \E g \in Gens, ready \in SUBSET Accounts :
              Granted(g, ready, req, f, act, oldies, kept)
PROOF
<1> DEFINE queue == pending \cup req
           free == CAP - Cardinality(Busy(act))
           cand == (IF req # {} THEN req ELSE queue) \ Busy(act)
           ready == IF f # 0 \/ free <= 0 THEN {} ELSE Lowest(cand, free)
<1>1. IsFiniteSet(Busy(act)) /\ Cardinality(Busy(act)) \in Nat
  BY SyncAssumption, FS_Subset, FS_CardinalityType DEF Busy
<1>2. cand \in SUBSET Accounts /\ cand \cap Busy(act) = {}
  OBVIOUS
<1>3. /\ ready \in SUBSET Accounts /\ ready \cap Busy(act) = {}
      /\ f # 0 => ready = {}
  BY <1>2 DEF Lowest
<1>4. Cardinality(Busy(act) \cup ready) <= CAP
  <2>1. CASE ready = {}
    <3>1. Busy(act) \cup ready = Busy(act)
      BY <2>1
    <3> QED
      BY <3>1
  <2>2. CASE ~(f # 0 \/ free <= 0)
    <3>1. free \in Nat
      BY <1>1, <2>2, SyncAssumption
    <3>2. IsFiniteSet(ready) /\ Cardinality(ready) <= free
      BY <1>2, <2>2, <3>1, LowestFits
    <3>3. Busy(act) \cap ready = {}
      BY <1>3
    <3> HIDE DEF ready, cand, queue
    <3>4. Cardinality(Busy(act) \cup ready) = Cardinality(Busy(act)) + Cardinality(ready)
      <4>1. Cardinality(Busy(act) \cap ready) = 0
        BY <3>3, FS_EmptySet
      <4>2. Cardinality(ready) \in Nat
        BY <3>2, FS_CardinalityType
      <4>3. Cardinality(Busy(act) \cup ready)
              = Cardinality(Busy(act)) + Cardinality(ready) - Cardinality(Busy(act) \cap ready)
        BY <1>1, <3>2, FS_Union, Zenon
      <4> QED
        BY <1>1, <4>1, <4>2, <4>3
    <3>5. Cardinality(ready) \in Nat
      BY <3>2, FS_CardinalityType
    <3> QED
      BY <1>1, <3>1, <3>2, <3>4, <3>5, SyncAssumption
  <2> QED
    BY <2>1, <2>2
<1>5. \E g \in Gens :
        /\ Fresh(g) /\ full' = f /\ old' = oldies \ ready
        /\ active' = [a \in Accounts |-> IF a \in ready THEN g ELSE act[a]]
        /\ pending' = (pending \cup req) \ ready
        /\ threads' = kept \cup {Spawned("push", a, g) : a \in ready}
  BY Zenon DEF Reserve
<1> HIDE DEF ready
<1> QED
  BY <1>3, <1>4, <1>5 DEF Granted

\* A reservation that clears only old entries keeps every part of the invariant.
LEMMA ReserveKeeps ==
    ASSUME Inv, NEW req \in SUBSET Accounts, NEW f \in {0, full},
           NEW act \in [Accounts -> Gens \cup {0}],
           NEW oldies \in SUBSET old, NEW kept \in SUBSET threads,
           Reserve(req, f, act, oldies, kept),
           \A a \in Accounts : act[a] \in {0, active[a]},
           \A t \in kept : t.gen # 0 /\ Registered(t) /\ t.acct \notin old =>
                IF t.acct = All THEN f = full ELSE act[t.acct] = active[t.acct],
           owed' \subseteq owed \cup req, UNCHANGED <<authVars, hangs>>,
           \A a \in owed, t \in threads : Coming(t, a) => t \in kept
    PROVE  /\ full' \in Gens \cup {0} /\ active' \in [Accounts -> Gens \cup {0}]
           /\ old' \subseteq old /\ pending' \subseteq Accounts
           /\ \A t \in threads' : t \in Thread /\ ThreadOK(t)
           /\ Todos' /\ Unique' /\ Slots' /\ Begun' /\ PushIsRemembered' /\ Timely'
PROOF
<1> USE DEF Inv
<1>1. Busy(act) \subseteq Busy(active) /\ Cardinality(Busy(act)) <= CAP
  <2>1. Busy(act) \subseteq Busy(active)
    BY DEF Busy
  <2> QED
    BY <2>1, FewerBusy DEF Slots
<1>2. PICK g \in Gens, ready \in SUBSET Accounts : Granted(g, ready, req, f, act, oldies, kept)
  <2>1. pending \subseteq Accounts
    BY DEF TypeOK
  <2> QED
    BY <1>1, <2>1, ReserveFacts, Zenon
<1> USE DEF Granted
<1>3. g # 0 /\ \A t \in threads : t.gen # g
  BY <1>2, SyncAssumption DEF Fresh, Used
<1>4. \A t \in threads' : t \in kept \/ \E a \in ready : t = Spawned("push", a, g)
  BY <1>2
<1>5. ASSUME NEW a \in ready
      PROVE  /\ Spawned("push", a, g) \in Thread /\ ThreadOK(Spawned("push", a, g))
             /\ Todo(Spawned("push", a, g))
             /\ Spawned("push", a, g).acct = a /\ Spawned("push", a, g).gen = g
             /\ Spawned("push", a, g).pc = "spawned" /\ Spawned("push", a, g).todo = {}
             /\ a # All /\ active'[a] = g
  BY <1>2, <1>3, SyncAssumption DEF Spawned, Thread, ThreadOK, Todo, All
<1>6. ASSUME NEW t \in kept
      PROVE  t \in Thread /\ ThreadOK(t) /\ Todo(t) /\ t.acct \in Accounts \cup {All}
  BY DEF TypeOK, Todos, Thread, ThreadOK
<1>7. Busy(active') = Busy(act) \cup ready
  BY <1>2, <1>3 DEF Busy
<1>8. Slots'
  <2>1. Cardinality(Busy(active')) <= CAP
    BY <1>2, <1>7
  <2>2. full' # 0 => Busy(active') = {}
    BY <1>1, <1>2, <1>7 DEF Slots
  <2> QED
    BY <2>1, <2>2 DEF Slots, Busy
<1>9. Unique'
  BY <1>3, <1>4, <1>5 DEF Unique
<1>10. \A t \in threads' : t \in Thread /\ ThreadOK(t) /\ Todo(t)
  BY <1>4, <1>5, <1>6
<1>11. ASSUME NEW t \in kept, t.gen # 0, Registered(t), t.acct \notin old
       PROVE  Registered(t)'
  <2>1. CASE t.acct = All
    BY <1>2, <1>11, <2>1 DEF Registered
  <2>2. CASE t.acct # All
    <3>1. t.acct \in Accounts /\ act[t.acct] = t.gen
      BY <1>6, <1>11, <2>2 DEF Registered
    <3>2. t.acct \notin ready
      BY <1>2, <1>11, <3>1 DEF Busy
    <3> QED
      BY <1>2, <2>2, <3>1, <3>2 DEF Registered
  <2> QED
    BY <2>1, <2>2
<1>12. Begun'
  <2> SUFFICES ASSUME NEW t \in threads', t.acct # All, t.acct \in old', Registered(t)'
               PROVE  Started(t)
    BY DEF Begun, Started
  <2>1. t.acct \notin ready /\ t.acct \in old
    BY <1>2
  <2>2. t \in kept
    BY <1>4, <1>5, <2>1
  <2>3. act[t.acct] = t.gen /\ t.gen # 0
    BY <1>2, <1>6, <2>1, <2>2 DEF Registered, ThreadOK
  <2>4. Registered(t)
    BY <1>6, <2>2, <2>3 DEF Registered
  <2> QED
    BY <2>1, <2>2, <2>4 DEF Begun
<1>13. PushIsRemembered'
  <2> SUFFICES ASSUME NEW a \in owed'
               PROVE  a \in pending' \/ \E t \in threads' : Coming(t, a)'
    BY DEF PushIsRemembered, Coming
  <2>1. CASE a \in ready
    <3>1. Coming(Spawned("push", a, g), a)'
      BY <1>2, <1>5, <2>1 DEF Coming, Registered, Spawned
    <3> QED
      BY <1>2, <2>1, <3>1
  <2>2. CASE a \notin ready /\ a \in pending \cup req
    BY <1>2, <2>2
  <2>3. CASE a \notin pending \cup req
    <3>1. PICK t \in threads : Coming(t, a)
      BY <2>3 DEF PushIsRemembered, Coming
    <3>2. t \in kept /\ a \in owed
      BY <2>3, <3>1
    <3>3. t.acct # All /\ t.gen # 0
      BY <1>6, <3>1, <3>2, SyncAssumption DEF TypeOK, Coming, ThreadOK, All
    <3>4. t.acct \notin old
      BY <1>6, <3>1, <3>2, <3>3 DEF Begun, Coming, Started
    <3>5. Registered(t)'
      BY <1>11, <3>1, <3>2, <3>3, <3>4 DEF Coming
    <3> QED
      BY <1>2, <3>1, <3>2, <3>5 DEF Coming
  <2> QED
    BY <2>1, <2>2, <2>3
<1>14. Timely'
  <2> SUFFICES ASSUME hangs = 0
               PROVE  /\ old' = {}
                      /\ \A t \in threads' :
                           /\ t.pc # "hung"
                           /\ t.gen # 0 => Registered(t)'
                           /\ t.todo \subseteq enabled
                           /\ t.pc = "fetch" => t.seen = failures[t.cur]
                           /\ t.pc = "doomed" => streak[t.cur] = N
                           /\ t.pc = "forget" => t.cur \notin enabled
                      /\ \A a \in enabled : failures[a] = streak[a]
    BY DEF Timely, authVars
  <2>1. old = {} /\ old' = {}
    BY <1>2 DEF Timely
  <2>2. ASSUME NEW t \in kept
        PROVE  /\ t.pc # "hung" /\ t.todo \subseteq enabled
               /\ t.gen # 0 => Registered(t)'
               /\ t.pc = "fetch" => t.seen = failures[t.cur]
               /\ t.pc = "doomed" => streak[t.cur] = N
               /\ t.pc = "forget" => t.cur \notin enabled
    BY <1>11, <2>1 DEF Timely
  <2>3. ASSUME NEW a \in ready
        PROVE  Registered(Spawned("push", a, g))'
    BY <1>5 DEF Registered
  <2> QED
    BY <1>4, <1>5, <2>1, <2>2, <2>3 DEF Timely
<1>15. /\ full' \in Gens \cup {0} /\ active' \in [Accounts -> Gens \cup {0}]
       /\ old' \subseteq old /\ pending' \subseteq Accounts
  BY <1>2 DEF TypeOK
<1>16. Todos'
  BY <1>10 DEF Todos, Todo
<1> QED
  BY <1>8, <1>9, <1>10, <1>12, <1>13, <1>14, <1>15, <1>16

\* Clearing what is old takes nothing else away; a thread that a push counts on has
\* no old reservation.
LEMMA ClearedFacts ==
    ASSUME Inv
    PROVE  /\ FullCleared \in {0, full} /\ FullCleared \in Gens \cup {0}
           /\ ActiveCleared \in [Accounts -> Gens \cup {0}]
           /\ \A a \in Accounts : ActiveCleared[a] \in {0, active[a]}
           /\ Busy(ActiveCleared) \subseteq Busy(active)
           /\ Cardinality(Busy(ActiveCleared)) <= CAP
           /\ \A t \in threads : t.gen # 0 /\ Registered(t) /\ t.acct \notin old =>
                IF t.acct = All THEN FullCleared = full
                                ELSE ActiveCleared[t.acct] = active[t.acct]
           /\ \A a \in Accounts, t \in threads : Coming(t, a) => t.acct \notin old
PROOF
<1>1. /\ FullCleared \in {0, full} /\ FullCleared \in Gens \cup {0}
      /\ ActiveCleared \in [Accounts -> Gens \cup {0}]
      /\ \A a \in Accounts : ActiveCleared[a] \in {0, active[a]}
  BY DEF Inv, TypeOK, FullCleared, ActiveCleared
<1>2. Busy(ActiveCleared) \subseteq Busy(active)
  BY DEF ActiveCleared, Busy
<1>3. Cardinality(Busy(ActiveCleared)) <= CAP
  BY <1>2, FewerBusy DEF Inv, Slots
<1>4. ASSUME NEW t \in threads, t.gen # 0, Registered(t), t.acct \notin old
      PROVE  IF t.acct = All THEN FullCleared = full ELSE ActiveCleared[t.acct] = active[t.acct]
  <2>1. t.acct \in Accounts \cup {All}
    BY DEF Inv, TypeOK, Thread
  <2> QED
    BY <1>4, <2>1 DEF FullCleared, ActiveCleared
<1>5. ASSUME NEW a \in Accounts, NEW t \in threads, Coming(t, a)
      PROVE  t.acct \notin old
  <2>1. t.acct = a /\ a # All
    BY <1>5, SyncAssumption DEF Coming, All
  <2> QED
    BY <1>5, <2>1 DEF Inv, Begun, Coming, Started
<1> QED
  BY <1>1, <1>2, <1>3, <1>4, <1>5

\* A push keeps the invariant.
LEMMA TriggerAccountKeeps ==
    ASSUME Inv, NEW a \in Accounts, TriggerAccount(a)
    PROVE  Inv'
PROOF
<1>1. Reserve({a}, FullCleared, ActiveCleared, {}, threads)
  BY DEF TriggerAccount
<1>2. owed' = owed \cup {a} /\ UNCHANGED <<authVars, hangs>>
  BY DEF TriggerAccount
<1>3. {a} \in SUBSET Accounts /\ {} \in SUBSET old /\ threads \in SUBSET threads
  OBVIOUS
<1>4. /\ full' \in Gens \cup {0} /\ active' \in [Accounts -> Gens \cup {0}]
      /\ old' \subseteq old /\ pending' \subseteq Accounts
      /\ \A t \in threads' : t \in Thread /\ ThreadOK(t)
      /\ Todos' /\ Unique' /\ Slots' /\ Begun' /\ PushIsRemembered' /\ Timely'
  BY <1>1, <1>2, <1>3, ClearedFacts, ReserveKeeps
<1>5. TypeOK'
  BY <1>2, <1>4, SyncAssumption DEF Inv, TypeOK, ThreadOK, TriggerAccount, authVars
<1> QED
  BY <1>4, <1>5 DEF Inv

\* The end of a thread keeps the invariant.
LEMMA FinishKeeps ==
    ASSUME Inv, NEW t \in threads, Finish(t)
    PROVE  Inv'
PROOF
<1> DEFINE f == IF t.acct = All /\ full = t.gen THEN 0 ELSE full
           mine == t.acct # All /\ active[t.acct] = t.gen
           act == IF mine THEN [active EXCEPT ![t.acct] = 0] ELSE active
           oldies == IF mine \/ f # full THEN old \ {t.acct} ELSE old
<1>1. Reserve({}, f, act, oldies, threads \ {t}) /\ UNCHANGED <<authVars, countVars, owed>>
  BY DEF Finish
<1>2. /\ {} \in SUBSET Accounts /\ f \in {0, full} /\ oldies \in SUBSET old
      /\ threads \ {t} \in SUBSET threads
  OBVIOUS
<1>3. t \in Thread /\ ThreadOK(t) /\ Todo(t)
  BY ThreadFacts DEF Inv, Todos
<1>4. t.gen # 0
  BY <1>3 DEF ThreadOK, Finish
<1>5. /\ act \in [Accounts -> Gens \cup {0}]
      /\ \A a \in Accounts : act[a] \in {0, active[a]}
      /\ \A a \in Accounts : a # t.acct => act[a] = active[a]
  BY <1>3 DEF Inv, TypeOK, Thread
<1>6. ASSUME NEW u \in threads \ {t}, u.gen # 0, Registered(u)
      PROVE  IF u.acct = All THEN f = full ELSE act[u.acct] = active[u.acct]
  <2>1. u.acct \in Accounts \cup {All}
    BY DEF Inv, TypeOK, Thread
  <2>2. ~(u.acct = t.acct /\ u.gen = t.gen)
    BY <1>4 DEF Inv, Unique
  <2>3. CASE u.acct = All
    BY <1>6, <2>2, <2>3 DEF Registered
  <2>4. CASE u.acct # All
    BY <1>5, <1>6, <2>1, <2>2, <2>4 DEF Registered
  <2> QED
    BY <2>3, <2>4
<1>7. \A a \in owed, u \in threads : Coming(u, a) => u \in threads \ {t}
  <2> SUFFICES ASSUME NEW a \in owed, Coming(t, a) PROVE FALSE
    OBVIOUS
  <2> QED
    BY DEF Coming, Finish
<1>8. owed' \subseteq owed \cup {} /\ UNCHANGED <<authVars, hangs>>
  BY <1>1 DEF countVars
<1> HIDE DEF f, mine, act, oldies
<1>9. /\ full' \in Gens \cup {0} /\ active' \in [Accounts -> Gens \cup {0}]
      /\ old' \subseteq old /\ pending' \subseteq Accounts
      /\ \A u \in threads' : u \in Thread /\ ThreadOK(u)
      /\ Todos' /\ Unique' /\ Slots' /\ Begun' /\ PushIsRemembered' /\ Timely'
  BY <1>1, <1>2, <1>5, <1>6, <1>7, <1>8, ReserveKeeps
<1>10. TypeOK'
  BY <1>1, <1>9 DEF Inv, TypeOK, ThreadOK, authVars, countVars
<1> QED
  BY <1>9, <1>10 DEF Inv

-----------------------------------------------------------------------------
(* Clearing and claiming. *)

\* A new thread of the loop or of a user has no reservation yet.
LEMMA Fledgling ==
    ASSUME NEW who \in {"loop", "user"}
    PROVE  /\ Spawned(who, All, 0) \in Thread /\ ThreadOK(Spawned(who, All, 0))
           /\ Todo(Spawned(who, All, 0))
           /\ Spawned(who, All, 0).gen = 0 /\ Spawned(who, All, 0).acct = All
           /\ Spawned(who, All, 0).pc = "spawned" /\ Spawned(who, All, 0).todo = {}
  BY SyncAssumption DEF Spawned, Thread, ThreadOK, Todo, All

\* Clearing what is old, with or without a new thread that has no reservation, keeps
\* the invariant.
LEMMA ClearKeeps ==
    ASSUME Inv, NEW new, new \subseteq {Spawned("user", All, 0), Spawned("loop", All, 0)},
           threads' = threads \cup new,
           ClearStale \/ UNCHANGED <<full, active, old>>,
           UNCHANGED <<pending, authVars, hangs, mishaps, owed>>, calls' \in 0..MaxCalls
    PROVE  Inv'
PROOF
<1> USE DEF Inv
<1>1. \A t \in threads' : t \in threads \/ (/\ t \in Thread /\ ThreadOK(t) /\ Todo(t)
                                           /\ t.gen = 0 /\ t.acct = All
                                           /\ t.pc = "spawned" /\ t.todo = {})
  BY Fledgling
<1>2. /\ full' \in {0, full} /\ full' \in Gens \cup {0}
      /\ active' \in [Accounts -> Gens \cup {0}]
      /\ \A a \in Accounts : active'[a] \in {0, active[a]}
      /\ Busy(active') \subseteq Busy(active)
      /\ Cardinality(Busy(active')) <= CAP
      /\ old' \subseteq old
  BY ClearedFacts DEF ClearStale, TypeOK, Slots
<1>3. ASSUME NEW t \in threads, t.gen # 0, Registered(t), t.acct \notin old
      PROVE  Registered(t)'
  BY <1>3, ClearedFacts DEF ClearStale, Registered
<1>4. TypeOK'
  <2>1. \A t \in threads' : t \in Thread /\ ThreadOK(t)
    BY <1>1, ThreadFacts
  <2> QED
    BY <1>2, <2>1 DEF TypeOK, ThreadOK, authVars
<1>5. Todos'
  BY <1>1 DEF Todos, Todo
<1>6. Unique'
  BY <1>1 DEF Unique
<1>7. Slots'
  BY <1>2 DEF Slots, Busy
<1>8. Begun'
  <2> SUFFICES ASSUME NEW t \in threads', t.acct # All, t.acct \in old', Registered(t)'
               PROVE  Started(t)
    BY DEF Begun, Started
  <2>1. t \in threads /\ t.gen # 0 /\ t.acct \in Accounts
    BY <1>1, ThreadFacts DEF ThreadOK, Thread
  <2>2. Registered(t)
    BY <1>2, <2>1 DEF Registered
  <2> QED
    BY <1>2, <2>1, <2>2 DEF Begun
<1>9. PushIsRemembered'
  <2> SUFFICES ASSUME NEW a \in owed, a \notin pending
               PROVE  \E t \in threads' : Coming(t, a)'
    BY DEF PushIsRemembered, Coming
  <2>1. PICK t \in threads : Coming(t, a)
    BY DEF PushIsRemembered, Coming
  <2>2. a \in Accounts
    BY DEF TypeOK
  <2>3. t.acct # All /\ t.gen # 0 /\ t.acct \notin old
    BY <2>1, <2>2, ClearedFacts, ThreadFacts, SyncAssumption DEF Coming, ThreadOK, All
  <2> QED
    BY <1>3, <2>1, <2>3 DEF Coming
<1>10. Timely'
  BY <1>1, <1>2, <1>3 DEF Timely, authVars
<1> QED
  BY <1>4, <1>5, <1>6, <1>7, <1>8, <1>9, <1>10

\* What Claim does with a thread: it goes, or claims with its own number or a fresh
\* one.
LEMMA ClaimFacts ==
    ASSUME Inv, NEW t \in threads, Claim(t)
    PROVE  /\ t.pc = "spawned" /\ old' = {} /\ active' = ActiveCleared
           /\ \/ /\ full' = FullCleared /\ threads' = threads \ {t}
                 /\ t.acct # All => ActiveCleared[t.acct] # t.gen
              \/ /\ full' = FullCleared /\ t.acct # All
                 /\ ActiveCleared[t.acct] = t.gen /\ Becomes(t, At(t, "claimed"))
              \/ \E g \in Gens :
                   /\ t.acct = All /\ FullCleared = 0 /\ Busy(ActiveCleared) = {}
                   /\ Fresh(g) /\ full' = g
                   /\ Becomes(t, [At(t, "claimed") EXCEPT !.gen = g])
           /\ UNCHANGED <<pending, authVars, countVars, owed>>
PROOF
<1>1. CASE t.acct = All
  BY <1>1 DEF Claim, Syncing
<1>2. CASE t.acct # All
  BY <1>2 DEF Claim
<1> QED
  BY <1>1, <1>2

\* A thread that claims, or finds that it must not, keeps the invariant.
LEMMA ClaimKeeps ==
    ASSUME Inv, NEW t \in threads, Claim(t)
    PROVE  Inv'
PROOF
<1> USE DEF Inv
<1>1. t \in Thread /\ ThreadOK(t) /\ Todo(t) /\ t.pc = "spawned"
  BY ThreadFacts, ClaimFacts DEF Todos
<1>2. /\ old' = {} /\ active' = ActiveCleared
      /\ UNCHANGED <<pending, authVars, countVars, owed>>
  BY ClaimFacts
<1>3. /\ full' \in Gens \cup {0} /\ active' \in [Accounts -> Gens \cup {0}]
      /\ \A a \in Accounts : active'[a] \in {0, active[a]}
      /\ Cardinality(Busy(active')) <= CAP
  BY ClaimFacts, ClearedFacts
<1>4. \A x \in threads' \ threads :
        /\ x \in Thread /\ ThreadOK(x) /\ Todo(x)
        /\ x.acct = t.acct /\ x.pc = "claimed" /\ x.todo = {} /\ x.gen # 0
        /\ Registered(x)'
        /\ (x.gen = t.gen /\ t.acct # All) \/ \A y \in threads : y.gen # x.gen
  <2>1. CASE full' = FullCleared /\ threads' = threads \ {t}
    BY <2>1
  <2>2. CASE t.acct # All /\ ActiveCleared[t.acct] = t.gen /\ Becomes(t, At(t, "claimed"))
    <3>1. threads' \ threads \subseteq {At(t, "claimed")}
      BY <2>2 DEF Becomes
    <3>2. /\ At(t, "claimed") \in Thread /\ At(t, "claimed").acct = t.acct
          /\ At(t, "claimed").who = t.who
          /\ At(t, "claimed").gen = t.gen /\ At(t, "claimed").pc = "claimed"
          /\ At(t, "claimed").todo = t.todo
      BY <1>1 DEF At, Thread
    <3>3. t.gen # 0 /\ t.todo = {}
      BY <1>1, <2>2 DEF ThreadOK, Todo
    <3> HIDE DEF Inv
    <3> QED
      BY <1>1, <1>2, <2>2, <3>1, <3>2, <3>3 DEF ThreadOK, Todo, Registered
  <2>3. ASSUME NEW g \in Gens, t.acct = All, Fresh(g), full' = g,
               Becomes(t, [At(t, "claimed") EXCEPT !.gen = g])
        PROVE  \A x \in threads' \ threads :
                 /\ x \in Thread /\ ThreadOK(x) /\ Todo(x)
                 /\ x.acct = t.acct /\ x.pc = "claimed" /\ x.todo = {} /\ x.gen # 0
                 /\ Registered(x)' /\ \A y \in threads : y.gen # x.gen
    <3> DEFINE u == [At(t, "claimed") EXCEPT !.gen = g]
    <3>1. threads' \ threads \subseteq {u}
      BY <2>3 DEF Becomes
    <3>2. /\ u \in Thread /\ u.acct = t.acct /\ u.gen = g /\ u.pc = "claimed"
          /\ u.todo = t.todo /\ u.who = t.who
      BY <1>1 DEF At, Thread
    <3>3. t.todo = {} /\ g # 0 /\ \A y \in threads : y.gen # g
      BY <1>1, <2>3, SyncAssumption DEF Todo, Fresh, Used
    <3> HIDE DEF u, Inv
    <3> QED
      BY <1>1, <2>3, <3>1, <3>2, <3>3 DEF ThreadOK, Todo, Registered
  <2> QED
    BY <2>1, <2>2, <2>3, ClaimFacts
<1>5. t \notin threads'
  <2>1. At(t, "claimed") # t
    BY <1>1 DEF At, Thread
  <2>2. \A g \in Gens : [At(t, "claimed") EXCEPT !.gen = g] # t
    BY <1>1 DEF At, Thread
  <2> QED
    BY <2>1, <2>2, ClaimFacts DEF Becomes
<1>6. threads \ {t} \subseteq threads'
  BY ClaimFacts DEF Becomes
<1>7. TypeOK'
  <2>1. \A x \in threads' : x \in Thread /\ ThreadOK(x)
    BY <1>4, ThreadFacts
  <2> QED
    BY <1>2, <1>3, <2>1 DEF TypeOK, ThreadOK, authVars, countVars
<1>8. Todos'
  BY <1>4 DEF Todos, Todo
<1>9. Unique'
  <2> SUFFICES ASSUME NEW x \in threads', NEW y \in threads',
                      x.gen # 0, x.gen = y.gen, x.acct = y.acct
               PROVE  x = y
    BY DEF Unique
  <2>1. CASE x \in threads /\ y \in threads
    BY <2>1 DEF Unique
  <2>2. ASSUME NEW v \in threads' \ threads, NEW z \in threads, z \in threads',
               z.gen = v.gen, z.acct = v.acct
        PROVE  FALSE
    BY <1>4, <1>5, <2>2 DEF Unique
  <2>3. CASE x \notin threads /\ y \notin threads
    <3>1. \A v \in threads' \ threads, z \in threads' \ threads : v = z
      BY ClaimFacts DEF Becomes
    <3> QED
      BY <2>3, <3>1
  <2> QED
    BY <2>1, <2>2, <2>3
<1>10. Slots'
  <2>1. full' # 0 => Busy(active') = {}
    <3>1. full' = FullCleared \/ Busy(ActiveCleared) = {}
      BY ClaimFacts
    <3> QED
      BY <1>2, <3>1, ClearedFacts DEF Slots
  <2> QED
    BY <1>3, <2>1 DEF Slots, Busy
<1>11. Begun'
  BY <1>2 DEF Begun
<1>12. PushIsRemembered'
  <2> SUFFICES ASSUME NEW a \in owed, a \notin pending
               PROVE  \E x \in threads' : Coming(x, a)'
    BY <1>2 DEF PushIsRemembered, Coming
  <2>1. PICK x \in threads : Coming(x, a)
    BY DEF PushIsRemembered, Coming
  <2>2. a \in Accounts /\ x.acct = a /\ a # All
    BY <2>1, SyncAssumption DEF TypeOK, Coming, All
  <2>3. x.gen # 0 /\ a \notin old /\ ActiveCleared[a] = x.gen
    BY <2>1, <2>2, ClearedFacts, ThreadFacts DEF ThreadOK, Coming, Registered
  <2>4. CASE x # t
    BY <1>2, <1>6, <2>1, <2>2, <2>3, <2>4 DEF Coming, Registered
  <2>5. CASE x = t
    <3>1. Becomes(t, At(t, "claimed"))
      BY <2>2, <2>3, <2>5, ClaimFacts
    <3>2. At(t, "claimed").acct = t.acct /\ At(t, "claimed").gen = t.gen
          /\ At(t, "claimed").pc = "claimed"
      BY <1>1 DEF At, Thread
    <3>3. Coming(At(t, "claimed"), a)'
      BY <1>2, <2>2, <2>3, <2>5, <3>2 DEF Coming, Registered
    <3> QED
      BY <3>1, <3>3 DEF Becomes
  <2> QED
    BY <2>4, <2>5
<1>13. Timely'
  <2> SUFFICES ASSUME hangs = 0
               PROVE  \A x \in threads' :
                        /\ x.pc # "hung" /\ x.todo \subseteq enabled
                        /\ x.gen # 0 => Registered(x)'
                        /\ x.pc = "fetch" => x.seen = failures[x.cur]
                        /\ x.pc = "doomed" => streak[x.cur] = N
                        /\ x.pc = "forget" => x.cur \notin enabled
    BY <1>2 DEF Timely, authVars, countVars
  <2>1. ASSUME NEW x \in threads, x.gen # 0
        PROVE  Registered(x)'
    <3>1. Registered(x) /\ old = {}
      BY <2>1 DEF Timely
    <3>2. IF x.acct = All THEN FullCleared = full ELSE ActiveCleared[x.acct] = active[x.acct]
      BY <2>1, <3>1, ClearedFacts
    <3>3. x.acct = All => full # 0 /\ full' = full
      BY <2>1, <3>1, <3>2, ClaimFacts DEF Registered
    <3> QED
      BY <1>2, <3>1, <3>2, <3>3 DEF Registered
  <2>2. ASSUME NEW x \in threads
        PROVE  /\ x.pc # "hung" /\ x.todo \subseteq enabled
               /\ x.pc = "fetch" => x.seen = failures[x.cur]
               /\ x.pc = "doomed" => streak[x.cur] = N
               /\ x.pc = "forget" => x.cur \notin enabled
    BY DEF Timely
  <2> QED
    BY <1>4, <2>1, <2>2
<1> QED
  BY <1>7, <1>8, <1>9, <1>10, <1>11, <1>12, <1>13

-----------------------------------------------------------------------------
(* The steps of a sync. *)

\* Threads whose reservations stand have different accounts, none of them a full one.
LEMMA ClaimedApart ==
    ASSUME Inv, NEW t \in threads, NEW u \in threads, Claimed(t), Claimed(u), t # u
    PROVE  t.acct # u.acct /\ All \notin {t.acct, u.acct}
PROOF
<1> USE DEF Inv
<1>1. t.acct # u.acct
  BY DEF Claimed, Registered, Unique
<1>2. ASSUME NEW x \in threads, NEW y \in threads, Claimed(x), Claimed(y), x.acct = All,
             y.acct # All
      PROVE  FALSE
  <2>1. full # 0 /\ y.acct \in Accounts /\ active[y.acct] # 0
    BY <1>2, ThreadFacts DEF Claimed, Registered, Thread
  <2> QED
    BY <2>1 DEF Slots, Busy
<1> QED
  BY <1>1, <1>2

\* As long as no call has hung, one thread at most has an account to do.
LEMMA Alone ==
    ASSUME Inv, hangs = 0, NEW t \in threads, NEW u \in threads, NEW a \in t.todo, a \in u.todo
    PROVE  t = u
PROOF
<1>1. t.gen # 0 /\ u.gen # 0
  BY ThreadFacts DEF Inv, Todos, Todo, ThreadOK
<1>2. Claimed(t) /\ Claimed(u)
  BY <1>1 DEF Inv, Timely, Claimed
<1>3. t.acct = All \/ t.acct = a
  BY DEF Inv, Todos, Todo
<1>4. u.acct = All \/ u.acct = a
  BY DEF Inv, Todos, Todo
<1> QED
  BY <1>2, <1>3, <1>4, ClaimedApart

\* A thread that goes on with its reservation keeps what does not depend on time.
LEMMA MoveKeeps ==
    ASSUME Inv, NEW t \in threads, NEW u \in Thread,
           u.who = t.who, u.acct = t.acct, u.gen = t.gen, t.gen # 0,
           u.pc \in {"fetch", "hung", "doomed"} => u.cur \in u.todo,
           u.pc = "forget" => u.cur # All, Todo(u), Becomes(t, u),
           UNCHANGED <<full, active, old, pending>>,
           t.acct # All /\ Started(t) => Started(u),
           owed' \subseteq owed, \A a \in owed' : Coming(t, a) => Coming(u, a)
    PROVE  /\ \A x \in threads' : x \in Thread /\ ThreadOK(x)
           /\ Todos' /\ Unique' /\ Slots' /\ Begun' /\ PushIsRemembered'
PROOF
<1> USE DEF Inv
<1>1. ThreadOK(u)
  BY ThreadFacts DEF ThreadOK
<1>2. threads' = (threads \ {t}) \cup {u}
  BY DEF Becomes
<1>3. \A x : Registered(x)' <=> Registered(x)
  BY DEF Registered
<1>4. Todos'
  BY <1>2 DEF Todos, Todo
<1>5. Unique'
  BY <1>2 DEF Unique
<1>6. Slots'
  BY DEF Slots, Busy
<1>7. Begun'
  <2>1. Registered(u) <=> Registered(t)
    BY DEF Registered
  <2> QED
    BY <1>2, <1>3, <2>1 DEF Begun, Started
<1>8. PushIsRemembered'
  <2> SUFFICES ASSUME NEW a \in owed', a \notin pending
               PROVE  \E x \in threads' : Coming(x, a)'
    BY DEF PushIsRemembered, Coming
  <2>1. PICK x \in threads : Coming(x, a)
    BY DEF PushIsRemembered, Coming
  <2>2. Coming(x, a)' /\ (x = t => Coming(u, a)')
    BY <1>3, <2>1 DEF Coming
  <2> QED
    BY <1>2, <2>2
<1>9. \A x \in threads' : x \in Thread /\ ThreadOK(x)
  BY <1>1, <1>2, ThreadFacts
<1> QED
  BY <1>4, <1>5, <1>6, <1>7, <1>8, <1>9

\* If it leaves the accounts alone it keeps Timely, too.
LEMMA MoveIsTimely ==
    ASSUME Inv, NEW t \in threads, NEW u, Becomes(t, u), u.gen = t.gen, u.acct = t.acct,
           UNCHANGED <<full, active, old, failures, enabled, streak, hangs>>,
           hangs = 0 => /\ u.pc \notin {"hung", "doomed", "forget"} /\ u.todo \subseteq enabled
                        /\ u.pc = "fetch" => u.seen = failures[u.cur]
    PROVE  Timely'
PROOF
<1> USE DEF Inv
<1>1. threads' = (threads \ {t}) \cup {u}
  BY DEF Becomes
<1>2. \A x : Registered(x)' <=> Registered(x)
  BY DEF Registered
<1>3. Registered(u) <=> Registered(t)
  BY DEF Registered
<1> QED
  BY <1>1, <1>2, <1>3 DEF Timely

\* The thread after a change of its place, and after the sync of an account.
LEMMA Records ==
    ASSUME NEW t \in Thread
    PROVE  /\ \A pc \in {"fetch", "hung", "doomed", "end"} :
                /\ At(t, pc) \in Thread /\ At(t, pc).who = t.who
                /\ At(t, pc).acct = t.acct /\ At(t, pc).gen = t.gen /\ At(t, pc).pc = pc
                /\ At(t, pc).todo = t.todo /\ At(t, pc).cur = t.cur /\ At(t, pc).seen = t.seen
           /\ Fetched(t) \in Thread /\ Fetched(t).who = t.who
           /\ Fetched(t).acct = t.acct /\ Fetched(t).gen = t.gen /\ Fetched(t).pc = "sync"
           /\ Fetched(t).todo = t.todo \ {t.cur}
PROOF
<1>1. \A pc \in {"fetch", "hung", "doomed", "end"} :
                /\ At(t, pc) \in Thread /\ At(t, pc).who = t.who
                /\ At(t, pc).acct = t.acct /\ At(t, pc).gen = t.gen /\ At(t, pc).pc = pc
                /\ At(t, pc).todo = t.todo /\ At(t, pc).cur = t.cur /\ At(t, pc).seen = t.seen
  BY DEF At, Thread
<1>2. /\ Fetched(t) \in Thread /\ Fetched(t).who = t.who
      /\ Fetched(t).acct = t.acct /\ Fetched(t).gen = t.gen /\ Fetched(t).pc = "sync"
      /\ Fetched(t).todo = t.todo \ {t.cur}
  <2>1. 0 \in 0..N /\ t.todo \ {t.cur} \in SUBSET Accounts
    BY SyncAssumption DEF Thread
  <2> QED
    BY <2>1 DEF Fetched, At, Thread
<1> QED
  BY <1>1, <1>2

\* The load of the accounts keeps the invariant.
LEMMA LoadKeeps ==
    ASSUME Inv, NEW t \in threads, Load(t)
    PROVE  Inv'
PROOF
<1> USE DEF Inv
<1> DEFINE wanted == IF t.acct = All THEN Accounts ELSE {t.acct}
           u1 == [At(t, "sync") EXCEPT !.todo = wanted \cap enabled]
           u2 == At(t, "end")
<1>1. t \in Thread /\ ThreadOK(t) /\ Todo(t) /\ t.pc = "claimed" /\ t.gen # 0 /\ t.todo = {}
  BY ThreadFacts DEF Todos, Todo, ThreadOK, Load
<1>2. wanted \in SUBSET Accounts /\ enabled \in SUBSET Accounts
  BY <1>1 DEF Thread, TypeOK
<1>3. /\ u1 \in Thread /\ u1.who = t.who /\ u1.acct = t.acct /\ u1.gen = t.gen
      /\ u1.pc = "sync" /\ u1.todo = wanted \cap enabled
      /\ u2 \in Thread /\ u2.who = t.who /\ u2.acct = t.acct /\ u2.gen = t.gen
      /\ u2.pc = "end" /\ u2.todo = {}
  <2>1. wanted \cap enabled \in SUBSET Accounts
    BY <1>2
  <2> HIDE DEF wanted
  <2> QED
    BY <1>1, <2>1 DEF At, Thread
<1>4. /\ UNCHANGED <<full, active, old, pending, failures, waiting, enabled, streak, revoked,
                      calls, hangs>>
      /\ mishaps' \in 0..MaxMishaps
      /\ \/ ahead' = ahead
         \/ ahead' = ahead \cup {Mark(t, a) : a \in wanted \cap enabled \cap waiting}
      /\ owed' \subseteq owed
      /\ \/ Becomes(t, u1) /\ t.acct # All => owed' = owed \ (wanted \ enabled)
         \/ Becomes(t, u2) /\ t.acct # All => owed' = owed \ wanted
      /\ Becomes(t, u1) \/ Becomes(t, u2)
      /\ t.acct \in owed' => Becomes(t, u1) /\ t.acct \in enabled
  BY SyncAssumption DEF Load, TypeOK, All
<1>9. ahead' \subseteq (Accounts \cup {All}) \X Gens \X Accounts
  <2>1. \A a \in wanted : Mark(t, a) \in (Accounts \cup {All}) \X Gens \X Accounts
    BY <1>1, <1>2 DEF Mark, Thread
  <2> HIDE DEF wanted
  <2> QED
    BY <1>4, <2>1 DEF TypeOK
<1> HIDE DEF u1, u2
<1>5. ~Started(t)
  BY <1>1 DEF Started
<1>6. ASSUME NEW u \in Thread, u.who = t.who, u.acct = t.acct, u.gen = t.gen, Becomes(t, u),
             u.pc \in {"sync", "end"}, Todo(u), u.todo \subseteq enabled,
             t.acct \in owed' => u.pc = "sync" /\ t.acct \in u.todo
      PROVE  Inv'
  <2>1. \A a \in owed' : Coming(t, a) => Coming(u, a)
    BY <1>6 DEF Coming, Registered
  <2>2. /\ \A x \in threads' : x \in Thread /\ ThreadOK(x)
        /\ Todos' /\ Unique' /\ Slots' /\ Begun' /\ PushIsRemembered'
    <3>1. UNCHANGED <<full, active, old, pending>> /\ owed' \subseteq owed
      BY <1>4
    <3> QED
      BY <1>1, <1>5, <1>6, <2>1, <3>1, MoveKeeps
  <2>3. Timely'
    BY <1>4, <1>6, MoveIsTimely
  <2>4. TypeOK'
    BY <1>4, <1>9, <2>2 DEF TypeOK, ThreadOK
  <2> QED
    BY <2>2, <2>3, <2>4
<1>7. CASE Becomes(t, u2) /\ t.acct \notin owed'
  BY <1>3, <1>6, <1>7 DEF Todo
<1>8. CASE Becomes(t, u1)
  <2>1. t.acct \in owed' => t.acct \in u1.todo
    <3>1. All \notin owed'
      BY <1>4, SyncAssumption DEF TypeOK, All
    <3> QED
      BY <1>3, <1>4, <3>1
  <2>2. Todo(u1) /\ u1.todo \subseteq enabled
    BY <1>3 DEF Todo
  <2> QED
    BY <1>3, <1>6, <1>8, <2>1, <2>2
<1> QED
  BY <1>4, <1>7, <1>8

\* Taking up or passing over the next account keeps the invariant.
LEMMA BeginKeeps ==
    ASSUME Inv, NEW t \in threads, Begin(t)
    PROVE  Inv'
PROOF
<1> USE DEF Inv
<1>1. t \in Thread /\ ThreadOK(t) /\ Todo(t) /\ t.pc = "sync" /\ t.gen # 0
  BY ThreadFacts DEF Todos, ThreadOK, Begin
<1>2. PICK a \in t.todo :
        /\ Becomes(t, IF Mark(t, a) \in ahead THEN [t EXCEPT !.todo = @ \ {a}]
                       ELSE [At(t, "fetch") EXCEPT !.cur = a, !.seen = failures[a]])
        /\ ahead' = ahead \ {Mark(t, a)}
        /\ owed' = owed \ {a}
  BY DEF Begin
<1>3. UNCHANGED <<full, active, old, pending, failures, waiting, enabled, streak, revoked,
                  countVars>>
  BY DEF Begin
<1>4. a \in Accounts /\ failures[a] \in 0..N
  BY <1>1 DEF TypeOK, Thread
<1>5. ASSUME NEW u \in Thread, u.who = t.who, u.acct = t.acct, u.gen = t.gen, Becomes(t, u),
             \/ u.pc = "sync" /\ u.todo = t.todo \ {a}
             \/ u.pc = "fetch" /\ u.todo = t.todo /\ u.cur = a /\ u.seen = failures[a]
      PROVE  Inv'
  <2>1. \A b \in owed' : ~Coming(t, b) \/ (u.pc = "sync" /\ Coming(u, b))
    <3> SUFFICES ASSUME NEW b \in owed', Coming(t, b) PROVE u.pc = "sync" /\ Coming(u, b)
      OBVIOUS
    <3>1. b = t.acct /\ b \in t.todo /\ b # a /\ t.acct # All
      BY <1>1, <1>2, SyncAssumption DEF Coming, TypeOK, All
    <3> QED
      BY <1>1, <3>1 DEF Todo
  <2>2. /\ Todo(u) /\ u.pc # "forget"
        /\ u.pc \in {"fetch", "hung", "doomed"} => u.cur \in u.todo
    BY <1>1, <1>5 DEF Todo
  <2>3. t.acct # All /\ Started(t) => Started(u)
    BY <1>1, <1>5 DEF Started
  <2>4. /\ \A x \in threads' : x \in Thread /\ ThreadOK(x)
        /\ Todos' /\ Unique' /\ Slots' /\ Begun' /\ PushIsRemembered'
    <3>1. UNCHANGED <<full, active, old, pending>> /\ owed' \subseteq owed
      BY <1>2, <1>3
    <3> QED
      BY <1>1, <1>5, <2>1, <2>2, <2>3, <3>1, MoveKeeps
  <2>5. Timely'
    <3>1. hangs = 0 => t.todo \subseteq enabled
      BY DEF Timely
    <3>2. UNCHANGED <<full, active, old, failures, enabled, streak, hangs>>
      BY <1>3 DEF countVars
    <3> QED
      BY <1>5, <3>1, <3>2, MoveIsTimely
  <2>6. TypeOK'
    BY <1>2, <1>3, <2>4 DEF TypeOK, ThreadOK, countVars
  <2> QED
    BY <2>4, <2>5, <2>6
<1>6. CASE Mark(t, a) \in ahead
  <2> DEFINE u == [t EXCEPT !.todo = @ \ {a}]
  <2>1. /\ u \in Thread /\ u.who = t.who /\ u.acct = t.acct /\ u.gen = t.gen
        /\ u.pc = "sync" /\ u.todo = t.todo \ {a}
    BY <1>1, <1>4 DEF At, Thread
  <2>2. Becomes(t, u)
    BY <1>2, <1>6
  <2> HIDE DEF u
  <2> QED
    BY <1>5, <2>1, <2>2
<1>7. CASE Mark(t, a) \notin ahead
  <2> DEFINE u == [At(t, "fetch") EXCEPT !.cur = a, !.seen = failures[a]]
  <2>1. /\ u \in Thread /\ u.who = t.who /\ u.acct = t.acct /\ u.gen = t.gen
        /\ u.pc = "fetch" /\ u.todo = t.todo /\ u.cur = a /\ u.seen = failures[a]
    BY <1>1, <1>4 DEF At, Thread
  <2>2. Becomes(t, u)
    BY <1>2, <1>7
  <2> HIDE DEF u
  <2> QED
    BY <1>5, <2>1, <2>2
<1> QED
  BY <1>6, <1>7

\* A sync that goes on with an account it has fetched, or is through with it.
Outcomes(t) == {Fetched(t), At(t, "doomed"), [At(t, "forget") EXCEPT !.todo = @ \ {t.cur}]}

LEMMA NextFacts ==
    ASSUME Inv, NEW t \in threads, t.pc \in {"fetch", "doomed", "forget"}, NEW u \in Outcomes(t)
    PROVE  /\ t \in Thread /\ t.gen # 0 /\ t.cur \in Accounts
           /\ u \in Thread /\ u.who = t.who /\ u.acct = t.acct /\ u.gen = t.gen
           /\ u.pc \in {"sync", "doomed", "forget"}
           /\ u.pc = "doomed" => u.todo = t.todo /\ u.cur = t.cur
           /\ u.pc = "forget" => u.cur = t.cur
           /\ u.pc # "doomed" => u.todo = t.todo \ {t.cur}
PROOF
<1>1. t \in Thread /\ ThreadOK(t) /\ t.gen # 0 /\ t.cur \in Accounts
  <2>1. t \in Thread /\ ThreadOK(t)
    BY ThreadFacts DEF Inv
  <2>2. t.todo \subseteq Accounts /\ t.cur \in Accounts \cup {All}
    BY <2>1 DEF Thread
  <2> QED
    BY <2>1, <2>2 DEF ThreadOK
<1>2. CASE u = Fetched(t)
  BY <1>1, <1>2, Records
<1>3. CASE u = At(t, "doomed")
  BY <1>1, <1>3, Records
<1>4. CASE u = [At(t, "forget") EXCEPT !.todo = @ \ {t.cur}]
  BY <1>1, <1>4 DEF At, Thread
<1> QED
  BY <1>2, <1>3, <1>4 DEF Outcomes

\* What the outcomes of a sync share.
LEMMA DoneKeeps ==
    ASSUME Inv, NEW t \in threads, t.pc \in {"fetch", "doomed", "forget"},
           NEW u \in Outcomes(t), Becomes(t, u), u.pc = "doomed" => t.pc # "forget",
           UNCHANGED <<full, active, old, pending, owed>>
    PROVE  /\ \A x \in threads' : x \in Thread /\ ThreadOK(x)
           /\ Todos' /\ Unique' /\ Slots' /\ Begun' /\ PushIsRemembered'
PROOF
<1> USE DEF Inv
<1>1. Todo(t) /\ ThreadOK(t)
  BY ThreadFacts DEF Todos
<1>2. /\ t \in Thread /\ t.gen # 0 /\ t.cur \in Accounts
      /\ u \in Thread /\ u.who = t.who /\ u.acct = t.acct /\ u.gen = t.gen
      /\ u.pc \in {"sync", "doomed", "forget"}
      /\ u.pc = "doomed" => u.todo = t.todo /\ u.cur = t.cur
      /\ u.pc = "forget" => u.cur = t.cur
      /\ u.pc # "doomed" => u.todo = t.todo \ {t.cur}
  BY NextFacts
<1>3. Todo(u)
  BY <1>1, <1>2 DEF Todo, ThreadOK
<1>4. t.acct # All => t.acct \notin t.todo \ {t.cur}
  <2>1. CASE t.pc \in {"fetch", "doomed"}
    BY <1>1, <2>1 DEF ThreadOK, Todo
  <2>2. CASE t.pc = "forget"
    BY <1>1, <2>2 DEF ThreadOK, Todo
  <2> QED
    BY <2>1, <2>2
<1>5. t.acct # All /\ Started(t) => Started(u)
  BY <1>2, <1>4 DEF Started
<1>6. \A a \in owed' : ~Coming(t, a)
  BY DEF Coming
<1>7. UNCHANGED <<full, active, old, pending>> /\ owed' \subseteq owed
  OBVIOUS
<1>8. /\ u.pc \in {"fetch", "hung", "doomed"} => u.cur \in u.todo
      /\ u.pc = "forget" => u.cur # All
  BY <1>1, <1>2, SyncAssumption DEF ThreadOK, All
<1> QED
  BY <1>2, <1>3, <1>5, <1>6, <1>7, <1>8, MoveKeeps

\* With no call hung, an outcome that sets the count of its account to that of the
\* failures in a row, or takes the account away, keeps Timely.
LEMMA DoneIsTimely ==
    ASSUME Inv, NEW t \in threads, t.pc \in {"fetch", "doomed", "forget"},
           NEW u \in Outcomes(t), Becomes(t, u),
           UNCHANGED <<full, active, old, hangs>>,
           \A a \in Accounts \ {t.cur} :
               failures'[a] = failures[a] /\ streak'[a] = streak[a],
           \/ enabled' = enabled
           \/ enabled' = enabled \ {t.cur} /\ u.pc # "doomed",
           hangs = 0 /\ u.pc = "doomed" => streak'[t.cur] = N,
           hangs = 0 /\ u.pc = "forget" => t.cur \notin enabled',
           hangs = 0 /\ t.cur \in enabled' => failures'[t.cur] = streak'[t.cur]
    PROVE  Timely'
PROOF
<1> USE DEF Inv
<1> SUFFICES ASSUME hangs = 0 PROVE Timely'
  BY DEF Timely
<1>1. t.cur \in Accounts /\ (t.cur \in t.todo \/ t.cur \notin enabled)
  BY NextFacts, ThreadFacts DEF ThreadOK, Timely
<1>2. /\ u.acct = t.acct /\ u.gen = t.gen /\ u.pc \in {"sync", "doomed", "forget"}
      /\ u.pc = "doomed" => u.todo = t.todo /\ u.cur = t.cur
      /\ u.pc = "forget" => u.cur = t.cur
      /\ u.pc # "doomed" => u.todo = t.todo \ {t.cur}
  BY NextFacts
<1>3. threads' = (threads \ {t}) \cup {u}
  BY DEF Becomes
<1>4. \A x : Registered(x)' <=> Registered(x)
  BY DEF Registered
<1>5. Registered(u) <=> Registered(t)
  BY <1>2 DEF Registered
<1>6. ASSUME NEW x \in threads \ {t}
      PROVE  /\ x.pc # "hung" /\ (x.gen # 0 => Registered(x)')
             /\ x.todo \subseteq enabled' /\ (x.pc = "fetch" => x.seen = failures'[x.cur])
             /\ x.pc = "doomed" => streak'[x.cur] = N
             /\ x.pc = "forget" => x.cur \notin enabled'
  <2>1. t.cur \notin x.todo
    <3>1. x.todo \subseteq enabled
      BY DEF Timely
    <3> QED
      BY <1>1, <3>1, Alone
  <2>2. /\ x.pc \in {"fetch", "doomed"} => x.cur \in x.todo /\ x.todo \subseteq Accounts
    BY ThreadFacts DEF ThreadOK, Thread
  <2>3. enabled' \subseteq enabled
    OBVIOUS
  <2> QED
    BY <1>4, <2>1, <2>2, <2>3 DEF Timely
<1>7. u.gen # 0 => Registered(u)'
  BY <1>2, <1>4, <1>5 DEF Timely
<1>8. u.todo \subseteq enabled'
  BY <1>2 DEF Timely
<1>9. \A a \in enabled' : failures'[a] = streak'[a]
  BY DEF Timely, TypeOK
<1> QED
  BY <1>2, <1>3, <1>6, <1>7, <1>8, <1>9 DEF Timely

\* Popping an entry keeps the types.
LEMMA PoppedTyped ==
    ASSUME TypeOK, NEW a \in Accounts, Popped(a)
    PROVE  /\ failures' \in [Accounts -> 0..N] /\ waiting' \subseteq Accounts
           /\ \A b \in waiting' : failures'[b] > 0
           /\ ahead' \subseteq (Accounts \cup {All}) \X Gens \X Accounts
PROOF
<1>1. 0 \in 0..N
  BY SyncAssumption
<1>2. ahead' \subseteq ahead
  BY DEF Popped
<1> QED
  BY <1>1, <1>2 DEF TypeOK, Popped

\* A successful sync keeps the invariant.
LEMMA SyncedKeeps ==
    ASSUME Inv, NEW t \in threads, Synced(t)
    PROVE  Inv'
PROOF
<1> USE DEF Inv
<1>1. /\ t.pc = "fetch" /\ Becomes(t, Fetched(t)) /\ Popped(t.cur)
      /\ UNCHANGED <<full, active, old, pending, owed, hangs, enabled, calls, mishaps>>
  BY DEF Synced, countVars
<1>2. Fetched(t) \in Outcomes(t)
  BY DEF Outcomes
<1>3. t.cur \in Accounts /\ Fetched(t).pc = "sync" /\ t \in Thread
  BY <1>1, <1>2, NextFacts, Records
<1>4. /\ \A x \in threads' : x \in Thread /\ ThreadOK(x)
      /\ Todos' /\ Unique' /\ Slots' /\ Begun' /\ PushIsRemembered'
  BY <1>1, <1>2, <1>3, DoneKeeps
<1>5. TypeOK'
  <2>1. streak' \in [Accounts -> 0..N] /\ revoked' \in [Accounts -> 0..N]
    <3>1. 0 \in 0..N
      BY SyncAssumption
    <3> QED
      BY <3>1 DEF TypeOK, Synced
  <2>2. /\ failures' \in [Accounts -> 0..N] /\ waiting' \subseteq Accounts
        /\ \A b \in waiting' : failures'[b] > 0
        /\ ahead' \subseteq (Accounts \cup {All}) \X Gens \X Accounts
    BY <1>1, <1>3, PoppedTyped
  <2> QED
    BY <1>1, <1>4, <2>1, <2>2 DEF TypeOK, ThreadOK
<1>6. Timely'
  <2>1. /\ \A a \in Accounts \ {t.cur} : failures'[a] = failures[a] /\ streak'[a] = streak[a]
        /\ failures'[t.cur] = streak'[t.cur]
    BY <1>1, <1>3 DEF Synced, Popped, TypeOK
  <2> QED
    BY <1>1, <1>2, <1>3, <2>1, DoneIsTimely
<1> QED
  BY <1>4, <1>5, <1>6

\* A sync that fails for another reason keeps the invariant, and so does a failed attempt
\* to deactivate the account.
LEMMA FailedKeeps ==
    ASSUME Inv, NEW t \in threads, t.pc \in {"fetch", "doomed"}, Becomes(t, Fetched(t)),
           UNCHANGED <<full, active, old, pending, owed, hangs, calls, authVars>>,
           mishaps' \in 0..MaxMishaps
    PROVE  Inv'
PROOF
<1> USE DEF Inv
<1>1. Fetched(t) \in Outcomes(t)
  BY DEF Outcomes
<1>2. t \in Thread /\ Fetched(t).pc = "sync"
  BY ThreadFacts, Records
<1>3. /\ \A x \in threads' : x \in Thread /\ ThreadOK(x)
      /\ Todos' /\ Unique' /\ Slots' /\ Begun' /\ PushIsRemembered'
  BY <1>1, <1>2, DoneKeeps
<1>4. TypeOK'
  BY <1>3 DEF TypeOK, ThreadOK, authVars
<1>5. Timely'
  <2>1. /\ \A a \in Accounts \ {t.cur} : failures'[a] = failures[a] /\ streak'[a] = streak[a]
        /\ enabled' = enabled
        /\ hangs = 0 /\ t.cur \in enabled' => failures'[t.cur] = streak'[t.cur]
    BY DEF authVars, Timely
  <2> QED
    BY <1>1, <1>2, <2>1, DoneIsTimely
<1> QED
  BY <1>3, <1>4, <1>5

\* A failed authentication: with no call hung, the count that was read is the count of
\* the account, so the sum is that of the failures in a row.
LEMMA AuthCounts ==
    ASSUME Inv, NEW t \in threads, NEW permanent \in BOOLEAN, AuthFailed(t, permanent),
           hangs = 0
    PROVE  t.cur \in enabled /\ streak'[t.cur] = Plus(t.seen)
PROOF
<1>1. t.cur \in t.todo /\ t.cur \in Accounts /\ t.pc = "fetch"
  BY ThreadFacts DEF Inv, AuthFailed, ThreadOK, Thread
<1>2. t.cur \in enabled /\ t.seen = streak[t.cur]
  BY <1>1 DEF Inv, Timely
<1> QED
  BY <1>1, <1>2 DEF Inv, TypeOK, AuthFailed

LEMMA AuthFailedKeeps ==
    ASSUME Inv, NEW t \in threads, NEW permanent \in BOOLEAN, AuthFailed(t, permanent)
    PROVE  Inv'
PROOF
<1> USE DEF Inv
<1> DEFINE u == IF permanent /\ t.seen + 1 >= N THEN At(t, "doomed") ELSE Fetched(t)
<1>1. t \in Thread /\ t.cur \in Accounts /\ t.seen \in 0..N
  BY ThreadFacts DEF AuthFailed, ThreadOK, Thread
<1>2. /\ t.pc = "fetch" /\ Becomes(t, u) /\ u \in Outcomes(t)
      /\ UNCHANGED <<full, active, old, pending, owed, hangs, calls, enabled>>
      /\ mishaps' \in 0..MaxMishaps
  BY SyncAssumption DEF AuthFailed, TypeOK, Outcomes
<1>3. /\ u.pc # "forget"
      /\ u.pc = "doomed" => t.seen + 1 >= N
  BY <1>1, Records
<1> HIDE DEF u
<1>4. /\ \A x \in threads' : x \in Thread /\ ThreadOK(x)
      /\ Todos' /\ Unique' /\ Slots' /\ Begun' /\ PushIsRemembered'
  BY <1>2, DoneKeeps
<1>5. \A n \in 0..N : Plus(n) \in 1..N /\ Plus(n) \in 0..N /\ Plus(n) > 0
  BY SyncAssumption DEF Plus
<1>6. TypeOK'
  <2>1. /\ streak[t.cur] \in 0..N /\ revoked[t.cur] \in 0..N /\ 0 \in 0..N
    <3>1. streak[t.cur] \in 0..N /\ revoked[t.cur] \in 0..N
      BY <1>1 DEF TypeOK
    <3>2. 0 \in 0..N
      BY SyncAssumption
    <3> QED
      BY <3>1, <3>2
  <2>2. /\ Plus(t.seen) \in 0..N /\ Plus(t.seen) > 0
        /\ Plus(streak[t.cur]) \in 0..N /\ Plus(revoked[t.cur]) \in 0..N
    BY <1>1, <1>5, <2>1
  <2>3. failures' \in [Accounts -> 0..N]
    BY <1>1, <2>2 DEF AuthFailed, TypeOK
  <2>4. streak' \in [Accounts -> 0..N] /\ revoked' \in [Accounts -> 0..N]
    BY <1>1, <2>1, <2>2 DEF AuthFailed, TypeOK
  <2>5. \A a \in waiting' : a \in Accounts /\ failures'[a] > 0
    BY <1>1, <2>2 DEF AuthFailed, TypeOK
  <2>6. ahead' \subseteq (Accounts \cup {All}) \X Gens \X Accounts
    <3>1. \A x \in threads : t.cur \in x.todo =>
             Mark(x, t.cur) \in (Accounts \cup {All}) \X Gens \X Accounts
      <4>1. ASSUME NEW x \in threads, t.cur \in x.todo
            PROVE  x \in Thread /\ x.gen # 0
        BY <4>1, ThreadFacts DEF Todos, Todo, ThreadOK
      <4> QED
        BY <1>1, <4>1 DEF Mark, Thread
    <3>2. ahead' \subseteq ahead \cup {Mark(x, t.cur) : x \in {y \in threads : t.cur \in y.todo}}
      BY DEF AuthFailed
    <3> QED
      BY <3>1, <3>2 DEF TypeOK
  <2> QED
    BY <1>2, <1>4, <2>3, <2>4, <2>5, <2>6 DEF TypeOK, ThreadOK
<1>7. Timely'
  <2>1. /\ \A a \in Accounts \ {t.cur} : failures'[a] = failures[a] /\ streak'[a] = streak[a]
        /\ failures'[t.cur] = Plus(t.seen)
    BY <1>1 DEF AuthFailed, TypeOK
  <2>2. hangs = 0 => streak'[t.cur] = Plus(t.seen)
    BY AuthCounts
  <2>3. u.pc = "doomed" => Plus(t.seen) = N
    BY <1>1, <1>3, SyncAssumption DEF Plus
  <2> QED
    BY <1>2, <1>3, <2>1, <2>2, <2>3, DoneIsTimely
<1> QED
  BY <1>4, <1>6, <1>7

\* The deactivation of an account, and the end of its back-off, keep the invariant.
LEMMA DeactivateKeeps ==
    ASSUME Inv, NEW t \in threads, Deactivate(t)
    PROVE  Inv'
PROOF
<1> USE DEF Inv
<1> DEFINE u == [At(t, "forget") EXCEPT !.todo = @ \ {t.cur}]
<1>1. /\ t.pc = "doomed"
      /\ UNCHANGED <<full, active, old, pending, failures, waiting, ahead, streak, revoked,
                     calls, hangs, mishaps, owed>>
  BY DEF Deactivate, countVars
<1>2. CASE Becomes(t, Fetched(t)) /\ UNCHANGED enabled
  <2>1. mishaps' \in 0..MaxMishaps /\ UNCHANGED authVars
    BY <1>1, <1>2 DEF TypeOK, authVars
  <2> QED
    BY <1>1, <1>2, <2>1, FailedKeeps
<1>3. CASE Becomes(t, u) /\ enabled' = enabled \ {t.cur}
  <2>1. u \in Outcomes(t)
    BY DEF Outcomes
  <2>2. u.pc = "forget"
    BY ThreadFacts DEF At, Thread
  <2> HIDE DEF u
  <2>3. /\ \A x \in threads' : x \in Thread /\ ThreadOK(x)
        /\ Todos' /\ Unique' /\ Slots' /\ Begun' /\ PushIsRemembered'
    BY <1>1, <1>3, <2>1, <2>2, DoneKeeps
  <2>4. TypeOK'
    BY <1>1, <1>3, <2>3 DEF TypeOK, ThreadOK
  <2>5. Timely'
    BY <1>1, <1>3, <2>1, <2>2, DoneIsTimely
  <2> QED
    BY <2>3, <2>4, <2>5
<1> QED
  BY <1>2, <1>3 DEF Deactivate

LEMMA ForgetKeeps ==
    ASSUME Inv, NEW t \in threads, Forget(t)
    PROVE  Inv'
PROOF
<1> USE DEF Inv
<1>1. /\ t.pc = "forget" /\ Becomes(t, Fetched(t)) /\ Popped(t.cur)
      /\ UNCHANGED <<full, active, old, pending, owed, hangs, enabled, streak, revoked,
                     calls, mishaps>>
  BY DEF Forget, countVars
<1>2. Fetched(t) \in Outcomes(t)
  BY DEF Outcomes
<1>3. t.cur \in Accounts /\ Fetched(t).pc = "sync" /\ t \in Thread
  BY <1>1, <1>2, NextFacts, Records
<1>4. /\ \A x \in threads' : x \in Thread /\ ThreadOK(x)
      /\ Todos' /\ Unique' /\ Slots' /\ Begun' /\ PushIsRemembered'
  BY <1>1, <1>2, <1>3, DoneKeeps
<1>5. TypeOK'
  <2>1. /\ failures' \in [Accounts -> 0..N] /\ waiting' \subseteq Accounts
        /\ \A b \in waiting' : failures'[b] > 0
        /\ ahead' \subseteq (Accounts \cup {All}) \X Gens \X Accounts
    BY <1>1, <1>3, PoppedTyped
  <2> QED
    BY <1>1, <1>4, <2>1 DEF TypeOK, ThreadOK
<1>6. Timely'
  <2>1. /\ \A a \in Accounts \ {t.cur} : failures'[a] = failures[a] /\ streak'[a] = streak[a]
    BY <1>1 DEF Popped, TypeOK
  <2>2. hangs = 0 => t.cur \notin enabled
    BY <1>1 DEF Timely
  <2> QED
    BY <1>1, <1>2, <1>3, <2>1, <2>2, DoneIsTimely
<1> QED
  BY <1>4, <1>5, <1>6

\* Time, and calls that hang, keep the invariant.
LEMMA HangKeeps ==
    ASSUME Inv, NEW t \in threads, Hang(t) \/ Wake(t)
    PROVE  Inv'
PROOF
<1> USE DEF Inv
<1>1. t \in Thread /\ ThreadOK(t) /\ Todo(t) /\ t.gen # 0 /\ t.cur \in t.todo
  BY ThreadFacts DEF Todos, ThreadOK, Hang, Wake
<1>2. PICK pc \in {"fetch", "hung"} :
        /\ t.pc \in {"fetch", "hung"} /\ Becomes(t, At(t, pc))
        /\ \/ t.pc = "fetch" /\ pc = "hung" /\ hangs < MaxHangs /\ hangs' = hangs + 1
           \/ t.pc = "hung" /\ pc = "fetch" /\ hangs' = hangs
        /\ UNCHANGED <<full, active, old, pending, authVars, calls, mishaps, owed>>
  BY DEF Hang, Wake, countVars
<1>3. /\ At(t, pc) \in Thread /\ At(t, pc).who = t.who
      /\ At(t, pc).acct = t.acct /\ At(t, pc).gen = t.gen /\ At(t, pc).pc = pc
      /\ At(t, pc).todo = t.todo /\ At(t, pc).cur = t.cur
  BY <1>1, Records
<1>4. Todo(At(t, pc)) /\ Started(At(t, pc)) /\ \A a \in owed' : ~Coming(t, a)
  BY <1>1, <1>2, <1>3 DEF Todo, Started, Coming
<1>5. /\ \A x \in threads' : x \in Thread /\ ThreadOK(x)
      /\ Todos' /\ Unique' /\ Slots' /\ Begun' /\ PushIsRemembered'
  <2>1. UNCHANGED <<full, active, old, pending>> /\ owed' \subseteq owed
    BY <1>2
  <2> QED
    BY <1>1, <1>2, <1>3, <1>4, <2>1, MoveKeeps
<1>6. TypeOK'
  BY <1>2, <1>5, SyncAssumption DEF TypeOK, ThreadOK, authVars
<1>7. hangs' # 0
  BY <1>2, SyncAssumption DEF TypeOK, Timely
<1> QED
  BY <1>5, <1>6, <1>7 DEF Timely

LEMMA AgeKeeps ==
    ASSUME Inv, NEW t \in threads, Age(t)
    PROVE  Inv'
PROOF
<1> USE DEF Inv
<1>1. t \in Thread /\ ThreadOK(t) /\ t.pc = "hung" /\ Registered(t)
  BY ThreadFacts DEF Age
<1>2. /\ old' = old \cup {t.acct}
      /\ UNCHANGED <<full, active, pending, threads, authVars, countVars, owed>>
  BY DEF Age
<1>3. TypeOK'
  BY <1>1, <1>2 DEF TypeOK, ThreadOK, Thread, authVars, countVars
<1>4. \A x : Registered(x)' <=> Registered(x)
  BY <1>2 DEF Registered
<1>5. Begun'
  <2> SUFFICES ASSUME NEW x \in threads, x.acct # All, x.acct \in old', Registered(x)
               PROVE  Started(x)
    BY <1>2, <1>4 DEF Begun, Started
  <2>1. CASE x.acct = t.acct
    <3>1. x.gen = t.gen /\ t.gen # 0
      BY <1>1, <2>1 DEF Registered, ThreadOK
    <3>2. x = t
      BY <2>1, <3>1 DEF Unique
    <3> QED
      BY <1>1, <3>2 DEF Started
  <2>2. CASE x.acct \in old
    BY <2>2 DEF Begun
  <2> QED
    BY <1>2, <2>1, <2>2
<1>6. Timely'
  BY <1>1, <1>2 DEF Timely, countVars
<1>7. Todos' /\ Unique' /\ Slots'
  BY <1>2 DEF Todos, Todo, Unique, Slots, Busy
<1>8. PushIsRemembered'
  BY <1>2 DEF PushIsRemembered, Registered
<1> QED
  BY <1>3, <1>5, <1>6, <1>7, <1>8

LEMMA ElapseKeeps ==
    ASSUME Inv, NEW a \in Accounts, Elapse(a)
    PROVE  Inv'
PROOF
<1> USE DEF Inv, Elapse, slotVars, countVars
<1>1. TypeOK'
  BY DEF TypeOK
<1>2. Todos' /\ Unique' /\ Slots' /\ Begun'
  BY DEF Todos, Todo, Unique, Slots, Busy, Begun, Started, Registered
<1>3. PushIsRemembered' /\ Timely'
  BY DEF PushIsRemembered, Timely, Registered
<1> QED
  BY <1>1, <1>2, <1>3

\* The actions that only clear or begin.
LEMMA CallKeeps ==
    ASSUME Inv, TriggerSync \/ Status \/ Tick
    PROVE  Inv'
PROOF
<1>1. calls \in 0..MaxCalls /\ MaxCalls \in Nat
  BY SyncAssumption DEF Inv, TypeOK
<1>2. CASE TriggerSync
  <2>1. /\ threads' = threads \cup {Spawned("user", All, 0)} /\ calls' \in 0..MaxCalls
        /\ ClearStale \/ UNCHANGED <<full, active, old>>
        /\ UNCHANGED <<pending, authVars, hangs, mishaps, owed>>
    BY <1>1, <1>2 DEF TriggerSync
  <2> QED
    BY <2>1, ClearKeeps
<1>3. CASE Status
  <2>1. /\ threads' = threads \cup {} /\ calls' \in 0..MaxCalls /\ ClearStale
        /\ UNCHANGED <<pending, authVars, hangs, mishaps, owed>>
    BY <1>1, <1>3 DEF Status, countVars
  <2> QED
    BY <2>1, ClearKeeps
<1>4. CASE Tick
  <2>1. /\ threads' = threads \cup {Spawned("loop", All, 0)} /\ calls' \in 0..MaxCalls
        /\ UNCHANGED <<full, active, old>>
        /\ UNCHANGED <<pending, authVars, hangs, mishaps, owed>>
    BY <1>1, <1>4 DEF Tick, countVars
  <2> QED
    BY <2>1, ClearKeeps
<1> QED
  BY <1>2, <1>3, <1>4

-----------------------------------------------------------------------------
(* Theorems. *)

LEMMA InvNext == Inv /\ [Next]_vars => Inv'
PROOF
<1> SUFFICES ASSUME Inv, [Next]_vars PROVE Inv'
  OBVIOUS
<1>1. ASSUME NEW a \in Accounts, TriggerAccount(a) \/ Elapse(a) PROVE Inv'
  BY <1>1, TriggerAccountKeeps, ElapseKeeps
<1>2. CASE TriggerSync \/ Status \/ Tick
  BY <1>2, CallKeeps
<1>3. ASSUME NEW t \in threads, Work(t) PROVE Inv'
  <2>1. CASE Claim(t)
    BY <2>1, ClaimKeeps
  <2>2. CASE Load(t)
    BY <2>2, LoadKeeps
  <2>3. CASE Begin(t)
    BY <2>3, BeginKeeps
  <2>4. CASE Finish(t)
    BY <2>4, FinishKeeps
  <2>5. CASE Synced(t)
    BY <2>5, SyncedKeeps
  <2>6. CASE Failed(t)
    <3>1. /\ t.pc = "fetch" /\ Becomes(t, Fetched(t)) /\ mishaps' \in 0..MaxMishaps
          /\ UNCHANGED <<full, active, old, pending, owed, hangs, calls, authVars>>
      BY <2>6, SyncAssumption DEF Failed, Inv, TypeOK
    <3> QED
      BY <3>1, FailedKeeps
  <2>7. ASSUME NEW permanent \in BOOLEAN, AuthFailed(t, permanent) PROVE Inv'
    BY <2>7, AuthFailedKeeps
  <2>8. CASE Deactivate(t) \/ Forget(t)
    BY <2>8, DeactivateKeeps, ForgetKeeps
  <2> QED
    BY <1>3, <2>1, <2>2, <2>3, <2>4, <2>5, <2>6, <2>7, <2>8 DEF Work
<1>4. ASSUME NEW t \in threads, Hang(t) \/ Wake(t) \/ Age(t) PROVE Inv'
  BY <1>4, HangKeeps, AgeKeeps
<1>5. CASE UNCHANGED vars
  <2>1. TypeOK'
    BY <1>5 DEF Inv, TypeOK, vars, slotVars, authVars, countVars
  <2>2. Todos' /\ Unique' /\ Slots' /\ Begun'
    BY <1>5 DEF Inv, Todos, Todo, Unique, Slots, Busy, Begun, Started, Registered, vars, slotVars
  <2>3. PushIsRemembered' /\ Timely'
    BY <1>5 DEF Inv, PushIsRemembered, Timely, Registered, vars, slotVars, authVars, countVars
  <2> QED
    BY <2>1, <2>2, <2>3 DEF Inv
<1> QED
  BY <1>1, <1>2, <1>3, <1>4, <1>5 DEF Next

\* The inductive invariant holds of every behaviour of the sync service.
THEOREM SyncInvariant == Spec => []Inv
PROOF
<1> QED
  BY InvInit, InvNext, PTL DEF Spec

\* Variables keep their types; in particular a thread past its claim has a number.
THEOREM SyncTypes == Spec => []TypeOK
PROOF
<1>1. Inv => TypeOK
  BY DEF Inv
<1> QED
  BY <1>1, SyncInvariant, PTL

\* Full and account syncs keep apart, an account has one sync, and the account syncs
\* keep within the cap, whatever has become stale (_has_structured_sync_locked and the
\* slots of _reserve_account_syncs_locked).
THEOREM ApartCorrect == Spec => []SyncsApart
PROOF
<1>1. Inv => SyncsApart
  <2> SUFFICES ASSUME Inv PROVE SyncsApart
    OBVIOUS
  <2>1. Slots
    BY DEF Inv
  <2> QED
    BY <2>1, ClaimedApart DEF SyncsApart, Slots
<1> QED
  BY <1>1, SyncInvariant, PTL

\* A push waits in _pending_account_sync_ids or has a thread on its way, until a sync of
\* its account has begun, its account is found inactive, or the load fails.
THEOREM PushCorrect == Spec => []PushIsRemembered
PROOF
<1>1. Inv => PushIsRemembered
  BY DEF Inv
<1> QED
  BY <1>1, SyncInvariant, PTL

\* A thread that ends releases no reservation but its own (the generation in the
\* finally block of _perform_sync).
THEOREM ReleaseCorrect == Spec => OthersKeepTheirs
PROOF
<1> DEFINE Keeps ==
      \A t \in threads \ threads' : \A a \in Accounts \ old :
          /\ active[a] # 0 /\ ~(t.acct = a /\ t.gen = active[a]) => active'[a] = active[a]
          /\ full # 0 /\ t.gen # full /\ All \notin old => full' = full
<1>1. ASSUME Inv, [Next]_vars PROVE [Keeps]_vars
  <2>1. ASSUME NEW t \in threads \ threads', NEW a \in Accounts \ old
        PROVE  /\ active[a] # 0 /\ ~(t.acct = a /\ t.gen = active[a]) => active'[a] = active[a]
               /\ full # 0 /\ t.gen # full /\ All \notin old => full' = full
    <3>1. CASE UNCHANGED <<full, active>>
      BY <3>1
    <3>2. CASE UNCHANGED threads
      BY <3>2
    <3>3. CASE threads \subseteq threads'
      BY <3>3
    <3>4. ASSUME NEW u \in threads, Claim(u)
          PROVE  /\ active[a] # 0 => active'[a] = active[a]
                 /\ full # 0 /\ All \notin old => full' = full
      <4>1. active' = ActiveCleared /\ (full' = FullCleared \/ FullCleared = 0)
        BY <1>1, <3>4, ClaimFacts
      <4> QED
        BY <4>1 DEF ActiveCleared, FullCleared
    <3>5. ASSUME NEW u \in threads, Finish(u)
          PROVE  /\ active[a] # 0 /\ ~(t.acct = a /\ t.gen = active[a]) => active'[a] = active[a]
                 /\ full # 0 /\ t.gen # full /\ All \notin old => full' = full
      <4> DEFINE f == IF u.acct = All /\ full = u.gen THEN 0 ELSE full
                 mine == u.acct # All /\ active[u.acct] = u.gen
                 act == IF mine THEN [active EXCEPT ![u.acct] = 0] ELSE active
                 oldies == IF mine \/ f # full THEN old \ {u.acct} ELSE old
      <4>1. Reserve({}, f, act, oldies, threads \ {u})
        BY <3>5 DEF Finish
      <4>2. t = u
        BY <4>1 DEF Reserve
      <4>3. u \in Thread /\ u.gen # 0
        BY <1>1, <3>5, ThreadFacts DEF Inv, ThreadOK, Finish
      <4>4. Cardinality(Busy(act)) <= CAP /\ pending \subseteq Accounts
        <5>1. Busy(act) \subseteq Busy(active)
          BY DEF Busy, Inv, TypeOK
        <5> HIDE DEF act
        <5>2. Cardinality(Busy(active)) <= CAP
          BY <1>1 DEF Inv, Slots
        <5>3. Cardinality(Busy(act)) <= CAP
          BY <5>1, <5>2, FewerBusy
        <5> QED
          BY <1>1, <5>3 DEF Inv, TypeOK
      <4>5. (act[a] = active[a] \/ (u.acct = a /\ u.gen = active[a])) /\ (f = full \/ full = u.gen)
        BY <1>1, <4>3 DEF Inv, TypeOK, Thread
      <4> HIDE DEF f, mine, act, oldies
      <4>6. {} \in SUBSET Accounts
        OBVIOUS
      <4>7. PICK g \in Gens, ready \in SUBSET Accounts :
               Granted(g, ready, {}, f, act, oldies, threads \ {u})
        BY <4>1, <4>4, <4>6, ReserveFacts, Zenon
      <4>8. full' = f /\ (act[a] # 0 => active'[a] = act[a])
        BY <4>7 DEF Granted, Busy
      <4> QED
        BY <4>2, <4>5, <4>8
    <3>6. ASSUME NEW u \in threads, Load(u) \/ Begin(u) \/ Synced(u) \/ Failed(u)
                                    \/ (\E permanent \in BOOLEAN : AuthFailed(u, permanent))
                                    \/ Deactivate(u) \/ Forget(u) \/ Hang(u) \/ Wake(u)
          PROVE  UNCHANGED <<full, active>>
      BY <3>6 DEF Load, Begin, Synced, Failed, AuthFailed, Deactivate, Forget, Hang, Wake
    <3>7. ASSUME NEW b \in Accounts, TriggerAccount(b) PROVE threads \subseteq threads'
      BY <3>7 DEF TriggerAccount, Reserve
    <3>8. ASSUME NEW b \in Accounts, Elapse(b) PROVE UNCHANGED threads
      BY <3>8 DEF Elapse, slotVars
    <3>9. CASE TriggerSync \/ Status \/ Tick
      BY <3>3, <3>9 DEF TriggerSync, Status, Tick
    <3>10. ASSUME NEW u \in threads, Age(u) PROVE UNCHANGED threads
      BY <3>10 DEF Age
    <3>11. CASE UNCHANGED vars
      BY <3>11 DEF vars, slotVars
    <3>12. CASE Next
      BY <3>1, <3>2, <3>3, <3>4, <3>5, <3>6, <3>7, <3>8, <3>9, <3>10, <3>12 DEF Next, Work
    <3> QED
      BY <1>1, <3>11, <3>12
  <2> QED
    BY <2>1
<1> HIDE DEF Keeps
<1>2. Spec => [][Keeps]_vars
  BY <1>1, SyncInvariant, PTL DEF Spec
<1> QED
  BY <1>2 DEF Keeps, OthersKeepTheirs

\* An account is deactivated by N failed authentications in a row, when no sync hung:
\* the count that _auth_backoff held when the sync began is not out of date.
THEOREM DeactivationCorrect == Spec => DeactivationIsEarned
PROOF
<1> DEFINE Earned == \A a \in enabled \ enabled' : hangs = 0 => streak'[a] = N
<1>1. ASSUME Inv, [Next]_vars PROVE [Earned]_vars
  <2>1. ASSUME NEW t \in threads, Deactivate(t)
        PROVE  Earned
    BY <1>1, <2>1 DEF Deactivate, Inv, Timely
  <2>2. CASE UNCHANGED enabled
    BY <2>2
  <2>3. ASSUME NEW t \in threads, Claim(t) \/ Load(t) \/ Begin(t) \/ Finish(t) \/ Synced(t)
                                  \/ Failed(t) \/ (\E permanent \in BOOLEAN : AuthFailed(t, permanent))
                                  \/ Forget(t) \/ Hang(t) \/ Wake(t) \/ Age(t)
        PROVE  UNCHANGED enabled
    BY <2>3 DEF Claim, Load, Begin, Finish, Synced, Failed, AuthFailed, Forget, Hang, Wake, Age,
                authVars
  <2>4. ASSUME NEW a \in Accounts, TriggerAccount(a) \/ Elapse(a) PROVE UNCHANGED enabled
    BY <2>4 DEF TriggerAccount, Elapse, authVars
  <2>5. CASE TriggerSync \/ Status \/ Tick
    BY <2>2, <2>5 DEF TriggerSync, Status, Tick, authVars
  <2>6. CASE UNCHANGED vars
    BY <2>6 DEF vars
  <2> QED
    BY <1>1, <2>1, <2>2, <2>3, <2>4, <2>5, <2>6 DEF Next, Work
<1> HIDE DEF Earned
<1>2. Spec => [][Earned]_vars
  BY <1>1, SyncInvariant, PTL DEF Spec
<1> QED
  BY <1>2 DEF Earned, DeactivationIsEarned
=============================================================================
