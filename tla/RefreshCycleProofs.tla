------------------------- MODULE RefreshCycleProofs -------------------------
(***************************************************************************)
(* Theorems about RefreshCycle for every registry, every pool and every set *)
(* of error codes.  The pool shares one counter: Claims says what the       *)
(* counter promises a thread that took a number from it, Covered that every *)
(* number taken ends in a slot, and both that nobody else is at work on it. *)
(***************************************************************************)
EXTENDS RefreshCycle, TLAPS

\* Numbers from the counter on are untouched; a number taken is nobody else's.
Claims ==
  /\ \A i \in Adapters : i >= next => slots[i] = Empty /\ results[i] = {}
  /\ \A w \in Workers : Collecting(w) =>
       /\ busy[w] < next
       /\ cursors[busy[w]]
       /\ slots[busy[w]] = Empty /\ results[busy[w]] = {}
  /\ \A v, w \in Workers : Collecting(v) /\ busy[v] = busy[w] => v = w

\* Until a thread panics, every readable number taken is in work or in its slot,
\* and a thread stops only when all numbers are taken.
Covered ==
  /\ \A i \in Adapters : slots[i] # Empty => cursors[i]
  /\ ~panicked => \A i \in Adapters :
       i < next /\ cursors[i] => slots[i] # Empty \/ \E w \in Workers : busy[w] = i
  /\ ~panicked => \A w \in Workers : busy[w] = Gone => next > N

\* After the join nobody collects.
Joined ==
  /\ phase # "collect" => \A w \in Workers : busy[w] = Gone
  /\ phase = "persist" => ~panicked

\* What is in a slot, and in the tables, comes from the adapter itself.
Own ==
  /\ \A i \in Adapters : slots[i] # Empty => slots[i].of = i /\ slots[i] \in results[i]
  /\ \A i \in Adapters : stored[i] \subseteq {i}

Inv == TypeOK /\ Claims /\ Covered /\ Joined /\ Own

-----------------------------------------------------------------------------
LEMMA TypeInit == Init => TypeOK
<1> SUFFICES ASSUME Init PROVE TypeOK
    OBVIOUS
<1>1. busy \in [Workers -> 0..Gone] /\ next \in Nat \ {0} /\ turn \in 0..N
  BY NAssumption DEF Init, Gone
<1>2. /\ slots \in [Adapters -> Results \cup {Empty}]
      /\ results \in [Adapters -> SUBSET Results]
      /\ stored \in [Adapters -> SUBSET Adapters]
  BY DEF Init
<1>3. usage \in Seq(Outcomes) /\ quota \in Seq(Adapters)
  BY DEF Init
<1> QED BY <1>1, <1>2, <1>3 DEF Init, TypeOK

LEMMA EmptyIsNoResult == Empty \notin Results
BY NAssumption DEF Empty, Results, Adapters

LEMMA TypeStep == TypeOK /\ [Next]_vars => TypeOK'
<1> SUFFICES ASSUME TypeOK, [Next]_vars PROVE TypeOK'
    OBVIOUS
<1> USE NAssumption
<1>1. ASSUME NEW w \in Workers, Claim(w) PROVE TypeOK'
  <2>1. (IF next > N THEN Gone ELSE IF cursors[next] THEN next ELSE 0) \in 0..Gone
    BY DEF TypeOK, Gone
  <2> QED BY <1>1, <2>1 DEF Claim, TypeOK, Persisted
<1>2. ASSUME NEW w \in Workers, Panic(w) PROVE TypeOK'
  BY <1>2 DEF Panic, TypeOK, Persisted, Gone
<1>3. ASSUME NEW w \in Workers, NEW code \in Codes, Store(w, code) PROVE TypeOK'
  <2>1. [of |-> busy[w], code |-> code] \in Results
    BY <1>3 DEF Store, Collecting, Results
  <2>2. slots' \in [Adapters -> Results \cup {Empty}]
    BY <1>3, <2>1 DEF Store, TypeOK
  <2>3. results' \in [Adapters -> SUBSET Results]
    BY <1>3, <2>1 DEF Store, TypeOK
  <2>4. busy' \in [Workers -> 0..Gone]
    BY <1>3 DEF Store, TypeOK, Gone
  <2> QED BY <1>3, <2>2, <2>3, <2>4 DEF Store, TypeOK, Persisted
<1>4. CASE Join
  BY <1>4 DEF Join, TypeOK
<1>5. CASE Persist
  <2>1. turn + 1 \in Adapters /\ turn' \in 0..N
    BY <1>5 DEF Persist, TypeOK, Adapters
  <2>2. ASSUME PersistSlot(turn + 1)
        PROVE usage' \in Seq(Outcomes) /\ quota' \in Seq(Adapters)
              /\ stored' \in [Adapters -> SUBSET Adapters]
    <3>1. slots[turn + 1] \in Results
      BY <2>1, <2>2 DEF PersistSlot, TypeOK
    <3>2. [of |-> turn + 1, code |-> slots[turn + 1].code] \in Outcomes
          /\ [of |-> turn + 1, code |-> "STORAGE_FAILURE"] \in Outcomes
      BY <3>1, <2>1, CodesAssumption DEF Outcomes, Results
    <3>3. usage' \in Seq(Outcomes)
      <4>1. \A o \in Outcomes : Append(usage, o) \in Seq(Outcomes)
        BY DEF TypeOK
      <4> QED BY <2>2, <3>2, <4>1 DEF PersistSlot
    <3>4. quota' \in Seq(Adapters)
      BY <2>1, <2>2 DEF PersistSlot, TypeOK
    <3>5. stored' \in [Adapters -> SUBSET Adapters]
      <4>1. slots[turn + 1].of \in Adapters
        BY <3>1 DEF Results
      <4>2. stored' = [stored EXCEPT ![turn + 1] = @ \cup {slots[turn + 1].of}] \/ stored' = stored
        BY <2>2 DEF PersistSlot
      <4> QED BY <2>1, <4>1, <4>2 DEF TypeOK
    <3> QED BY <3>3, <3>4, <3>5
  <2>3. ASSUME PersistNone(turn + 1)
        PROVE usage' \in Seq(Outcomes) /\ quota' \in Seq(Adapters)
              /\ stored' \in [Adapters -> SUBSET Adapters]
    <3>1. [of |-> turn + 1, code |-> "STORAGE_FAILURE"] \in Outcomes
      BY <2>1, CodesAssumption DEF Outcomes
    <3> QED BY <2>3, <3>1 DEF PersistNone, TypeOK
  <2> QED BY <1>5, <2>1, <2>2, <2>3 DEF Persist, TypeOK
<1>6. CASE Return
  BY <1>6 DEF Return, TypeOK
<1>7. CASE UNCHANGED vars
  BY <1>7 DEF vars, TypeOK
<1> QED BY <1>1, <1>2, <1>3, <1>4, <1>5, <1>6, <1>7 DEF Next, PoolStep, Ended

-----------------------------------------------------------------------------
LEMMA InvInit == Init => Inv
<1> SUFFICES ASSUME Init PROVE Inv
    OBVIOUS
<1> USE NAssumption
<1>1. TypeOK
  BY TypeInit
<1>2. \A w \in Workers : ~Collecting(w) /\ busy[w] # Gone
  BY DEF Init, Collecting, Adapters, Gone
<1>3. Claims
  BY <1>2 DEF Init, Claims
<1>4. Covered
  BY <1>2 DEF Init, Covered, Adapters
<1>5. Joined
  BY DEF Init, Joined
<1>6. Own
  BY DEF Init, Own
<1> QED BY <1>1, <1>3, <1>4, <1>5, <1>6 DEF Inv

\* Only the pool and the join matter to what the counter promises.
LEMMA ClaimsStep == Inv /\ [Next]_vars => Claims'
<1> SUFFICES ASSUME Inv, [Next]_vars PROVE Claims'
    OBVIOUS
<1> USE NAssumption DEF Inv
<1>1. ASSUME NEW w \in Workers, Claim(w) PROVE Claims'
  <2>1. CASE next <= N /\ cursors[next]
    <3>1. next \in Adapters /\ next' = next + 1 /\ busy' = [busy EXCEPT ![w] = next]
      <4>1. next \in Adapters /\ ~(next > N)
        BY <2>1 DEF TypeOK, Adapters
      <4> QED BY <1>1, <2>1, <4>1 DEF Claim
    <3>2. slots[next] = Empty /\ results[next] = {}
      BY <3>1 DEF Claims, TypeOK
    <3>3. \A v \in Workers : v # w => busy'[v] = busy[v]
      BY <3>1 DEF TypeOK
    <3>4. busy'[w] = next
      BY <3>1 DEF TypeOK
    <3>5. \A v \in Workers : Collecting(v)' =>
            /\ busy'[v] < next'
            /\ cursors'[busy'[v]]
            /\ slots'[busy'[v]] = Empty /\ results'[busy'[v]] = {}
      BY <1>1, <2>1, <3>1, <3>2, <3>3, <3>4 DEF Claim, Claims, Collecting, TypeOK, Adapters
    <3>6. \A u, v \in Workers : Collecting(v)' /\ busy'[u] = busy'[v] => u = v
      BY <1>1, <3>1, <3>3, <3>4 DEF Claims, Collecting, TypeOK, Adapters
    <3>7. \A i \in Adapters : i >= next' => slots'[i] = Empty /\ results'[i] = {}
      BY <1>1, <3>1 DEF Claim, Claims, TypeOK, Adapters
    <3> QED BY <3>5, <3>6, <3>7 DEF Claims
  <2>2. CASE ~(next <= N /\ cursors[next])
    <3>1. busy'[w] \notin Adapters /\ \A v \in Workers : v # w => busy'[v] = busy[v]
      BY <1>1, <2>2 DEF Claim, TypeOK, Adapters, Gone
    <3>2. next' = next + 1 /\ UNCHANGED <<cursors, slots, results>>
      BY <1>1 DEF Claim
    <3>3. \A v \in Workers : Collecting(v)' => v # w /\ Collecting(v)
      BY <3>1 DEF Collecting
    <3> QED BY <3>1, <3>2, <3>3 DEF Claims, Collecting, TypeOK, Adapters
  <2> QED BY <2>1, <2>2
<1>2. ASSUME NEW w \in Workers, Panic(w) PROVE Claims'
  <2>1. \A v \in Workers : Collecting(v)' => v # w /\ Collecting(v) /\ busy'[v] = busy[v]
    BY <1>2 DEF Panic, Collecting, TypeOK, Adapters, Gone
  <2>2. busy'[w] \notin Adapters /\ \A v \in Workers : v # w => busy'[v] = busy[v]
    BY <1>2 DEF Panic, TypeOK, Adapters, Gone
  <2> QED BY <1>2, <2>1, <2>2 DEF Panic, Claims, Collecting
<1>3. ASSUME NEW w \in Workers, NEW code \in Codes, Store(w, code) PROVE Claims'
  <2> DEFINE i == busy[w]
  <2>1. i \in Adapters /\ i < next
    BY <1>3 DEF Store, Claims, Collecting
  <2>2. \A v \in Workers : Collecting(v)' => v # w /\ Collecting(v) /\ busy'[v] = busy[v]
    BY <1>3 DEF Store, Collecting, TypeOK, Adapters
  <2>3. busy'[w] \notin Adapters /\ \A v \in Workers : v # w => busy'[v] = busy[v]
    BY <1>3 DEF Store, TypeOK, Adapters
  <2>4. \A v \in Workers : Collecting(v)' => busy[v] # i
    BY <2>2, <1>3 DEF Claims, Store
  <2>5. \A k \in Adapters : k # i => slots'[k] = slots[k] /\ results'[k] = results[k]
    BY <1>3 DEF Store, TypeOK
  <2>6. next' = next /\ cursors' = cursors
    BY <1>3 DEF Store
  <2>7. \A k \in Adapters : k >= next' => slots'[k] = Empty /\ results'[k] = {}
    <3>1. next \in Nat /\ i \in Nat /\ \A k \in Adapters : k \in Nat
      BY <2>1 DEF TypeOK, Adapters
    <3>2. \A k \in Adapters : k >= next => k # i
      BY <2>1, <3>1
    <3> QED BY <2>5, <2>6, <3>2 DEF Claims
  <2>8. \A v \in Workers : Collecting(v)' =>
            /\ busy'[v] < next'
            /\ cursors'[busy'[v]]
            /\ slots'[busy'[v]] = Empty /\ results'[busy'[v]] = {}
    BY <2>2, <2>4, <2>5, <2>6 DEF Claims, Collecting
  <2>9. \A u, v \in Workers : Collecting(u)' /\ busy'[u] = busy'[v] => u = v
    BY <2>2, <2>3 DEF Claims, Collecting
  <2> QED BY <2>7, <2>8, <2>9 DEF Claims
<1>4. ASSUME UNCHANGED <<cursors, next, busy, slots, results>> PROVE Claims'
  BY <1>4 DEF Claims, Collecting
<1> QED BY <1>1, <1>2, <1>3, <1>4
       DEF Next, PoolStep, Join, Persist, Return, Ended, vars

LEMMA CoveredStep == Inv /\ [Next]_vars => Covered'
<1> SUFFICES ASSUME Inv, [Next]_vars PROVE Covered'
    OBVIOUS
<1> USE NAssumption DEF Inv
<1>1. ASSUME NEW w \in Workers, Claim(w) PROVE Covered'
  <2>1. next' = next + 1 /\ UNCHANGED <<cursors, slots, panicked>> /\ busy[w] = 0
    BY <1>1 DEF Claim
  <2>2. \A v \in Workers : v # w => busy'[v] = busy[v]
    BY <1>1 DEF Claim, TypeOK
  <2>3. busy'[w] = IF next > N THEN Gone ELSE IF cursors[next] THEN next ELSE 0
    BY <1>1 DEF Claim, TypeOK
  <2>4. ASSUME ~panicked, NEW i \in Adapters, i < next', cursors[i], slots[i] = Empty
        PROVE \E v \in Workers : busy'[v] = i
    <3>1. CASE i = next
      BY <2>3, <2>4, <3>1 DEF Adapters
    <3>2. CASE i # next
      <4>1. i < next
        BY <2>1, <2>4, <3>2 DEF TypeOK, Adapters
      <4>2. PICK v \in Workers : busy[v] = i
        BY <2>4, <4>1 DEF Covered
      <4>3. v # w
        BY <2>1, <4>2 DEF Adapters
      <4> QED BY <2>2, <4>2, <4>3
    <3> QED BY <3>1, <3>2
  <2>5. ASSUME ~panicked, NEW v \in Workers, busy'[v] = Gone PROVE next' > N
    <3>1. CASE v = w
      BY <2>1, <2>3, <2>5, <3>1 DEF TypeOK, Gone
    <3>2. CASE v # w
      BY <2>1, <2>2, <2>5, <3>2 DEF Covered, TypeOK
    <3> QED BY <3>1, <3>2
  <2>6. \A i \in Adapters : slots'[i] # Empty => cursors'[i]
    BY <2>1 DEF Covered
  <2> QED BY <2>1, <2>4, <2>5, <2>6 DEF Covered
<1>2. ASSUME NEW w \in Workers, Panic(w) PROVE Covered'
  BY <1>2 DEF Panic, Covered
<1>3. ASSUME NEW w \in Workers, NEW code \in Codes, Store(w, code) PROVE Covered'
  <2> DEFINE i == busy[w]
             result == [of |-> i, code |-> code]
  <2>1. i \in Adapters /\ cursors[i]
    BY <1>3 DEF Store, Claims, Collecting
  <2>2. slots'[i] = result /\ result \in Results
    BY <1>3, <2>1 DEF Store, TypeOK, Results
  <2>3. slots'[i] # Empty
    BY <2>2, EmptyIsNoResult
  <2>4. \A k \in Adapters : k # i => slots'[k] = slots[k]
    BY <1>3 DEF Store, TypeOK
  <2>5. \A v \in Workers : v # w => busy'[v] = busy[v]
    BY <1>3 DEF Store, TypeOK
  <2>6. busy'[w] = 0 /\ 0 # Gone
    BY <1>3 DEF Store, TypeOK, Gone
  <2>7. UNCHANGED <<cursors, next, panicked>>
    BY <1>3 DEF Store
  <2>8. \A k \in Adapters : slots'[k] # Empty => cursors'[k]
    BY <2>1, <2>4, <2>7 DEF Covered
  <2>9. ASSUME ~panicked, NEW k \in Adapters, k < next, cursors[k], slots'[k] = Empty
        PROVE \E v \in Workers : busy'[v] = k
    <3>1. k # i /\ slots[k] = Empty
      BY <2>3, <2>4, <2>9
    <3>2. PICK v \in Workers : busy[v] = k
      BY <2>9, <3>1 DEF Covered
    <3> QED BY <2>5, <3>1, <3>2
  <2>10. ASSUME ~panicked, NEW v \in Workers, busy'[v] = Gone PROVE next > N
    BY <2>5, <2>6, <2>10 DEF Covered
  <2> QED BY <2>7, <2>8, <2>9, <2>10 DEF Covered
<1>4. ASSUME UNCHANGED <<cursors, next, busy, slots, panicked>> PROVE Covered'
  BY <1>4 DEF Covered
<1> QED BY <1>1, <1>2, <1>3, <1>4
       DEF Next, PoolStep, Join, Persist, Return, Ended, vars

LEMMA JoinedStep == Inv /\ [Next]_vars => Joined'
<1> SUFFICES ASSUME Inv, [Next]_vars PROVE Joined'
    OBVIOUS
<1> USE NAssumption DEF Inv
<1>1. ASSUME NEW w \in Workers, PoolStep(w) PROVE Joined'
  <2>1. phase = "collect" /\ phase' = phase
    <3>1. Gone # 0 /\ Gone \notin Adapters
      BY DEF Gone, Adapters
    <3>2. busy[w] # Gone
      BY <1>1, <3>1 DEF PoolStep, Claim, Panic, Store, Collecting
    <3> QED BY <1>1, <3>2 DEF Joined, PoolStep, Claim, Panic, Store, Persisted
  <2> QED BY <2>1 DEF Joined
<1>2. CASE Join
  BY <1>2 DEF Join, Joined
<1>3. CASE Persist \/ Return \/ Ended \/ UNCHANGED vars
  BY <1>3 DEF Persist, Return, Ended, vars, Joined
<1> QED BY <1>1, <1>2, <1>3 DEF Next

LEMMA OwnStep == Inv /\ [Next]_vars => Own'
<1> SUFFICES ASSUME Inv, [Next]_vars PROVE Own'
    OBVIOUS
<1> USE NAssumption DEF Inv
<1>1. ASSUME NEW w \in Workers, NEW code \in Codes, Store(w, code) PROVE Own'
  <2> DEFINE i == busy[w]
  <2>1. i \in Adapters
    BY <1>1 DEF Store, Collecting
  <2>2. /\ slots'[i] = [of |-> i, code |-> code]
        /\ results'[i] = results[i] \cup {[of |-> i, code |-> code]}
    BY <1>1, <2>1 DEF Store, TypeOK
  <2>3. \A k \in Adapters : k # i => slots'[k] = slots[k] /\ results'[k] = results[k]
    BY <1>1 DEF Store, TypeOK
  <2>4. stored' = stored
    BY <1>1 DEF Store, Persisted
  <2> QED BY <2>2, <2>3, <2>4 DEF Own
<1>2. ASSUME NEW w \in Workers, Claim(w) \/ Panic(w) PROVE Own'
  BY <1>2 DEF Claim, Panic, Persisted, Own
<1>3. CASE Persist
  <2>1. turn + 1 \in Adapters
    BY <1>3 DEF Persist, TypeOK, Adapters
  <2>2. UNCHANGED <<slots, results>>
    BY <1>3 DEF Persist
  <2>3. \A i \in Adapters : stored'[i] \subseteq {i}
    BY <1>3, <2>1 DEF Persist, PersistSlot, PersistNone, Own, TypeOK
  <2> QED BY <2>2, <2>3 DEF Own
<1>4. CASE Join \/ Return \/ Ended \/ UNCHANGED vars
  BY <1>4 DEF Join, Return, Ended, vars, Own
<1> QED BY <1>1, <1>2, <1>3, <1>4 DEF Next, PoolStep

LEMMA Invariance == Spec => []Inv
<1>1. Inv /\ [Next]_vars => Inv'
  BY TypeStep, ClaimsStep, CoveredStep, JoinedStep, OwnStep DEF Inv
<1> QED BY InvInit, <1>1, PTL DEF Spec

-----------------------------------------------------------------------------
\* The state of a cycle is always well formed.
THEOREM TypeCorrect == Spec => []TypeOK
<1>1. Inv => TypeOK
  BY DEF Inv
<1> QED BY Invariance, <1>1, PTL

\* No adapter is collected twice or by two threads, for any number of adapters
\* and threads: fetch_add hands every index out once.
THEOREM EachAdapterOnce == Spec => []CollectedOnce
<1>1. Inv => CollectedOnce
  BY DEF Inv, Claims, CollectedOnce
<1> QED BY Invariance, <1>1, PTL

\* When persistence starts, the slots are final and complete.
THEOREM SlotsAreComplete == Spec => []SlotsAreFinal
<1>1. Inv => SlotsAreFinal
  <2> SUFFICES ASSUME Inv, phase = "persist" PROVE SlotsAreFinal
      BY DEF SlotsAreFinal
  <2>1. ~panicked /\ \A w \in Workers : busy[w] = Gone
    BY DEF Inv, Joined
  <2>2. Gone \notin Adapters
    BY NAssumption DEF Gone, Adapters
  <2>3. \A w \in Workers : ~Collecting(w)
    BY <2>1, <2>2 DEF Collecting
  <2>4. \A i \in Adapters : i < next
    <3>1. CASE Workers = {}
      BY <3>1, NAssumption, WorkersAssumption DEF Adapters
    <3>2. CASE Workers # {}
      <4>1. next > N
        BY <2>1, <3>2 DEF Inv, Covered
      <4> QED BY <4>1, NAssumption DEF Adapters, Inv, TypeOK
    <3> QED BY <3>1, <3>2
  <2>5. \A i \in Adapters : cursors[i] => slots[i] # Empty
    BY <2>1, <2>2, <2>4 DEF Inv, Covered
  <2>6. \A i \in Adapters : slots[i] # Empty => cursors[i]
    BY DEF Inv, Covered
  <2> QED BY <2>3, <2>5, <2>6 DEF SlotsAreFinal, Inv, TypeOK
<1> QED BY Invariance, <1>1, PTL

\* Whatever the order in which the threads finish, nothing is stored or kept
\* for an adapter that another adapter collected.
THEOREM DataStaysWithItsAdapter == Spec => []OwnData
<1>1. Inv => OwnData
  BY DEF Inv, Own, OwnData
<1> QED BY Invariance, <1>1, PTL

-----------------------------------------------------------------------------
\* Before persistence nothing has been answered.
Unanswered == phase = "collect" => turn = 0

LEMMA OrderStep ==
  Inv /\ SlotsAreFinal /\ OutcomesInOrder /\ Unanswered /\ [Next]_vars => OutcomesInOrder' /\ Unanswered'
<1> SUFFICES ASSUME Inv, SlotsAreFinal, OutcomesInOrder, Unanswered, [Next]_vars
             PROVE  OutcomesInOrder' /\ Unanswered'
    OBVIOUS
<1> USE NAssumption
<1>1. CASE Persist
  <2> DEFINE i == turn + 1
  <2>1. turn \in Nat /\ i \in Adapters /\ turn' = i /\ cursors' = cursors
    BY <1>1 DEF Persist, Inv, TypeOK, Adapters
  <2>2. usage \in Seq(Outcomes) /\ quota \in Seq(Adapters) /\ slots \in [Adapters -> Results \cup {Empty}]
    BY DEF Inv, TypeOK
  <2>3. cursors[i] <=> slots[i] # Empty
    BY <1>1, <2>1 DEF Persist, SlotsAreFinal
  <2>4. PICK o : o.of = i /\ usage' = Append(usage, o)
    BY <1>1 DEF Persist, PersistSlot, PersistNone
  <2>5. Len(usage') = turn' /\ \A k \in 1..turn' : usage'[k].of = k
    BY <2>1, <2>2, <2>4 DEF OutcomesInOrder
  <2>6. \A q \in DOMAIN quota : quota[q] \in 1..turn
    BY DEF OutcomesInOrder
  <2>7. CASE cursors[i]
    <3>1. quota' = Append(quota, i)
      BY <1>1, <2>3, <2>7 DEF Persist, PersistSlot, PersistNone
    <3>2. /\ DOMAIN quota' = 1..Len(quota) + 1 /\ DOMAIN quota = 1..Len(quota) /\ Len(quota) \in Nat
          /\ quota'[Len(quota) + 1] = i
          /\ \A q \in DOMAIN quota : quota'[q] = quota[q]
      BY <2>1, <2>2, <3>1
    <3>3. {quota'[q] : q \in DOMAIN quota'} = {quota[q] : q \in DOMAIN quota} \cup {i}
      BY <3>2
    <3>4. {k \in 1..turn' : cursors'[k]} = {k \in 1..turn : cursors[k]} \cup {i}
      BY <2>1, <2>7
    <3>5. \A p, q \in DOMAIN quota' : p < q => quota'[p] < quota'[q]
      BY <2>1, <2>6, <3>2 DEF OutcomesInOrder
    <3> QED BY <1>1, <2>5, <3>3, <3>4, <3>5 DEF OutcomesInOrder, Unanswered, Persist
  <2>8. CASE ~cursors[i]
    <3>1. quota' = quota
      BY <1>1, <2>3, <2>8 DEF Persist, PersistSlot, PersistNone
    <3>2. {k \in 1..turn' : cursors'[k]} = {k \in 1..turn : cursors[k]}
      BY <2>1, <2>8
    <3> QED BY <1>1, <2>5, <3>1, <3>2 DEF OutcomesInOrder, Unanswered, Persist
  <2> QED BY <2>7, <2>8
<1>2. CASE \E w \in Workers : PoolStep(w)
  BY <1>2 DEF PoolStep, Claim, Panic, Store, Persisted, OutcomesInOrder, Unanswered, Inv, TypeOK
<1>3. CASE Join \/ Return \/ Ended \/ UNCHANGED vars
  BY <1>3 DEF Join, Return, Ended, vars, OutcomesInOrder, Unanswered
<1> QED BY <1>1, <1>2, <1>3 DEF Next

\* "Each adapter contributes exactly one usage outcome" (refresh.rs), in registry
\* order, and a quota outcome if its cursor could be read: for any number of
\* adapters and threads, whatever order the collections end in.
THEOREM OutcomesComeInOrder == Spec => []OutcomesInOrder
<1>1. Init => OutcomesInOrder /\ Unanswered
  BY DEF Init, OutcomesInOrder, Unanswered
<1> QED BY Invariance, SlotsAreComplete, OrderStep, <1>1, PTL DEF Spec
=============================================================================
