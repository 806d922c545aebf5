--------------------------- MODULE AppLocksProofs ---------------------------
(***************************************************************************)
(* Theorems about the locks, for any number of concurrent calls and either  *)
(* policy of the read-write lock.                                           *)
(***************************************************************************)
EXTENDS AppLocks, TLAPS

USE NobodyAssumption, KindsAssumption

InRegistry == {"write", "building", "read", "reading"}

\* Which locks a call holds, given where it is.
Held(c) ==
  /\ pc[c] \in {"holding", "again"} => storage = c
  /\ kind[c] = "view" /\ pc[c] \in InRegistry => storage = c
  /\ storage = c => \/ pc[c] \in {"holding", "again"}
                    \/ kind[c] = "view" /\ pc[c] \in InRegistry
  /\ writer = c <=> pc[c] = "building"
  /\ c \in readers <=> pc[c] = "reading"
  /\ pc[c] \in InRegistry => kind[c] \in {"view", "collect"}
  /\ pc[c] = "again" => kind[c] = "seed" /\ "seed" \in Kinds
  /\ pc[c] \in {"read", "reading"} => built
  /\ pc[c] # "idle" => kind[c] \in Kinds

IInv ==
  /\ TypeOK
  /\ \A c \in Calls : Held(c)
  /\ writer # Nobody => readers = {}

LEMMA InitIInv == Init => IInv
  BY DEF Init, IInv, TypeOK, Held, Places, Waiting, InRegistry

\* A call that drops its guards and returns leaves the others as they were.
LEMMA LeaveKeeps ==
  ASSUME IInv, NEW c \in Calls, DropAll(c), Move(c, "done"), UNCHANGED <<built, kind>>,
         poisoned' \subseteq {"storage", "registry"}, pc[c] # "idle"
  PROVE  IInv'
<1>1. TypeOK'
  BY DEF IInv, TypeOK, DropAll, Move, Places, Waiting
<1>2. ASSUME NEW d \in Calls PROVE Held(d)'
  BY DEF IInv, TypeOK, Held, DropAll, Move, InRegistry
<1>3. writer' # Nobody => readers' = {}
  BY DEF IInv, TypeOK, DropAll
<1>4. QED
  BY <1>1, <1>2, <1>3 DEF IInv

LEMMA StepIInv == IInv /\ [Next]_vars => IInv'
<1> SUFFICES ASSUME IInv, [Next]_vars PROVE IInv'
  OBVIOUS
<1> USE DEF IInv, TypeOK, Held, Move, Places, Waiting, InRegistry
<1>1. ASSUME NEW c \in Calls, NEW k \in Kinds, Start(c, k) PROVE IInv'
  BY <1>1 DEF Start
<1>2. ASSUME NEW c \in Calls, TakeStorage(c) PROVE IInv'
  BY <1>2 DEF TakeStorage
<1>3. ASSUME NEW c \in Calls, LeaveStorage(c) PROVE IInv'
  BY <1>3 DEF LeaveStorage
<1>4. ASSUME NEW c \in Calls, TakeWrite(c) PROVE IInv'
  BY <1>4 DEF TakeWrite
<1>5. ASSUME NEW c \in Calls, Build(c) PROVE IInv'
  BY <1>5 DEF Build
<1>6. ASSUME NEW c \in Calls, TakeRead(c) PROVE IInv'
  BY <1>6 DEF TakeRead
<1>7. ASSUME NEW c \in Calls, RecordSeedFailure(c) PROVE IInv'
  BY <1>7 DEF RecordSeedFailure
<1>8. ASSUME NEW c \in Calls, FindPoison(c) \/ Finish(c) \/ Bail(c) \/ Panic(c) PROVE IInv'
  BY <1>8, LeaveKeeps DEF FindPoison, Finish, Bail, Panic
<1>9. CASE AllDone \/ UNCHANGED vars
  BY <1>9 DEF AllDone, vars
<1>10. QED
  BY <1>1, <1>2, <1>3, <1>4, <1>5, <1>6, <1>7, <1>8, <1>9
     DEF Next, OwnStep, CollectionEnds

LEMMA Invariance == Spec => []IInv
  BY InitIInv, StepIInv, PTL DEF Spec

-----------------------------------------------------------------------------
(* Theorems *)

THEOREM TypeCorrect == Spec => []TypeOK
  BY Invariance, PTL DEF IInv

\* Whoever waits for the storage mutex holds neither side of the registry lock.
\* With the registry always taken second, waits cannot form a cycle.
THEOREM LocksAreOrdered == Spec => []LockOrder
<1>1. IInv => LockOrder
  BY DEF IInv, TypeOK, Held, LockOrder, InRegistry
<1>2. QED
  BY <1>1, Invariance, PTL

\* Only the setup block ever waits for a mutex it holds itself.
THEOREM OnlySetupWaitsForItself == Spec => []OnlySetupSelfWaits
<1>1. IInv => OnlySetupSelfWaits
  BY DEF IInv, TypeOK, Held, OnlySetupSelfWaits, InRegistry
<1>2. QED
  BY <1>1, Invariance, PTL

\* No collection runs under the storage mutex.
THEOREM StorageIsFreeDuringCycles == Spec => []CollectsWithoutStorage
<1>1. IInv => CollectsWithoutStorage
  BY DEF IInv, Held, CollectsWithoutStorage
<1>2. QED
  BY <1>1, Invariance, PTL

\* Whoever reads the registry reads the complete one, undisturbed.
THEOREM RegistryIsComplete == Spec => []ReadersSeeRegistry
<1>1. IInv => ReadersSeeRegistry
  BY DEF IInv, TypeOK, Held, ReadersSeeRegistry
<1>2. QED
  BY <1>1, Invariance, PTL

\* A panicking collector poisons neither lock.
THEOREM CollectorPanicIsContained == Spec => CollectorPanicIsHarmless
<1>1. IInv /\ [Next]_vars =>
        [\A c \in Calls : kind[c] = "collect" /\ pc[c] = "reading" /\ pc'[c] = "done"
                            => poisoned' = poisoned]_vars
  <2> SUFFICES ASSUME IInv, Next, NEW c \in Calls,
                      kind[c] = "collect", pc[c] = "reading", pc'[c] = "done"
               PROVE  poisoned' = poisoned
    OBVIOUS
  <2>1. storage # c /\ writer # c
    BY DEF IInv, Held
  <2>2. CASE Panic(c)
    BY <2>1, <2>2 DEF Panic, IInv, TypeOK
  <2>3. ASSUME NEW d \in Calls, Panic(d), d # c PROVE FALSE
    BY <2>3 DEF Panic, Move, IInv, TypeOK
  <2>4. QED
    BY <2>2, <2>3
       DEF Next, OwnStep, CollectionEnds, Start, TakeStorage, FindPoison, LeaveStorage, TakeWrite,
           Build, TakeRead, Finish, Bail, RecordSeedFailure, AllDone, vars
<1>2. QED
  BY <1>1, Invariance, PTL DEF Spec, CollectorPanicIsHarmless
=============================================================================
