---------------------------- MODULE RefreshCycle ----------------------------
(***************************************************************************)
(* One full cycle, RefreshAll::execute_with_progress_and_hash_key in        *)
(* application/src/refresh.rs: cursors are read, a pool of worker threads   *)
(* collects the adapters into slots, the results are persisted in registry  *)
(* order.  RefreshJob is what runs a cycle and cancels it; ProviderStore is *)
(* what persist_provider does statement by statement.                       *)
(***************************************************************************)
EXTENDS Naturals, Sequences, FiniteSets

CONSTANTS
  N,        \* adapters in the registry
  Workers,  \* threads of the pool: min(COLLECTION_WORKERS, N) of them
  Codes     \* error codes a collection can end with

ASSUME NAssumption == N \in Nat
ASSUME WorkersAssumption == Workers = {} => N = 0
ASSUME CodesAssumption == {"", "STORAGE_FAILURE"} \subseteq Codes

VARIABLES
  cursors,    \* cursors[i]: the cursor of adapter i could be read
  next,       \* the shared counter of the pool
  busy,       \* busy[w]: index thread w is collecting, 0 between two, Gone after
  slots,      \* slots[i]: result stored for adapter i, or Empty
  results,    \* results[i]: every result a collection of i produced (history)
  panicked,   \* a thread of the pool has panicked
  phase,      \* "collect", "persist", "done" or "aborted"
  turn,       \* adapters persisted so far
  usage,      \* cycle.usage
  quota,      \* cycle.quota
  stored      \* stored[i]: adapters whose data were stored as data of i

vars == <<cursors, next, busy, slots, results, panicked, phase, turn, usage, quota, stored>>

Adapters == 1..N
Gone     == N + 1
Empty    == [of |-> 0, code |-> ""]
Results  == [of : Adapters, code : Codes]
Outcomes == [of : Adapters, code : Codes]

TypeOK ==
  /\ cursors \in [Adapters -> BOOLEAN]
  /\ next \in Nat \ {0}
  /\ busy \in [Workers -> 0..Gone]
  /\ slots \in [Adapters -> Results \cup {Empty}]
  /\ results \in [Adapters -> SUBSET Results]
  /\ panicked \in BOOLEAN
  /\ phase \in {"collect", "persist", "done", "aborted"}
  /\ turn \in 0..N
  /\ usage \in Seq(Outcomes)
  /\ quota \in Seq(Adapters)
  /\ stored \in [Adapters -> SUBSET Adapters]

Init ==
  /\ cursors \in [Adapters -> BOOLEAN]
  /\ next = 1
  /\ busy = [w \in Workers |-> 0]
  /\ slots = [i \in Adapters |-> Empty]
  /\ results = [i \in Adapters |-> {}]
  /\ panicked = FALSE
  /\ phase = "collect"
  /\ turn = 0
  /\ usage = <<>>
  /\ quota = <<>>
  /\ stored = [i \in Adapters |-> {}]

Collecting(w) == busy[w] \in Adapters
Persisted     == <<phase, turn, usage, quota, stored>>

-----------------------------------------------------------------------------
(* Seeded faults, see the note in RefreshJob. *)

\* The counter is read and written back in two steps: a claim may be repeated.
ClaimRepeated(w) ==
  /\ phase = "collect" /\ busy[w] = 0
  /\ next' \in {next, next + 1}
  /\ busy' = [busy EXCEPT ![w] =
       IF next > N THEN Gone ELSE IF cursors[next] THEN next ELSE 0]
  /\ UNCHANGED <<cursors, slots, results, panicked, Persisted>>

\* Results are pushed in the order in which they arrive.
StorePushing(w, code) ==
  LET free == {i \in Adapters : slots[i] = Empty}
      result == [of |-> busy[w], code |-> code]
  IN /\ Collecting(w)
     /\ slots' = [slots EXCEPT ![CHOOSE i \in free : \A k \in free : i <= k] = result]
     /\ results' = [results EXCEPT ![busy[w]] = @ \cup {result}]
     /\ busy' = [busy EXCEPT ![w] = 0]
     /\ UNCHANGED <<cursors, next, panicked, Persisted>>

\* Persistence starts when the first thread has run out of work.
JoinFirst ==
  /\ phase = "collect" /\ \E w \in Workers : busy[w] = Gone
  /\ phase' = IF panicked THEN "aborted" ELSE "persist"
  /\ UNCHANGED <<cursors, next, busy, slots, results, panicked, turn, usage, quota, stored>>

\* A thread that panicked is waited for in vain.
JoinClean ==
  /\ phase = "collect" /\ ~panicked /\ \A w \in Workers : busy[w] = Gone
  /\ phase' = "persist"
  /\ UNCHANGED <<cursors, next, busy, slots, results, panicked, turn, usage, quota, stored>>

\* An adapter without a result is passed over.
PersistNoneSilently(i) == slots[i] = Empty /\ UNCHANGED <<usage, quota, stored>>

-----------------------------------------------------------------------------
(* The pool: collect_all *)

\* fetch_add; past the end the thread stops, an unreadable cursor is skipped.
Claim(w) ==
  /\ phase = "collect"
  /\ busy[w] = 0
  /\ next' = next + 1
  /\ busy' = [busy EXCEPT ![w] =
       IF next > N THEN Gone ELSE IF cursors[next] THEN next ELSE 0]
  /\ UNCHANGED <<cursors, slots, results, panicked, Persisted>>

\* collect_one returns, with or without an error; the slot is filled.
Store(w, code) ==
  LET i == busy[w]
      result == [of |-> i, code |-> code]
  IN /\ Collecting(w)
     /\ slots' = [slots EXCEPT ![i] = result]
     /\ results' = [results EXCEPT ![i] = @ \cup {result}]
     /\ busy' = [busy EXCEPT ![w] = 0]
     /\ UNCHANGED <<cursors, next, panicked, Persisted>>

\* An adapter panics, outside the slots mutex: the other threads go on.
Panic(w) ==
  /\ Collecting(w)
  /\ busy' = [busy EXCEPT ![w] = Gone]
  /\ panicked' = TRUE
  /\ UNCHANGED <<cursors, next, slots, results, Persisted>>

\* The end of thread::scope joins every thread, and panics if one of them did.
Join ==
  /\ phase = "collect"
  /\ \A w \in Workers : busy[w] = Gone
  /\ phase' = IF panicked THEN "aborted" ELSE "persist"
  /\ UNCHANGED <<cursors, next, busy, slots, results, panicked, turn, usage, quota, stored>>

-----------------------------------------------------------------------------
(* Persistence, one adapter after the other *)

\* The data of the adapter's slot are stored as data of the adapter.  A
\* statement may fail or the privacy guard refuse them (ProviderStore).
PersistSlot(i) ==
  /\ slots[i] # Empty
  /\ \/ /\ stored' = [stored EXCEPT ![i] = @ \cup {slots[i].of}]
        /\ usage' = Append(usage, [of |-> i, code |-> slots[i].code])
     \/ /\ stored' = stored
        /\ usage' = Append(usage, [of |-> i, code |-> "STORAGE_FAILURE"])
  /\ quota' = Append(quota, i)

\* storage_failure_outcome: the quota channel is left out.
PersistNone(i) ==
  /\ slots[i] = Empty
  /\ usage' = Append(usage, [of |-> i, code |-> "STORAGE_FAILURE"])
  /\ UNCHANGED <<quota, stored>>

\* Then on_provider may stop the cycle.
Persist ==
  /\ phase = "persist"
  /\ turn < N
  /\ PersistSlot(turn + 1) \/ PersistNone(turn + 1)
  /\ turn' = turn + 1
  /\ phase' \in {"persist", "done"}
  /\ UNCHANGED <<cursors, next, busy, slots, results, panicked>>

Return ==
  /\ phase = "persist"
  /\ turn = N
  /\ phase' = "done"
  /\ UNCHANGED <<cursors, next, busy, slots, results, panicked, turn, usage, quota, stored>>

-----------------------------------------------------------------------------
PoolStep(w) == Claim(w) \/ Panic(w) \/ \E code \in Codes : Store(w, code)

\* The cycle has returned or panicked.
Ended == phase \in {"done", "aborted"} /\ UNCHANGED vars

Next == (\E w \in Workers : PoolStep(w)) \/ Join \/ Persist \/ Return \/ Ended

Spec == Init /\ [][Next]_vars

\* Threads are scheduled, and adapters return.
LiveSpec ==
  /\ Spec
  /\ \A w \in Workers : WF_vars(PoolStep(w))
  /\ WF_vars(Join) /\ WF_vars(Persist) /\ WF_vars(Return)

-----------------------------------------------------------------------------
(* Properties *)

\* No adapter is collected by two threads, nor a second time.
CollectedOnce ==
  /\ \A v, w \in Workers : Collecting(v) /\ busy[v] = busy[w] => v = w
  /\ \A w \in Workers : Collecting(w) => results[busy[w]] = {}

\* Persistence starts when no thread can write a slot any more, and then the
\* slot of an adapter is empty exactly if its cursor could not be read.
SlotsAreFinal ==
  phase = "persist" =>
    /\ \A w \in Workers : ~Collecting(w)
    /\ \A i \in Adapters : slots[i] # Empty <=> cursors[i]

\* Nothing is ever stored, or answered, for an adapter that another one collected.
OwnData ==
  \A i \in Adapters :
    /\ stored[i] \subseteq {i}
    /\ slots[i] # Empty => slots[i] \in results[i]

\* "Each adapter contributes exactly one usage outcome", in registry order,
\* and an adapter that could be collected one quota outcome.
OutcomesInOrder ==
  /\ Len(usage) = turn /\ \A k \in 1..turn : usage[k].of = k
  /\ {quota[q] : q \in DOMAIN quota} = {k \in 1..turn : cursors[k]}
  /\ \A p, q \in DOMAIN quota : p < q => quota[p] < quota[q]

\* The cycle ends, whatever the adapters do short of hanging.
CycleEnds == <>(phase \in {"done", "aborted"})
=============================================================================
