-------------------------- MODULE RefreshJobProofs --------------------------
(***************************************************************************)
(* Theorems about the refresh job, for any set of job slots, any number of  *)
(* providers and with or without the timer; and about the main window that  *)
(* follows it, for any length of the event channel.                         *)
(***************************************************************************)
EXTENDS RefreshShell, SequenceTheorems, TLAPS

USE NAssumption, CommandsAssumption

\* Appending an event keeps a job's history a sequence of phases.
LEMMA EmitType ==
  ASSUME TypeOK, NEW j \in Jobs, NEW p \in Phases, Emit(j, p)
  PROVE  phases' \in [Jobs -> Seq(Phases)]
<1>1. phases[j] \in Seq(Phases)
  BY DEF TypeOK
<1>2. Append(phases[j], p) \in Seq(Phases)
  BY <1>1, AppendProperties
<1>3. QED
  BY <1>2 DEF TypeOK, Emit

-----------------------------------------------------------------------------
(* The inductive invariant *)

\* A job that has just claimed the slot has done nothing yet, and a worker
\* with a provider to write has not written them all.
Unfinished ==
  \A j \in Jobs :
    /\ driver[j] = "claimed" => worker[j] = "ended" /\ persisted[j] = 0
    /\ worker[j] \in {"collecting", "persisting"} => persisted[j] < N

IInv == TypeOK /\ Unfinished /\ FlagMeansActive /\ NoOverlap

LEMMA InitIInv == Init => IInv
<1> SUFFICES ASSUME Init PROVE IInv
  OBVIOUS
<1>1. phases \in [Jobs -> Seq(Phases)]
  BY EmptySeq DEF Init
<1>2. 0 \in 0..N
  OBVIOUS
<1>3. TypeOK
  <2>1. driver \in [Jobs -> DriverStates] /\ worker \in [Jobs -> WorkerStates]
    BY DEF Init, DriverStates, PostCycle, WorkerStates
  <2>2. persisted \in [Jobs -> 0..N]
    BY <1>2 DEF Init
  <2>3. QED
    BY <1>1, <2>1, <2>2 DEF Init, TypeOK
<1>4. \A j \in Jobs : ~Active(j)
  BY DEF Init, Active, Collecting
<1>5. Unfinished
  BY DEF Init, Unfinished
<1>6. QED
  BY <1>3, <1>4, <1>5 DEF IInv, FlagMeansActive, NoOverlap, Init

\* Every step keeps every variable in its type.
LEMMA TypeStep == TypeOK /\ Unfinished /\ [Next]_vars => TypeOK'
<1> SUFFICES ASSUME TypeOK, Unfinished, [Next]_vars PROVE TypeOK'
  OBVIOUS
<1>1. ASSUME NEW j \in Jobs, NEW c \in Commands, UserRefresh(j, c) PROVE TypeOK'
  BY <1>1, EmptySeq DEF TypeOK, UserRefresh, Claim, Goto, DriverStates, PostCycle, flags
<1>2. ASSUME NEW j \in Jobs, LoopRefresh(j) PROVE TypeOK'
  BY <1>2, EmptySeq DEF TypeOK, LoopRefresh, Claim, Goto, DriverStates, PostCycle, flags
<1>3. ASSUME NEW j \in Jobs, Launch(j) PROVE TypeOK'
  <2>1. phases' \in [Jobs -> Seq(Phases)]
    BY <1>3, EmitType DEF Launch, Phases
  <2>2. QED
    BY <1>3, <2>1 DEF TypeOK, Launch, Goto, DriverStates, PostCycle, WorkerStates, Collecting
<1>4. ASSUME NEW j \in Jobs, Harvest(j) PROVE TypeOK'
  <2>1. phases' \in [Jobs -> Seq(Phases)]
    BY <1>4, EmitType DEF Harvest, Phases, TypeOK
  <2>2. driver' \in [Jobs -> DriverStates]
    BY <1>4 DEF Harvest, Goto, DriverStates, PostCycle, TypeOK
  <2>3. QED
    BY <1>4, <2>1, <2>2 DEF TypeOK, Harvest, flags, workers
<1>5. ASSUME NEW j \in Jobs, TimeOut(j) PROVE TypeOK'
  <2>1. phases' \in [Jobs -> Seq(Phases)]
    BY <1>5, EmitType DEF TimeOut, Phases
  <2>2. QED
    BY <1>5, <2>1 DEF TypeOK, TimeOut, Goto, DriverStates, PostCycle, flags, workers
<1>6. ASSUME NEW j \in Jobs, PostStep(j) PROVE TypeOK'
  BY <1>6 DEF TypeOK, PostStep, RecordSyncTime, EvaluateAlerts, Goto, DriverStates, PostCycle, flags, workers
<1>7. ASSUME NEW j \in Jobs, Report(j) PROVE TypeOK'
  <2>1. phases' \in [Jobs -> Seq(Phases)]
    BY <1>7, EmitType DEF Report, Phases
  <2>2. QED
    BY <1>7, <2>1 DEF TypeOK, Report, Goto, DriverStates, PostCycle, flags, workers
<1>8. ASSUME NEW j \in Jobs, ClearCancel(j) PROVE TypeOK'
  BY <1>8 DEF TypeOK, ClearCancel, Goto, DriverStates, PostCycle, workers
<1>9. ASSUME NEW j \in Jobs, CollectAll(j) PROVE TypeOK'
  BY <1>9 DEF TypeOK, CollectAll, Goto, WorkerStates, Collecting, flags, drivers
<1>10. ASSUME NEW j \in Jobs, CheckCancel(j) PROVE TypeOK'
  BY <1>10 DEF TypeOK, CheckCancel, Goto, WorkerStates, Collecting, flags, drivers
<1>11. ASSUME NEW j \in Jobs, NEW r \in {"ok", "err"}, Return(j, r) PROVE TypeOK'
  BY <1>11 DEF TypeOK, Return, Goto, WorkerStates, drivers
<1>12. ASSUME NEW j \in Jobs, PersistProvider(j) PROVE TypeOK'
  <2>1. phases' \in [Jobs -> Seq(Phases)]
    BY <1>12, EmitType DEF PersistProvider, Phases
  <2>2. persisted[j] + 1 \in 0..N
    BY <1>12 DEF TypeOK, Unfinished, PersistProvider
  <2>3. QED
    BY <1>12, <2>1, <2>2
       DEF TypeOK, PersistProvider, Goto, WorkerStates, Collecting, flags, drivers
<1>13. CASE CancelRefresh \/ CooldownEnds \/ LoopWakes \/ LoopTurnedAway
  BY <1>13 DEF TypeOK, CancelRefresh, CooldownEnds, LoopWakes, LoopTurnedAway,
               flags, drivers, workers
<1>14. CASE UNCHANGED vars
  BY <1>14 DEF TypeOK, vars, flags, drivers, workers
<1>15. QED
  BY <1>1, <1>2, <1>3, <1>4, <1>5, <1>6, <1>7, <1>8, <1>9, <1>10, <1>11, <1>12,
     <1>13, <1>14 DEF Next, DriverStep, AsyncStep, PostStep, WorkerStep, ReturnOk, Abort

-----------------------------------------------------------------------------
(* Who is active after a step *)

\* A claim: nobody was active, only j is.
LEMMA ClaimActivity ==
  ASSUME IInv, NEW j \in Jobs, NEW c \in {"start_refresh", "refresh_all"}, Claim(j, c)
  PROVE  /\ ~running /\ running' /\ Unfinished'
         /\ \A i \in Jobs : ~Active(i) /\ (Active(i)' <=> i = j)
<1>1. driver' = [driver EXCEPT ![j] = "claimed"] /\ worker' = worker
  BY DEF Claim, Goto
<1>2. persisted' = [persisted EXCEPT ![j] = 0]
  BY DEF Claim
<1>3. Unfinished'
  BY <1>1, <1>2 DEF IInv, TypeOK, Unfinished, Claim
<1>4. \A i \in Jobs : ~Active(i)
  BY DEF IInv, FlagMeansActive, Claim
<1>5. \A i \in Jobs : Active(i)' <=> i = j
  BY <1>1, <1>4 DEF IInv, TypeOK, Active, Claim
<1>6. QED
  BY <1>3, <1>4, <1>5 DEF Claim

\* A guard's drop: only j was active, nobody is.
LEMMA ReturnActivity ==
  ASSUME IInv, NEW j \in Jobs, NEW r \in {"ok", "err"}, Return(j, r), worker[j] \in Collecting
  PROVE  /\ running /\ ~running' /\ Unfinished'
         /\ Active(j) /\ \A i \in Jobs : ~Active(i)'
<1>1. driver' = driver /\ persisted' = persisted
  BY DEF Return, drivers
<1>2. worker' = [worker EXCEPT ![j] = "ended"]
  BY DEF Return, Goto
<1>3. Active(j) /\ driver[j] # "claimed"
  BY DEF IInv, Unfinished, Active, Collecting
<1>4. \A i \in Jobs : ~Active(i)'
  BY <1>1, <1>2, <1>3 DEF IInv, TypeOK, NoOverlap, Active, Collecting
<1>5. Unfinished'
  BY <1>1, <1>2 DEF IInv, TypeOK, Unfinished
<1>6. QED
  BY <1>3, <1>4, <1>5 DEF Return, IInv, FlagMeansActive

\* Any other step moves nobody in or out of activity.
SameActivity == running' = running /\ \A i \in Jobs : Active(i)' <=> Active(i)

LEMMA ActivityStep ==
  ASSUME IInv, [Next]_vars
  PROVE  \/ Unfinished' /\ SameActivity
         \/ \E j \in Jobs, c \in {"start_refresh", "refresh_all"} : Claim(j, c)
         \/ \E j \in Jobs, r \in {"ok", "err"} : Return(j, r) /\ worker[j] \in Collecting
<1> DEFINE Kinds ==
      \/ Unfinished' /\ SameActivity
      \/ \E j \in Jobs, c \in {"start_refresh", "refresh_all"} : Claim(j, c)
      \/ \E j \in Jobs, r \in {"ok", "err"} : Return(j, r) /\ worker[j] \in Collecting
<1> USE DEF IInv
<1>1. ASSUME NEW j \in Jobs, LoopRefresh(j) \/ \E c \in Commands : UserRefresh(j, c)
      PROVE  Kinds
  BY <1>1 DEF LoopRefresh, UserRefresh
<1>2. ASSUME NEW j \in Jobs, Launch(j) PROVE Kinds
  <2>1. Unfinished'
    BY <1>2 DEF TypeOK, Unfinished, Launch, Goto
  <2>2. SameActivity
    BY <1>2 DEF TypeOK, SameActivity, Active, Launch, Goto, Collecting
  <2>3. QED
    BY <2>1, <2>2
<1>3. ASSUME NEW j \in Jobs,
             Harvest(j) \/ TimeOut(j) \/ PostStep(j) \/ Report(j) \/ ClearCancel(j)
      PROVE  Kinds
  <2>1. running' = running /\ worker' = worker /\ persisted' = persisted
    BY <1>3 DEF Harvest, TimeOut, PostStep, RecordSyncTime, EvaluateAlerts, Report, ClearCancel, flags, workers
  <2>2. \E d \in DriverStates \ {"claimed"} :
          driver[j] # "claimed" /\ driver' = [driver EXCEPT ![j] = d]
    BY <1>3 DEF Harvest, TimeOut, PostStep, RecordSyncTime, EvaluateAlerts, Report, ClearCancel, Goto, DriverStates, PostCycle
  <2>3. Unfinished'
    BY <2>1, <2>2 DEF TypeOK, Unfinished
  <2>4. \A i \in Jobs : Active(i)' <=> Active(i)
    BY <2>1, <2>2 DEF TypeOK, Active
  <2>5. QED
    BY <2>1, <2>3, <2>4 DEF SameActivity
<1>4. ASSUME NEW j \in Jobs, CollectAll(j) \/ PersistProvider(j) \/ CheckCancel(j)
      PROVE  Kinds
  <2>1. running' = running /\ driver' = driver /\ driver[j] # "claimed"
    BY <1>4 DEF CollectAll, PersistProvider, CheckCancel, flags, drivers, Unfinished
  <2>2. Unfinished'
    BY <1>4, <2>1 DEF TypeOK, Unfinished, CollectAll, PersistProvider, CheckCancel, Goto
  <2>3. \E w \in Collecting : worker[j] \in Collecting /\ worker' = [worker EXCEPT ![j] = w]
    BY <1>4 DEF CollectAll, PersistProvider, CheckCancel, Goto, Collecting
  <2>4. \A i \in Jobs : Active(i)' <=> Active(i)
    BY <2>1, <2>3 DEF TypeOK, Active
  <2>5. QED
    BY <2>1, <2>2, <2>4 DEF SameActivity
<1>5. ASSUME NEW j \in Jobs, ReturnOk(j) \/ Abort(j) PROVE Kinds
  BY <1>5 DEF ReturnOk, Abort, Collecting
<1>6. CASE CancelRefresh \/ CooldownEnds \/ LoopWakes \/ LoopTurnedAway \/ UNCHANGED vars
  <2>1. running' = running /\ driver' = driver /\ worker' = worker /\ persisted' = persisted
    BY <1>6 DEF CancelRefresh, CooldownEnds, LoopWakes, LoopTurnedAway, vars, flags,
                drivers, workers
  <2>2. QED
    BY <2>1 DEF SameActivity, Unfinished, Active
<1>7. QED
  BY <1>1, <1>2, <1>3, <1>4, <1>5, <1>6 DEF Next, DriverStep, AsyncStep, PostStep, WorkerStep

\* Every step keeps the inductive invariant.
LEMMA StepIInv == IInv /\ [Next]_vars => IInv'
<1> SUFFICES ASSUME IInv, [Next]_vars PROVE Unfinished' /\ FlagMeansActive' /\ NoOverlap'
  BY TypeStep DEF IInv
<1>1. CASE Unfinished' /\ SameActivity
  BY <1>1 DEF SameActivity, IInv, FlagMeansActive, NoOverlap
<1>2. ASSUME NEW j \in Jobs, NEW c \in {"start_refresh", "refresh_all"}, Claim(j, c)
      PROVE  Unfinished' /\ FlagMeansActive' /\ NoOverlap'
  BY <1>2, ClaimActivity DEF FlagMeansActive, NoOverlap
<1>3. ASSUME NEW j \in Jobs, NEW r \in {"ok", "err"}, Return(j, r), worker[j] \in Collecting
      PROVE  Unfinished' /\ FlagMeansActive' /\ NoOverlap'
  BY <1>3, ReturnActivity DEF FlagMeansActive, NoOverlap
<1>4. QED
  BY <1>1, <1>2, <1>3, ActivityStep

LEMMA Invariance == Spec => []IInv
  BY InitIInv, StepIInv, PTL DEF Spec

-----------------------------------------------------------------------------
(* Theorems *)

\* Every variable stays in its type: in particular no worker writes more
\* providers than are registered.
THEOREM TypeCorrect == Spec => []TypeOK
  BY Invariance, PTL DEF IInv

\* Two refresh cycles are never in progress at once, whatever the number of
\* callers and however many drivers timed out.
THEOREM OneCycleAtATime == Spec => []NoOverlap
  BY Invariance, PTL DEF IInv

\* refresh_running is exactly "a cycle is in progress": never leaked, never
\* dropped early.
THEOREM FlagIsExact == Spec => []FlagMeansActive
  BY Invariance, PTL DEF IInv

-----------------------------------------------------------------------------
(* Refinement of the one-slot lock *)

\* Every step of a job is a step of RefreshSlot or leaves the slot alone.
LEMMA SlotStep == IInv /\ [Next]_vars => [Slot!Next]_{j \in Jobs : Active(j)}
<1> SUFFICES ASSUME IInv, [Next]_vars PROVE [Slot!Next]_{j \in Jobs : Active(j)}
  OBVIOUS
<1> DEFINE holders == {j \in Jobs : Active(j)}
<1>1. CASE SameActivity
  <2>1. holders' = holders
    BY <1>1 DEF SameActivity
  <2>2. QED
    BY <2>1
<1>2. ASSUME NEW j \in Jobs, NEW c \in {"start_refresh", "refresh_all"}, Claim(j, c)
      PROVE  Slot!Next
  <2>1. holders = {} /\ holders' = {j}
    BY <1>2, ClaimActivity
  <2>2. QED
    BY <2>1 DEF Slot!Next, Slot!Acquire
<1>3. ASSUME NEW j \in Jobs, NEW r \in {"ok", "err"}, Return(j, r), worker[j] \in Collecting
      PROVE  Slot!Next
  <2>1. holders # {} /\ holders' = {}
    BY <1>3, ReturnActivity
  <2>2. QED
    BY <2>1 DEF Slot!Next, Slot!Release
<1>4. QED
  BY <1>1, <1>2, <1>3, ActivityStep

\* The job machinery implements RefreshSlot: the slot is only ever taken when
\* free, by one job, and only ever emptied.
THEOREM JobImplementsSlot == Spec => ImplementsSlot
<1>1. Init => Slot!Init
  BY DEF Init, Slot!Init, Active, Collecting
<1>2. QED
  BY <1>1, SlotStep, Invariance, PTL DEF Spec, ImplementsSlot, Slot!Spec

-----------------------------------------------------------------------------
(* One verdict per job *)

\* A history that starts with "started" and with nothing else of that name.
Headed(s) == \A p \in DOMAIN s : s[p] = "started" <=> p = 1

\* A history without a verdict, and one with at most one.
Quiet(s) == \A p \in DOMAIN s : s[p] \notin Terminal
Single(s) == \A p, q \in DOMAIN s : s[p] \in Terminal /\ s[q] \in Terminal => p = q

\* A history with no verdict but "failed", and one in which only "progress" follows,
\* and that only a "failed".
AtMostFailed(s) == \A p \in DOMAIN s : s[p] \in Terminal => s[p] = "failed"
LateNews(s)     ==
  \A p, q \in DOMAIN s : p < q /\ s[p] \in Terminal => s[p] = "failed" /\ s[q] = "progress"

\* What one more event does to a history.
LEMMA AppendPhase ==
  ASSUME NEW s \in Seq(Phases), NEW e \in Phases
  PROVE  /\ Append(s, e) # <<>>
         /\ Headed(s) /\ s # <<>> /\ e # "started" => Headed(Append(s, e))
         /\ Headed(s) /\ s = <<>> /\ e = "started" => Headed(Append(s, e))
         /\ Quiet(s) /\ e \notin Terminal => Quiet(Append(s, e))
         /\ Quiet(s) => Single(Append(s, e))
         /\ Single(s) /\ e \notin Terminal => Single(Append(s, e))
         /\ Quiet(s) => LateNews(Append(s, e))
         /\ Quiet(s) /\ (e \notin Terminal \/ e = "failed") => AtMostFailed(Append(s, e))
         /\ LateNews(s) /\ AtMostFailed(s) /\ e = "progress" =>
              LateNews(Append(s, e)) /\ AtMostFailed(Append(s, e))
<1> DEFINE t == Append(s, e)
<1>1. /\ Len(s) \in Nat /\ Len(t) = Len(s) + 1 /\ t[Len(s) + 1] = e
      /\ DOMAIN s = 1..Len(s) /\ DOMAIN t = 1..(Len(s) + 1)
      /\ \A p \in 1..Len(s) : t[p] = s[p]
  BY AppendProperties, LenProperties
<1>2. s = <<>> <=> Len(s) = 0
  BY EmptySeq
<1> HIDE DEF t
<1>3. t # <<>>
  BY <1>1
<1>4. Headed(s) /\ (s = <<>> <=> e = "started") => Headed(t)
  BY <1>1, <1>2 DEF Headed
<1>5. Quiet(s) /\ e \notin Terminal => Quiet(t)
  BY <1>1 DEF Quiet
<1>6. Quiet(s) \/ (Single(s) /\ e \notin Terminal) => Single(t)
  BY <1>1 DEF Quiet, Single
<1>7. Quiet(s) => LateNews(t)
  BY <1>1 DEF Quiet, LateNews
<1>8. Quiet(s) /\ (e \notin Terminal \/ e = "failed") => AtMostFailed(t)
  BY <1>1 DEF Quiet, AtMostFailed
<1>9. LateNews(s) /\ AtMostFailed(s) /\ e = "progress" => LateNews(t) /\ AtMostFailed(t)
  BY <1>1 DEF LateNews, AtMostFailed, Terminal
<1>10. QED
  BY <1>3, <1>4, <1>5, <1>6, <1>7, <1>8, <1>9 DEF t

\* What a job has announced, given where its driver and its worker are.
Announced(j) ==
  /\ Headed(phases[j]) /\ Single(phases[j]) /\ LateNews(phases[j])
  /\ worker[j] \in Collecting => AtMostFailed(phases[j])
  /\ driver[j] = "claimed" => phases[j] = <<>>
  /\ driver[j] \in {"claimed", "waiting", "post", "alerts", "report"} => Quiet(phases[j])
  /\ (worker[j] \in Collecting \/ driver[j] \in {"waiting", "post", "alerts", "report"})
       /\ command[j] = "start_refresh" => phases[j] # <<>>
  /\ driver[j] \in {"post", "alerts", "report"} => worker[j] = "ended" /\ result[j] = "ok"

VInv == \A j \in Jobs : Announced(j)

\* A step of job j only has to care for job j.
LEMMA OtherJobs ==
  ASSUME VInv, NEW j \in Jobs, Announced(j)',
         \A i \in Jobs \ {j} :
           /\ phases'[i] = phases[i] /\ driver'[i] = driver[i] /\ worker'[i] = worker[i]
           /\ command'[i] = command[i] /\ result'[i] = result[i]
  PROVE  VInv'
<1>1. \A i \in Jobs \ {j} : Announced(i)'
  BY DEF VInv, Announced
<1>2. QED
  BY <1>1 DEF VInv

\* Every step keeps the histories in order.
LEMMA VerdictStep == IInv /\ VInv /\ [Next]_vars => VInv'
<1> SUFFICES ASSUME IInv, VInv, [Next]_vars PROVE VInv'
  OBVIOUS
<1> USE DEF IInv
<1>1. ASSUME NEW j \in Jobs, NEW c \in {"start_refresh", "refresh_all"}, Claim(j, c) PROVE VInv'
  <2>1. /\ phases'[j] = <<>> /\ driver'[j] = "claimed" /\ worker'[j] = "ended"
    BY <1>1 DEF TypeOK, Claim, Goto
  <2>2. DOMAIN phases'[j] = {}
    BY <2>1
  <2>3. Announced(j)'
    BY <2>1, <2>2 DEF Announced, Headed, Quiet, Single, LateNews, AtMostFailed, Collecting
  <2>4. QED
    BY <1>1, <2>3, OtherJobs DEF TypeOK, Claim, Goto
<1>2. ASSUME NEW j \in Jobs, Launch(j) PROVE VInv'
  <2>1. /\ phases[j] = <<>> /\ Headed(phases[j]) /\ Quiet(phases[j]) /\ Single(phases[j])
        /\ LateNews(phases[j]) /\ AtMostFailed(phases[j])
    BY <1>2 DEF VInv, Announced, Launch, Quiet, AtMostFailed
  <2>2. phases'[j] = IF command[j] = "start_refresh" THEN Append(phases[j], "started")
                                                     ELSE phases[j]
    BY <1>2 DEF TypeOK, Launch, Emit
  <2>3. /\ Headed(phases'[j]) /\ Quiet(phases'[j]) /\ Single(phases'[j])
        /\ LateNews(phases'[j]) /\ AtMostFailed(phases'[j])
        /\ command[j] = "start_refresh" => phases'[j] # <<>>
    BY <2>1, <2>2, AppendPhase DEF TypeOK, Phases, Terminal
  <2>4. command' = command /\ driver'[j] = "waiting"
    BY <1>2 DEF TypeOK, Launch, Goto
  <2>5. Announced(j)'
    BY <2>3, <2>4 DEF Announced
  <2>6. QED
    BY <1>2, <2>5, OtherJobs DEF TypeOK, Launch, Goto, Emit
<1>3. ASSUME NEW j \in Jobs, NEW e \in Terminal, NEW d \in {"clear", "done"},
             driver[j] \in {"waiting", "post", "alerts", "report"}, Emit(j, e),
             worker[j] = "ended" \/ e = "failed",
             driver' = [driver EXCEPT ![j] = d],
             UNCHANGED <<command, worker, result>>
      PROVE  VInv'
  <2>1. /\ Headed(phases[j]) /\ Quiet(phases[j]) /\ Single(phases[j])
        /\ LateNews(phases[j]) /\ AtMostFailed(phases[j])
        /\ command[j] = "start_refresh" => phases[j] # <<>>
    BY <1>3 DEF VInv, Announced, Quiet, AtMostFailed
  <2>2. phases'[j] = IF command[j] = "start_refresh" THEN Append(phases[j], e) ELSE phases[j]
    BY <1>3 DEF TypeOK, Emit
  <2>3. /\ Headed(phases'[j]) /\ Single(phases'[j]) /\ LateNews(phases'[j])
        /\ e = "failed" => AtMostFailed(phases'[j])
        /\ command[j] = "start_refresh" => phases'[j] # <<>>
    BY <2>1, <2>2, AppendPhase DEF TypeOK, Phases, Terminal
  <2>4. driver'[j] \in {"clear", "done"} /\ command' = command /\ worker' = worker
    BY <1>3 DEF TypeOK
  <2>5. Announced(j)'
    BY <1>3, <2>3, <2>4 DEF Announced, Collecting
  <2>6. QED
    BY <1>3, <2>5, OtherJobs DEF TypeOK, Emit
<1>4. ASSUME NEW j \in Jobs, PersistProvider(j) PROVE VInv'
  <2>1. /\ Headed(phases[j]) /\ Single(phases[j])
        /\ LateNews(phases[j]) /\ AtMostFailed(phases[j])
        /\ driver[j] \in {"waiting", "post", "alerts", "report"} => Quiet(phases[j])
        /\ command[j] = "start_refresh" => phases[j] # <<>>
        /\ driver[j] # "claimed"
        /\ driver[j] \notin {"post", "alerts", "report"}
    BY <1>4 DEF VInv, Announced, PersistProvider, Collecting, Unfinished
  <2>2. phases'[j] = IF command[j] = "start_refresh" THEN Append(phases[j], "progress")
                                                     ELSE phases[j]
    BY <1>4 DEF TypeOK, PersistProvider, Emit
  <2>3. /\ Headed(phases'[j]) /\ Single(phases'[j])
        /\ LateNews(phases'[j]) /\ AtMostFailed(phases'[j])
        /\ driver[j] \in {"waiting", "post", "alerts", "report"} => Quiet(phases'[j])
        /\ command[j] = "start_refresh" => phases'[j] # <<>>
    BY <2>1, <2>2, AppendPhase DEF TypeOK, Phases, Terminal
  <2>4. UNCHANGED <<command, driver, result>>
    BY <1>4 DEF PersistProvider, drivers
  <2>5. Announced(j)'
    BY <2>1, <2>3, <2>4 DEF Announced
  <2>6. QED
    BY <1>4, <2>4, <2>5, OtherJobs DEF TypeOK, PersistProvider, Goto, Emit
<1>5. ASSUME NEW j \in Jobs, CollectAll(j) \/ CheckCancel(j) PROVE VInv'
  <2>1. worker[j] \in Collecting /\ UNCHANGED <<command, driver, result, phases>>
    BY <1>5 DEF CollectAll, CheckCancel, Collecting, drivers
  <2>2. \A i \in Jobs \ {j} : worker'[i] = worker[i]
    BY <1>5 DEF TypeOK, CollectAll, CheckCancel, Goto
  <2>3. driver[j] \notin {"post", "alerts", "report"}
    BY <2>1 DEF VInv, Announced, Collecting
  <2>4. Announced(j)'
    BY <2>1, <2>3 DEF VInv, Announced
  <2>5. QED
    BY <2>1, <2>2, <2>4, OtherJobs
<1>6. ASSUME NEW j \in Jobs, NEW r \in {"ok", "err"}, Return(j, r), worker[j] \in Collecting
      PROVE  VInv'
  <2>1. UNCHANGED <<command, driver, phases>>
    BY <1>6 DEF Return, drivers
  <2>2. worker'[j] = "ended" /\ driver[j] # "claimed"
    BY <1>6 DEF TypeOK, Return, Goto, Unfinished, Collecting
  <2>3. driver[j] \notin {"post", "alerts", "report"}
    BY <1>6 DEF VInv, Announced, Collecting
  <2>4. Announced(j)'
    BY <2>1, <2>2, <2>3 DEF VInv, Announced, Collecting
  <2>5. QED
    BY <1>6, <2>1, <2>4, OtherJobs DEF TypeOK, Return, Goto
<1>7. ASSUME NEW j \in Jobs, Harvest(j) PROVE VInv'
  <2>1. CASE result[j] = "ok" /\ driver' = Goto(driver, j, "post") /\ UNCHANGED phases
    <3>1. driver'[j] = "post" /\ UNCHANGED <<command, worker, result, phases>>
      BY <1>7, <2>1 DEF TypeOK, Harvest, Goto, workers
    <3>2. Announced(j)'
      BY <1>7, <2>1, <3>1 DEF VInv, Announced, Harvest
    <3>3. QED
      BY <2>1, <3>1, <3>2, OtherJobs DEF TypeOK, Goto
  <2>2. CASE /\ Emit(j, "failed")
             /\ driver' = Goto(driver, j, IF command[j] = "start_refresh" THEN "clear" ELSE "done")
    BY <1>3, <1>7, <2>2 DEF Harvest, Goto, Terminal, workers
  <2>3. QED
    BY <1>7, <2>1, <2>2 DEF Harvest
<1>8. ASSUME NEW j \in Jobs, TimeOut(j) PROVE VInv'
  BY <1>3, <1>8 DEF TimeOut, Goto, Terminal, workers
<1>9. ASSUME NEW j \in Jobs, Report(j) PROVE VInv'
  BY <1>3, <1>9 DEF VInv, Announced, Report, Goto, Terminal, workers
<1>10. ASSUME NEW j \in Jobs, PostStep(j) \/ ClearCancel(j) PROVE VInv'
  <2>1. UNCHANGED <<command, worker, result, phases>>
    BY <1>10 DEF PostStep, RecordSyncTime, EvaluateAlerts, ClearCancel, workers
  <2>2. \/ driver[j] = "post" /\ driver'[j] = "alerts"
        \/ driver[j] = "alerts" /\ driver'[j] = "report"
        \/ driver'[j] \in {"clear", "done"}
    BY <1>10 DEF TypeOK, PostStep, RecordSyncTime, EvaluateAlerts, ClearCancel, Goto
  <2>3. \A i \in Jobs \ {j} : driver'[i] = driver[i]
    BY <1>10 DEF TypeOK, PostStep, RecordSyncTime, EvaluateAlerts, ClearCancel, Goto
  <2>4. Announced(j)'
    BY <2>1, <2>2 DEF VInv, Announced
  <2>5. QED
    BY <2>1, <2>3, <2>4, OtherJobs
<1>11. CASE CancelRefresh \/ CooldownEnds \/ LoopWakes \/ LoopTurnedAway \/ UNCHANGED vars
  <2>1. UNCHANGED <<command, driver, worker, result, phases>>
    BY <1>11 DEF CancelRefresh, CooldownEnds, LoopWakes, LoopTurnedAway, vars, drivers, workers
  <2>2. ASSUME NEW j \in Jobs PROVE Announced(j)'
    BY <2>1 DEF VInv, Announced
  <2>3. QED
    BY <2>2 DEF VInv
<1>12. ASSUME NEW j \in Jobs, NEW c \in Commands, UserRefresh(j, c) PROVE VInv'
  BY <1>1, <1>12 DEF UserRefresh
<1>13. ASSUME NEW j \in Jobs, LoopRefresh(j) PROVE VInv'
  <2>1. Claim(j, "start_refresh")
    BY <1>13 DEF LoopRefresh
  <2>2. QED
    BY <1>1, <2>1
<1>14. QED
  BY <1>2, <1>4, <1>5, <1>6, <1>7, <1>8, <1>9, <1>10, <1>11, <1>12, <1>13
     DEF Next, DriverStep, AsyncStep, PostStep, WorkerStep, ReturnOk, Abort, Collecting

LEMMA VerdictInvariance == Spec => []VInv
<1>1. Init => VInv
  <2> SUFFICES ASSUME Init, NEW j \in Jobs PROVE Announced(j)
    BY DEF VInv
  <2>1. phases[j] = <<>> /\ driver[j] = "done" /\ worker[j] = "ended"
    BY DEF Init
  <2>2. DOMAIN phases[j] = {}
    BY <2>1
  <2>3. QED
    BY <2>1, <2>2 DEF Announced, Headed, Quiet, Single, LateNews, AtMostFailed, Collecting
<1>2. QED
  BY <1>1, VerdictStep, Invariance, PTL DEF Spec

\* Every start_refresh job announces itself once, first, and gives at most one
\* verdict, whatever the timers and the other jobs do.
THEOREM VerdictIsUnique == Spec => []OneVerdict
<1>1. VInv => OneVerdict
  BY DEF VInv, Announced, OneVerdict, Headed, Single
<1>2. QED
  BY <1>1, VerdictInvariance, PTL

\* Whatever the timers do, nothing follows a verdict but the announcements of a worker
\* whose driver has given it up with "failed" (AppShell.tsx turns its spinner on again
\* for them).
THEOREM VerdictStands == Spec => []VerdictIsLast
<1>1. VInv => VerdictIsLast
  BY DEF VInv, Announced, VerdictIsLast, LateNews
<1>2. QED
  BY <1>1, VerdictInvariance, PTL

\* last_sync_time moves only on behalf of a job whose closure returned Ok and
\* that has given no verdict: a failed or timed-out cycle never suppresses the
\* next retry.
THEOREM SyncIsEarned == Spec => SyncOnlyAfterSuccess
<1> DEFINE Earned ==
      lastSync # "recent" /\ lastSync' = "recent" =>
        \E j \in Jobs : /\ driver[j] # "done" /\ driver'[j] # driver[j]
                        /\ result[j] = "ok"
                        /\ \A p \in DOMAIN phases[j] : phases[j][p] \notin Terminal
<1>1. IInv /\ VInv /\ [Next]_vars => [Earned]_vars
  <2> SUFFICES ASSUME IInv, VInv, [Next]_vars, lastSync # "recent", lastSync' = "recent"
               PROVE  Earned
    OBVIOUS
  <2>1. PICK j \in Jobs : RecordSyncTime(j)
    BY DEF Next, DriverStep, AsyncStep, PostStep, WorkerStep, UserRefresh, LoopRefresh, Claim, Launch, Harvest,
           TimeOut, EvaluateAlerts, Report, ClearCancel, CollectAll, PersistProvider, CheckCancel, ReturnOk,
           Abort, Return, CancelRefresh, CooldownEnds, LoopWakes, LoopTurnedAway, vars
  <2>2. driver[j] = "post" /\ driver'[j] # "post"
    BY <2>1 DEF RecordSyncTime, Goto, IInv, TypeOK
  <2>3. result[j] = "ok" /\ Quiet(phases[j])
    BY <2>2 DEF VInv, Announced
  <2>4. QED
    BY <2>2, <2>3 DEF Quiet
<1>2. QED
  BY <1>1, Invariance, VerdictInvariance, PTL DEF Spec, SyncOnlyAfterSuccess

-----------------------------------------------------------------------------
(* While no timer fires *)

\* The driver of a running worker waits for it, and nothing follows a verdict.
Awaited(j) ==
  /\ worker[j] \in Collecting => driver[j] = "waiting"
  /\ \A p \in DOMAIN phases[j] : phases[j][p] \in Terminal => p = Len(phases[j])

AInv == \A j \in Jobs : Awaited(j)

\* The events of a history that has not had its verdict, and one more.
LEMMA AppendToQuiet ==
  ASSUME NEW s \in Seq(Phases), Quiet(s), NEW e \in Phases
  PROVE  \A p \in DOMAIN Append(s, e) : Append(s, e)[p] \in Terminal => p = Len(Append(s, e))
<1> DEFINE t == Append(s, e)
<1>1. /\ Len(s) \in Nat /\ Len(t) = Len(s) + 1
      /\ DOMAIN s = 1..Len(s) /\ DOMAIN t = 1..(Len(s) + 1)
      /\ \A p \in 1..Len(s) : t[p] = s[p]
  BY AppendProperties, LenProperties
<1> HIDE DEF t
<1>2. \A p \in DOMAIN t : t[p] \in Terminal => p = Len(t)
  BY <1>1 DEF Quiet
<1>3. QED
  BY <1>2 DEF t

LEMMA AwaitedStep == ~MayTimeOut /\ IInv /\ VInv /\ AInv /\ [Next]_vars => AInv'
<1> SUFFICES ASSUME ~MayTimeOut, IInv, VInv, AInv, [Next]_vars PROVE AInv'
  OBVIOUS
<1>0. TypeOK
  BY DEF IInv
\* A step of job j only has to care for job j.
<1>1. ASSUME NEW j \in Jobs, Awaited(j)',
             \A i \in Jobs \ {j} :
               phases'[i] = phases[i] /\ driver'[i] = driver[i] /\ worker'[i] = worker[i]
      PROVE  AInv'
  <2>1. \A i \in Jobs \ {j} : Awaited(i)'
    BY <1>1 DEF AInv, Awaited
  <2>2. QED
    BY <1>1, <2>1 DEF AInv
\* One more event of a job without a verdict.
<1>2. ASSUME NEW j \in Jobs, NEW e \in Phases, Quiet(phases[j]), Emit(j, e)
      PROVE  \A p \in DOMAIN phases'[j] : phases'[j][p] \in Terminal => p = Len(phases'[j])
  <2>1. phases[j] \in Seq(Phases)
    BY <1>0 DEF TypeOK
  <2>2. phases'[j] = IF command[j] = "start_refresh" THEN Append(phases[j], e) ELSE phases[j]
    BY <1>0, <1>2 DEF TypeOK, Emit
  <2>3. \A p \in DOMAIN phases[j] : phases[j][p] \notin Terminal
    BY <1>2 DEF Quiet
  <2>4. QED
    BY <1>2, <2>1, <2>2, <2>3, AppendToQuiet
<1>3. ASSUME NEW j \in Jobs, NEW c \in {"start_refresh", "refresh_all"}, Claim(j, c) PROVE AInv'
  <2>1. phases'[j] = <<>> /\ worker'[j] = "ended"
    BY <1>0, <1>3 DEF TypeOK, Claim
  <2>2. DOMAIN phases'[j] = {}
    BY <2>1
  <2>3. Awaited(j)'
    BY <2>1, <2>2 DEF Awaited, Collecting
  <2>4. QED
    BY <1>0, <1>1, <1>3, <2>3 DEF TypeOK, Claim, Goto
<1>4. ASSUME NEW j \in Jobs, Launch(j) PROVE AInv'
  <2>1. Quiet(phases[j])
    BY <1>4 DEF VInv, Announced, Launch
  <2>2. \A p \in DOMAIN phases'[j] : phases'[j][p] \in Terminal => p = Len(phases'[j])
    BY <1>2, <1>4, <2>1 DEF Launch, Phases
  <2>3. driver'[j] = "waiting"
    BY <1>0, <1>4 DEF TypeOK, Launch, Goto
  <2>4. QED
    BY <1>0, <1>1, <1>4, <2>2, <2>3 DEF TypeOK, Launch, Goto, Emit, Awaited
\* The driver of a worker that has ended goes on, silently or with its verdict.
<1>5. ASSUME NEW j \in Jobs, NEW d \in DriverStates, worker[j] = "ended", worker' = worker,
             driver' = [driver EXCEPT ![j] = d],
             \/ phases' = phases
             \/ \E e \in Terminal : Quiet(phases[j]) /\ Emit(j, e)
      PROVE  AInv'
  <2>1. \A p \in DOMAIN phases'[j] : phases'[j][p] \in Terminal => p = Len(phases'[j])
    BY <1>2, <1>5 DEF AInv, Awaited, Phases, Terminal
  <2>2. Awaited(j)'
    BY <1>5, <2>1 DEF Awaited, Collecting
  <2>3. QED
    BY <1>0, <1>1, <1>5, <2>2 DEF TypeOK, Emit
<1>6. ASSUME NEW j \in Jobs, Harvest(j) PROVE AInv'
  <2>1. Quiet(phases[j])
    BY <1>6 DEF VInv, Announced, Harvest
  <2>2. QED
    BY <1>5, <1>6, <2>1 DEF Harvest, Goto, DriverStates, PostCycle, Terminal, workers
<1>7. ASSUME NEW j \in Jobs, PostStep(j) \/ Report(j) PROVE AInv'
  <2>1. Quiet(phases[j]) /\ worker[j] = "ended"
    BY <1>7 DEF VInv, Announced, PostStep, RecordSyncTime, EvaluateAlerts, Report
  <2>2. QED
    BY <1>5, <1>7, <2>1 DEF PostStep, RecordSyncTime, EvaluateAlerts, Report, Goto, DriverStates, PostCycle, Terminal, workers
<1>8. ASSUME NEW j \in Jobs, ClearCancel(j) PROVE AInv'
  <2>1. worker[j] = "ended"
    BY <1>0, <1>8 DEF AInv, Awaited, ClearCancel, TypeOK, WorkerStates
  <2>2. QED
    BY <1>5, <1>8, <2>1 DEF ClearCancel, Goto, DriverStates, PostCycle, workers
<1>9. ASSUME NEW j \in Jobs, PersistProvider(j) PROVE AInv'
  <2>1. driver[j] = "waiting" /\ driver' = driver
    BY <1>9 DEF AInv, Awaited, PersistProvider, Collecting, drivers
  <2>2. Quiet(phases[j])
    BY <2>1 DEF VInv, Announced
  <2>3. \A p \in DOMAIN phases'[j] : phases'[j][p] \in Terminal => p = Len(phases'[j])
    BY <1>2, <1>9, <2>2 DEF PersistProvider, Phases
  <2>4. QED
    BY <1>0, <1>1, <1>9, <2>1, <2>3 DEF TypeOK, PersistProvider, Goto, Emit, Awaited
<1>10. ASSUME NEW j \in Jobs, NEW w \in WorkerStates, worker[j] \in Collecting,
              worker' = [worker EXCEPT ![j] = w], UNCHANGED <<drivers, phases>>
       PROVE  AInv'
  <2>1. Awaited(j)'
    BY <1>10 DEF AInv, Awaited, drivers
  <2>2. QED
    BY <1>0, <1>1, <1>10, <2>1 DEF TypeOK, drivers
<1>11. ASSUME NEW j \in Jobs, CollectAll(j) \/ CheckCancel(j) \/ ReturnOk(j) \/ Abort(j) PROVE AInv'
  BY <1>10, <1>11 DEF CollectAll, CheckCancel, ReturnOk, Abort, Return, Goto, WorkerStates, Collecting
<1>12. CASE CancelRefresh \/ CooldownEnds \/ LoopWakes \/ LoopTurnedAway \/ UNCHANGED vars
  <2>1. UNCHANGED <<driver, worker, phases>>
    BY <1>12 DEF CancelRefresh, CooldownEnds, LoopWakes, LoopTurnedAway, vars, drivers, workers
  <2>2. QED
    BY <2>1 DEF AInv, Awaited
<1>13. ASSUME NEW j \in Jobs, LoopRefresh(j) \/ \E c \in Commands : UserRefresh(j, c) PROVE AInv'
  BY <1>3, <1>13 DEF LoopRefresh, UserRefresh
<1>14. QED
  BY <1>4, <1>6, <1>7, <1>8, <1>9, <1>11, <1>12, <1>13 DEF Next, DriverStep, AsyncStep, PostStep, WorkerStep, TimeOut

LEMMA AwaitedInvariance == ~MayTimeOut /\ Spec => []AInv
<1>1. Init => AInv
  <2> SUFFICES ASSUME Init, NEW j \in Jobs PROVE Awaited(j)
    BY DEF AInv
  <2>1. phases[j] = <<>> /\ worker[j] = "ended"
    BY DEF Init
  <2>2. DOMAIN phases[j] = {}
    BY <2>1
  <2>3. QED
    BY <2>1, <2>2 DEF Awaited, Collecting
<1>2. CASE MayTimeOut
  BY <1>2
<1>3. CASE ~MayTimeOut
  <2>1. IInv /\ VInv /\ AInv /\ [Next]_vars => AInv'
    BY <1>3, AwaitedStep
  <2>2. QED
    BY <1>1, <2>1, Invariance, VerdictInvariance, PTL DEF Spec
<1>4. QED
  BY <1>2, <1>3

-----------------------------------------------------------------------------
(* The main window *)

\* What the window relies on: no timer fires, and it is start_refresh that everyone
\* calls, which native.ts and the background loop do.
Quietly == ~MayTimeOut /\ Commands = {"start_refresh"}

\* The driver has its verdict still to give.
Owing(j) == driver[j] \in {"claimed", "waiting", "post", "alerts", "report"}
Owed     == invoking \/ \E j \in Jobs : Owing(j)

\* Whatever there is to see, a verdict is on its way: still to be given, or the last
\* event in the channel.
SInv ==
  /\ wire \in Seq(Phases)
  /\ wire # <<>> => wire[Len(wire)] \in Terminal \/ Owed
  /\ refreshing \/ unseen => wire # <<>> \/ Owed

StartsOnly == \A j \in Jobs : command[j] = "start_refresh"

JobInv == IInv /\ VInv /\ AInv /\ StartsOnly

\* A step of the shell is one of the job, or leaves the job alone.
LEMMA ShellStepIsJobStep == Quietly /\ [ShellNext]_shellVars => [Next]_vars
<1> SUFFICES ASSUME Quietly, [ShellNext]_shellVars PROVE [Next]_vars
  OBVIOUS
<1>1. CASE Backend
  BY <1>1 DEF Backend
<1>2. CASE Click \/ Deliver \/ UNCHANGED shellVars
  BY <1>2 DEF Click, Deliver, shellVars
<1>3. CASE Invoke
  <2>1. ASSUME NEW j \in Jobs, UserRefresh(j, "start_refresh") PROVE Next
    BY <2>1 DEF Next, Quietly
  <2>2. QED
    BY <1>3, <2>1 DEF Invoke
<1>4. QED
  BY <1>1, <1>2, <1>3 DEF ShellNext

LEMMA StartsStep == Quietly /\ StartsOnly /\ [Next]_vars => StartsOnly'
<1> SUFFICES ASSUME Quietly, StartsOnly, [Next]_vars, NEW i \in Jobs PROVE command'[i] = "start_refresh"
  BY DEF StartsOnly
<1>1. ASSUME NEW j \in Jobs, Claim(j, "start_refresh") PROVE command'[i] = "start_refresh"
  BY <1>1 DEF Claim, StartsOnly
<1>2. ASSUME command' = command PROVE command'[i] = "start_refresh"
  BY <1>2 DEF StartsOnly
<1>3. ASSUME NEW j \in Jobs, LoopRefresh(j) \/ \E c \in Commands : UserRefresh(j, c)
      PROVE  command'[i] = "start_refresh"
  BY <1>1, <1>3 DEF Quietly, LoopRefresh, UserRefresh
<1>4. ASSUME NEW j \in Jobs, DriverStep(j) \/ WorkerStep(j) PROVE command' = command
  BY <1>4 DEF DriverStep, AsyncStep, PostStep, WorkerStep, Launch, Harvest, TimeOut, RecordSyncTime, EvaluateAlerts, Report, ClearCancel,
     CollectAll, PersistProvider, CheckCancel, ReturnOk, Abort, Return, drivers
<1>5. QED
  BY <1>2, <1>3, <1>4 DEF Next, CancelRefresh, CooldownEnds, LoopWakes, LoopTurnedAway, vars, drivers

LEMMA JobInvariance == Quietly /\ Init /\ [][Next]_vars => []JobInv
<1>1. CASE ~Quietly
  BY <1>1
<1>2. CASE Quietly
  <2>1. Init => StartsOnly
    BY DEF Init, StartsOnly
  <2>2. StartsOnly /\ [Next]_vars => StartsOnly'
    BY <1>2, StartsStep
  <2>3. ~MayTimeOut
    BY <1>2 DEF Quietly
  <2>4. Init /\ [][Next]_vars => []StartsOnly
    BY <2>1, <2>2, PTL
  <2>5. QED
    BY <2>3, <2>4, Invariance, VerdictInvariance, AwaitedInvariance, PTL DEF Spec, JobInv
<1>3. QED
  BY <1>1, <1>2

\* A job that emits nothing, and one that emits e.
Silent    == \A j \in Jobs : phases'[j] \in {phases[j], <<>>}
Says(j, e) == phases' = [phases EXCEPT ![j] = Append(@, e)]

LEMMA SilentNews == TypeOK /\ Silent => News = {}
<1> SUFFICES ASSUME TypeOK, Silent, NEW j \in Jobs PROVE ~(Len(phases'[j]) > Len(phases[j]))
  BY DEF News
<1>1. Len(phases[j]) \in Nat /\ Len(<<>>) = 0
  BY LenProperties DEF TypeOK
<1>2. QED
  BY <1>1 DEF Silent

LEMMA SaidNews == ASSUME TypeOK, NEW j \in Jobs, NEW e \in Phases, Says(j, e) PROVE News = {e}
<1>1. /\ phases[j] \in Seq(Phases) /\ phases'[j] = Append(phases[j], e)
      /\ \A i \in Jobs \ {j} : phases'[i] = phases[i]
  BY DEF TypeOK, Says
<1>2. /\ Len(phases'[j]) > Len(phases[j]) /\ phases'[j][Len(phases'[j])] = e
  BY <1>1, AppendProperties, LenProperties
<1>3. \A i \in Jobs \ {j} : ~(Len(phases'[i]) > Len(phases[i]))
  <2> SUFFICES ASSUME NEW i \in Jobs \ {j} PROVE ~(Len(phases'[i]) > Len(phases[i]))
    OBVIOUS
  <2>1. Len(phases[i]) \in Nat
    BY LenProperties DEF TypeOK
  <2>2. QED
    BY <1>1, <2>1
<1>4. {k \in Jobs : Len(phases'[k]) > Len(phases[k])} = {j}
  BY <1>2, <1>3
<1>5. QED
  BY <1>2, <1>4 DEF News

\* What a step of the backend says, and who owes a verdict afterwards.
LEMMA BackendSays ==
  ASSUME Quietly, JobInv, Next
  PROVE  /\ \/ Silent /\ \A j \in Jobs : Owing(j) => Owing(j)'
            \/ \E j \in Jobs, e \in {"started", "progress"} : Says(j, e) /\ Owing(j)'
            \/ \E j \in Jobs, e \in Terminal : Says(j, e)
         /\ (\E j \in Jobs : persisted'[j] > persisted[j]) => \E j \in Jobs : Owing(j)'
<1>0. TypeOK /\ StartsOnly
  BY DEF JobInv, IInv
<1> DEFINE Speaks ==
      \/ Silent /\ \A j \in Jobs : Owing(j) => Owing(j)'
      \/ \E j \in Jobs, e \in {"started", "progress"} : Says(j, e) /\ Owing(j)'
      \/ \E j \in Jobs, e \in Terminal : Says(j, e)
    Writes == (\E j \in Jobs : persisted'[j] > persisted[j]) => \E j \in Jobs : Owing(j)'
<1>e. \A j \in Jobs : \A e : Emit(j, e) => Says(j, e)
  BY <1>0 DEF Emit, Says, StartsOnly
<1>p. \A j \in Jobs : persisted[j] \in Nat
  BY <1>0 DEF TypeOK
<1>1. ASSUME NEW j \in Jobs, Claim(j, "start_refresh") PROVE Speaks /\ Writes
  <2>1. driver' = [driver EXCEPT ![j] = "claimed"] /\ phases' = [phases EXCEPT ![j] = <<>>]
    BY <1>1 DEF Claim, Goto
  <2>2. Silent /\ (\A i \in Jobs : Owing(i) => Owing(i)') /\ Owing(j)'
    BY <1>0, <2>1 DEF TypeOK, Silent, Owing
  <2>3. QED
    BY <2>2
<1>2. ASSUME NEW j \in Jobs, Launch(j) PROVE Speaks /\ Writes
  <2>1. Says(j, "started") /\ Owing(j)'
    BY <1>0, <1>e, <1>2 DEF Launch, Goto, TypeOK, Owing
  <2>2. QED
    BY <2>1
\* A driver that goes on without a word still owes its verdict.
<1>3. ASSUME persisted' = persisted,
             \/ phases' = phases /\ \A j \in Jobs : Owing(j) => Owing(j)'
             \/ \E j \in Jobs, e \in Terminal : Says(j, e)
      PROVE  Speaks /\ Writes
  BY <1>p, <1>3 DEF Silent
<1>4. ASSUME NEW j \in Jobs, Harvest(j) PROVE Speaks /\ Writes
  <2>1. CASE result[j] = "ok" /\ driver' = Goto(driver, j, "post") /\ UNCHANGED phases
    <3>1. \A i \in Jobs : Owing(i) => Owing(i)'
      BY <1>0, <2>1 DEF TypeOK, Goto, Owing
    <3>2. QED
      BY <1>3, <1>4, <2>1, <3>1 DEF Harvest, workers
  <2>2. CASE Emit(j, "failed")
    BY <1>e, <1>3, <1>4, <2>2 DEF Harvest, workers, Terminal
  <2>3. QED
    BY <1>4, <2>1, <2>2 DEF Harvest
<1>5. ASSUME NEW j \in Jobs, PostStep(j) PROVE Speaks /\ Writes
  <2>1. \E d \in {"alerts", "report"} : driver' = [driver EXCEPT ![j] = d]
    BY <1>0, <1>5 DEF PostStep, RecordSyncTime, EvaluateAlerts, Goto, StartsOnly
  <2>2. \A i \in Jobs : Owing(i) => Owing(i)'
    BY <1>0, <2>1 DEF TypeOK, Owing
  <2>3. QED
    BY <1>3, <1>5, <2>2 DEF PostStep, RecordSyncTime, EvaluateAlerts, workers
<1>6. ASSUME NEW j \in Jobs, Report(j) PROVE Speaks /\ Writes
  BY <1>e, <1>3, <1>6 DEF Report, workers, Terminal
<1>7. ASSUME NEW j \in Jobs, ClearCancel(j) PROVE Speaks /\ Writes
  <2>1. \A i \in Jobs : Owing(i) => Owing(i)'
    BY <1>0, <1>7 DEF TypeOK, ClearCancel, Goto, Owing
  <2>2. QED
    BY <1>3, <1>7, <2>1 DEF ClearCancel, workers
<1>8. ASSUME NEW j \in Jobs, PersistProvider(j) PROVE Speaks /\ Writes
  <2>1. driver[j] = "waiting" /\ driver' = driver
    BY <1>8 DEF JobInv, AInv, Awaited, PersistProvider, Collecting, drivers
  <2>2. Says(j, "progress") /\ Owing(j)'
    BY <1>e, <1>8, <2>1 DEF PersistProvider, Owing
  <2>3. QED
    BY <2>2
<1>9. ASSUME NEW j \in Jobs, CollectAll(j) \/ CheckCancel(j) \/ ReturnOk(j) \/ Abort(j)
      PROVE  Speaks /\ Writes
  <2>1. UNCHANGED <<driver, phases, persisted>>
    BY <1>9 DEF CollectAll, CheckCancel, ReturnOk, Abort, Return, drivers
  <2>2. QED
    BY <1>3, <2>1 DEF Owing
<1>10. CASE CancelRefresh \/ CooldownEnds \/ LoopWakes \/ LoopTurnedAway
  <2>1. UNCHANGED <<driver, phases, persisted>>
    BY <1>10 DEF CancelRefresh, CooldownEnds, LoopWakes, LoopTurnedAway, drivers, workers
  <2>2. QED
    BY <1>3, <2>1 DEF Owing
<1>11. ASSUME NEW j \in Jobs, LoopRefresh(j) \/ \E c \in Commands : UserRefresh(j, c)
       PROVE  Speaks /\ Writes
  BY <1>1, <1>11 DEF LoopRefresh, UserRefresh, Quietly
<1>12. QED
  BY <1>2, <1>4, <1>5, <1>6, <1>7, <1>8, <1>9, <1>10, <1>11
     DEF Next, DriverStep, AsyncStep, PostStep, WorkerStep, TimeOut, Quietly

LEMMA BackendSettles ==
  ASSUME Quietly, JobInv, SInv, Backend
  PROVE  SInv'
<1>0. TypeOK /\ wire \in Seq(Phases)
  BY DEF JobInv, IInv, SInv
<1>1. Next /\ UNCHANGED <<refreshing, invoking>>
  BY DEF Backend
<1>2. unseen' => unseen \/ \E j \in Jobs : Owing(j)'
  BY <1>1, BackendSays DEF Backend
<1>3. ASSUME NEW e \in Phases, wire' = Append(wire, e)
      PROVE  wire' \in Seq(Phases) /\ wire' # <<>> /\ wire'[Len(wire')] = e
  BY <1>0, <1>3, AppendProperties, LenProperties
<1>4. CASE Silent /\ \A j \in Jobs : Owing(j) => Owing(j)'
  <2>1. wire' = wire
    BY <1>0, <1>4, SilentNews DEF Backend, Wired
  <2>2. Owed => Owed'
    BY <1>1, <1>4 DEF Owed
  <2>3. QED
    BY <1>1, <1>2, <2>1, <2>2 DEF SInv, Owed
<1>5. ASSUME NEW j \in Jobs, NEW e \in Phases, Says(j, e), e \in Terminal \/ Owing(j)' PROVE SInv'
  <2>1. wire' = Append(wire, e)
    <3>1. News = {e}
      BY <1>0, <1>5, SaidNews
    <3>2. QED
      BY <3>1 DEF Backend, Wired
  <2>2. QED
    BY <1>3, <1>5, <2>1 DEF SInv, Owed
<1>6. QED
  BY <1>1, <1>4, <1>5, BackendSays DEF Phases, Terminal

\* The command starts a job, or finds one that has its verdict to give.
LEMMA InvokeOwes == ASSUME JobInv, Invoke PROVE \E j \in Jobs : Owing(j)'
<1>0. TypeOK
  BY DEF JobInv, IInv
<1>1. ASSUME NEW j \in Jobs, UserRefresh(j, "start_refresh") PROVE Owing(j)'
  BY <1>0, <1>1 DEF UserRefresh, Claim, Goto, TypeOK, Owing
<1>2. CASE running /\ UNCHANGED vars
  <2>1. PICK j \in Jobs : Active(j)
    BY <1>2 DEF JobInv, IInv, FlagMeansActive
  <2>2. Owing(j)
    BY <2>1 DEF JobInv, AInv, Awaited, Active, Owing
  <2>3. QED
    BY <1>2, <2>2 DEF Owing, vars, drivers
<1>3. QED
  BY <1>1, <1>2 DEF Invoke

LEMMA ShellSettles == Quietly /\ JobInv /\ SInv /\ [ShellNext]_shellVars => SInv'
<1> SUFFICES ASSUME Quietly, JobInv, SInv, [ShellNext]_shellVars PROVE SInv'
  OBVIOUS
<1>1. CASE Backend
  BY <1>1, BackendSettles
<1>2. CASE Click
  BY <1>2 DEF Click, SInv, Owed
<1>3. CASE Invoke
  <2>1. UNCHANGED <<wire, refreshing, unseen>>
    BY <1>3 DEF Invoke
  <2>2. Owed'
    BY <1>3, InvokeOwes DEF Owed
  <2>3. QED
    BY <2>1, <2>2 DEF SInv
<1>4. CASE Deliver
  <2>1. wire \in Seq(Phases) /\ wire # <<>> /\ wire' = Tail(wire)
    BY <1>4 DEF SInv, Deliver
  <2>a. Len(wire) \in Nat /\ Len(wire) # 0
    BY <2>1, LenProperties, EmptySeq
  <2>b. /\ wire' \in Seq(Phases) /\ Len(wire') = Len(wire) - 1
        /\ \A p \in 1..Len(wire') : wire'[p] = wire[p + 1]
    BY <2>1, HeadTailProperties
  <2>c. wire' = <<>> <=> Len(wire') = 0
    BY <2>b, EmptySeq
  <2>d. Head(wire) = wire[1]
    BY <2>1
  <2>3. Owed' = Owed
    BY <1>4 DEF Deliver, Owed, Owing, vars, drivers
  <2>4. ASSUME wire' # <<>> PROVE wire'[Len(wire')] = wire[Len(wire)]
    <3>1. Len(wire') \in 1..Len(wire') /\ Len(wire') + 1 = Len(wire)
      BY <2>a, <2>b, <2>c, <2>4
    <3>2. QED
      BY <2>b, <3>1
  <2>5. ASSUME wire' = <<>> PROVE wire[Len(wire)] = Head(wire)
    <3>1. Len(wire') = 0
      BY <2>c, <2>5
    <3>2. Len(wire) = 1
      BY <2>a, <2>b, <3>1
    <3>3. QED
      BY <2>d, <3>2
  <2>6. Head(wire) \in Terminal => ~refreshing' /\ ~unseen'
    BY <1>4 DEF Deliver, Terminal
  <2>7. QED
    BY <2>1, <2>b, <2>3, <2>4, <2>5, <2>6 DEF SInv
<1>5. CASE UNCHANGED shellVars
  BY <1>5 DEF shellVars, ui, vars, drivers, SInv, Owed, Owing
<1>6. QED
  BY <1>1, <1>2, <1>3, <1>4, <1>5 DEF ShellNext

\* As long as no timer fires and everyone calls start_refresh, a window that has been
\* told everything shows no spinner and nothing it has not loaded, however the jobs,
\* their verdicts, the clicks and the deliveries interleave (AppShell.tsx).
THEOREM WindowComesToRest == Quietly /\ ShellSpec => []WindowSettles
<1>1. CASE ~Quietly
  BY <1>1
<1>2. CASE Quietly
  <2>1. ShellInit => Init /\ SInv
    BY EmptySeq DEF ShellInit, SInv
  <2>2. ShellSpec => []JobInv
    BY <1>2, <2>1, ShellStepIsJobStep, JobInvariance, PTL DEF ShellSpec
  <2>3. JobInv /\ SInv /\ [ShellNext]_shellVars => SInv'
    BY <1>2, ShellSettles
  <2>4. SInv => WindowSettles
    BY DEF SInv, Owed, Owing, WindowSettles, SpinnerOffAtRest, FreshAtRest, AtRest
  <2>5. QED
    BY <2>1, <2>2, <2>3, <2>4, PTL DEF ShellSpec
<1>3. QED
  BY <1>1, <1>2
=============================================================================
