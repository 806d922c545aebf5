------------------------ MODULE ProviderStoreProofs ------------------------
(***************************************************************************)
(* Theorems about ProviderStore for every set of accounts, records and      *)
(* refreshers.  Three facts carry them: what an actor is about to ingest is *)
(* a whole scan (Batches), what it is about to write was not refused on     *)
(* what it had read (Decided), and a report is written with its windows.    *)
(***************************************************************************)
EXTENDS ProviderStore, TLAPS

\* A batch is a scan of some past content, booked on the actor's account.
Batches ==
  \A x \in Actors :
    actor[x].batch = {} \/ \E s \in past : actor[x].batch = Scan(s, actor[x].fp)

\* An actor in front of its transaction was not refused by what it had read.
Decided ==
  \A x \in Actors : At(x, "write") => ~Refuses(actor[x].report, actor[x].seen)

Inv == TypeOK /\ Batches /\ Decided /\ WholeScans /\ ReportsHaveTheirWindows

Carried == [pc : Places, fp : Buckets, batch : SUBSET Events, code : Codes,
            report : Reports, seen : Reports]

-----------------------------------------------------------------------------
LEMMA ScanTyped ==
  ASSUME NEW s \in Contents, NEW b \in Buckets
  PROVE  Scan(s, b) \subseteq Events /\ \A e \in Scan(s, b) : e.bucket = b
<1>1. ASSUME NEW rec \in Records, s[rec] > 0 PROVE s[rec] \in 1..MaxSize
  BY <1>1, BoundsAssumption DEF Contents
<1>2. \A rec \in Records : s[rec] > 0 =>
        [rec |-> rec, size |-> s[rec], bucket |-> b] \in Events
  BY <1>1 DEF Events
<1> QED BY <1>2 DEF Scan

LEMMA NoReportTyped == NoReport \in Reports
BY BoundsAssumption DEF NoReport, Reports, Buckets

LEMMA RestingTyped == Resting \in Carried
<1>1. Nobody \in Buckets /\ {} \in SUBSET Events
  BY DEF Buckets
<1> QED BY <1>1, NoReportTyped DEF Resting, Carried, Places, Codes

LEMMA OverTyped ==
  ASSUME NEW x \in Actors
  PROVE  Over(x) \in Carried /\ Over(x).batch = {} /\ Over(x).pc # "write"
<1>1. Resting \in Carried /\ Resting.batch = {} /\ Resting.pc # "write"
  BY RestingTyped DEF Resting
<1>2. [Resting EXCEPT !.pc = "answer"] \in Carried
  BY <1>1 DEF Carried, Places
<1>3. [Resting EXCEPT !.pc = "answer"].batch = {} /\ [Resting EXCEPT !.pc = "answer"].pc # "write"
  BY DEF Resting
<1> QED BY <1>1, <1>2, <1>3 DEF Over

LEMMA TypeInit == Init => TypeOK
<1> SUFFICES ASSUME Init PROVE TypeOK
    OBVIOUS
<1>1. source \in Contents /\ past \subseteq Contents /\ source \in past
  BY BoundsAssumption DEF Init, Contents
<1>2. reports \in [Buckets -> Reports]
  BY NoReportTyped DEF Init
<1>3. actor \in [Actors -> Carried]
  BY RestingTyped DEF Init
<1>4. clock \in 0..MaxClock
  BY BoundsAssumption DEF Init
<1> QED BY <1>1, <1>2, <1>3, <1>4 DEF Init, TypeOK, Carried

\* What a step does to the actor it is a step of, and to no other.
LEMMA StepTyped ==
  ASSUME TypeOK, NEW x \in Actors, Step(x)
  PROVE  TypeOK'
<1> USE BoundsAssumption
<1>0. actor \in [Actors -> Carried] /\ actor[x] \in Carried
  BY DEF TypeOK, Carried
<1>1. CASE Identify(x)
  <2>1. [Resting EXCEPT !.pc = "usage", !.fp = login] \in Carried
    BY RestingTyped DEF Carried, Places, TypeOK
  <2>2. actor' \in [Actors -> Carried]
    BY <1>0, <1>1, <2>1 DEF Identify
  <2> QED BY <1>1, <2>2 DEF Identify, World, Database, TypeOK, Carried
<1>2. CASE CollectUsage(x)
  <2>1. Scan(source, actor[x].fp) \in SUBSET Events
    BY <1>0, ScanTyped DEF TypeOK, Carried
  <2>2. actor' \in [Actors -> Carried]
    BY <1>0, <1>2, <2>1 DEF CollectUsage, Carried, Places, Codes
  <2> QED BY <1>2, <2>2 DEF CollectUsage, World, Database, TypeOK, Carried
<1>3. CASE CollectQuota(x)
  <2>1. clock' \in 0..MaxClock
    BY <1>3 DEF CollectQuota, TypeOK
  <2>2. clock < MaxClock => [at |-> clock + 1, status |-> "fresh", of |-> login] \in Reports
    BY DEF TypeOK, Reports
  <2>3. actor' \in [Actors -> Carried]
    BY <1>0, <1>3, <2>2 DEF CollectQuota, Go, Carried, Places
  <2> QED BY <1>3, <2>1, <2>3 DEF CollectQuota, Database, TypeOK, Carried
<1>4. CASE StateLost(x)
  <2>1. actor' \in [Actors -> Carried]
    BY <1>0, <1>4 DEF StateLost, Go, Carried, Places, Codes
  <2> QED BY <1>4, <2>1 DEF StateLost, World, Database, TypeOK, Carried
<1>5. CASE Ingest(x)
  <2>1. actor' \in [Actors -> Carried]
    BY <1>0, <1>5 DEF Ingest, Go, Carried, Places, Codes
  <2>2. usage' \subseteq Events
    BY <1>0, <1>5 DEF Ingest, Ingested, OfBucket, TypeOK, Carried
  <2> QED BY <1>5, <2>1, <2>2 DEF Ingest, World, TypeOK, Carried
<1>6. CASE RecordRun(x)
  <2>1. actor' \in [Actors -> Carried]
    BY <1>0, <1>6 DEF RecordRun, Carried, Places, Codes
  <2> QED BY <1>6, <2>1 DEF RecordRun, World, Database, TypeOK, Carried
<1>7. CASE Check(x)
  <2>1. reports[actor[x].fp] \in Reports
    BY <1>0 DEF TypeOK, Carried
  <2>2. actor' \in [Actors -> Carried]
    BY <1>0, <1>7, <2>1, OverTyped DEF Check, Rest, Carried, Places
  <2> QED BY <1>7, <2>2 DEF Check, World, Database, TypeOK, Carried
<1>8. CASE Write(x)
  <2>1. actor' \in [Actors -> Carried]
    BY <1>0, <1>8, OverTyped, RestingTyped DEF Write, Rest
  <2>2. actor[x].report \in Reports /\ actor[x].fp \in Buckets
    BY <1>0 DEF Carried
  <2>3. reports' \in [Buckets -> Reports]
    BY <1>8, <2>2 DEF Write, Stored, TypeOK
  <2>4. [bucket |-> actor[x].fp, at |-> actor[x].report.at, of |-> actor[x].report.of] \in Windows
    BY <2>2 DEF Reports, Windows
  <2>5. windows' \subseteq Windows
    BY <1>8, <2>4 DEF Write, StoredWindows, TypeOK
  <2> QED BY <1>8, <2>1, <2>3, <2>5 DEF Write, World, TypeOK, Carried
<1> QED BY <1>1, <1>2, <1>3, <1>4, <1>5, <1>6, <1>7, <1>8 DEF Step

LEMMA TypeStep == TypeOK /\ [Next]_vars => TypeOK'
<1> SUFFICES ASSUME TypeOK, [Next]_vars PROVE TypeOK'
    OBVIOUS
<1> USE BoundsAssumption
<1>0. actor \in [Actors -> Carried]
  BY DEF TypeOK, Carried
<1>1. ASSUME NEW rec \in Records, Grow(rec) PROVE TypeOK'
  <2>1. source[rec] + 1 \in 0..MaxSize
    BY <1>1 DEF Grow, TypeOK, Contents
  <2>2. source' \in Contents
    BY <1>1, <2>1 DEF Grow, TypeOK, Contents
  <2> QED BY <1>1, <2>2 DEF Grow, Database, TypeOK
<1>2. ASSUME NEW a \in Buckets, SwitchAccount(a) PROVE TypeOK'
  BY <1>2 DEF SwitchAccount, Database, TypeOK
<1>3. ASSUME NEW a \in Buckets, ChangeConfig(a) PROVE TypeOK'
  <2>1. actor' \in [Actors -> Carried]
    BY <1>0, <1>3 DEF ChangeConfig, Go, Carried, Places
  <2> QED BY <1>3, <2>1 DEF ChangeConfig, Database, TypeOK, Carried
<1>4. CASE ClearReport
  <2>1. clock' \in 0..MaxClock
    BY <1>4 DEF ClearReport, TypeOK
  <2>2. [at |-> clock + 1, status |-> "failed", of |-> Nobody] \in Reports
    BY <1>4 DEF ClearReport, TypeOK, Reports, Buckets
  <2>3. actor' \in [Actors -> Carried]
    BY <1>0, <1>4, <2>2 DEF ClearReport, Carried, Places
  <2> QED BY <1>4, <2>1, <2>3 DEF ClearReport, Database, TypeOK, Carried
<1>5. CASE Answer
  <2>1. actor' \in [Actors -> Carried]
    BY <1>0, <1>5 DEF Answer, Go, Carried, Places
  <2> QED BY <1>5, <2>1 DEF Answer, World, Database, TypeOK, Carried
<1>6. ASSUME NEW x \in Actors, Step(x) PROVE TypeOK'
  BY <1>6, StepTyped
<1>7. CASE Crash
  BY <1>7, RestingTyped DEF Crash, Database, TypeOK, Carried
<1>8. CASE UNCHANGED vars
  BY <1>8 DEF vars, TypeOK
<1> QED BY <1>1, <1>2, <1>3, <1>4, <1>5, <1>6, <1>7, <1>8 DEF Next

-----------------------------------------------------------------------------
\* Batches are made by CollectUsage, booked on the account Identify read, and
\* scans stay scans of a past content.
LEMMA BatchesStep == Inv /\ [Next]_vars => Batches'
<1> SUFFICES ASSUME Inv, [Next]_vars PROVE Batches'
    OBVIOUS
<1>0. /\ actor \in [Actors -> Carried]
      /\ past \subseteq past'
      /\ source \in past
      /\ \A y \in Actors : actor[y].batch = {} \/ \E s \in past' : actor[y].batch = Scan(s, actor[y].fp)
  <2>1. past \subseteq past'
    BY DEF Next, Step, Grow, SwitchAccount, ChangeConfig, ClearReport, Answer, Go, Identify, CollectUsage, CollectQuota,
           StateLost, Ingest, RecordRun, Check, Write, Crash, World, vars
  <2> QED BY <2>1 DEF Inv, TypeOK, Carried, Batches
<1>1. SUFFICES ASSUME NEW y \in Actors
               PROVE  \/ actor'[y].batch = {}
                      \/ \E s \in past' : actor'[y].batch = Scan(s, actor'[y].fp)
  BY DEF Batches
<1>2. CASE actor'[y] = Resting
  BY <1>2 DEF Resting
<1>3. CASE actor'[y].batch = actor[y].batch /\ actor'[y].fp = actor[y].fp
  BY <1>0, <1>3
<1>4. CASE actor'[y].batch = {}
  BY <1>4
<1>5. ASSUME actor'[y].batch = Scan(source, actor[y].fp), actor'[y].fp = actor[y].fp
      PROVE  \E s \in past' : actor'[y].batch = Scan(s, actor'[y].fp)
  BY <1>0, <1>5
<1>6. ASSUME NEW x \in Actors, Step(x)
      PROVE  \/ actor'[y] = Resting
             \/ actor'[y].batch = actor[y].batch /\ actor'[y].fp = actor[y].fp
             \/ actor'[y].batch = {}
             \/ actor'[y].batch = Scan(source, actor[y].fp) /\ actor'[y].fp = actor[y].fp
  <2>1. CASE y # x
    BY <1>0, <1>6, <2>1 DEF Step, Identify, CollectUsage, CollectQuota, StateLost, Ingest,
       RecordRun, Check, Write, Rest, Go
  <2>2. CASE y = x
    <3>1. CASE Identify(x)
      BY <1>0, <2>2, <3>1 DEF Identify, Resting
    <3>2. CASE CollectUsage(x)
      BY <1>0, <2>2, <3>2 DEF CollectUsage, Carried
    <3>3. CASE CollectQuota(x)
      BY <1>0, <2>2, <3>3 DEF CollectQuota, Go, Carried
    <3>4. CASE StateLost(x) \/ Ingest(x) \/ RecordRun(x)
      BY <1>0, <2>2, <3>4 DEF StateLost, Ingest, RecordRun, Go, Carried
    <3>5. CASE Check(x) \/ Write(x)
      BY <1>0, <2>2, <3>5, OverTyped DEF Check, Write, Rest, Carried
    <3> QED BY <1>6, <3>1, <3>2, <3>3, <3>4, <3>5 DEF Step
  <2> QED BY <2>1, <2>2
<1>7. CASE UNCHANGED actor
  BY <1>3, <1>7
<1>8. ASSUME ClearReport \/ Answer \/ \E a \in Buckets : ChangeConfig(a)
      PROVE  actor'[y].batch = actor[y].batch /\ actor'[y].fp = actor[y].fp
  BY <1>0, <1>8 DEF ChangeConfig, ClearReport, Answer, Go, Carried
<1>9. CASE Crash
  BY <1>2, <1>9 DEF Crash
<1> QED BY <1>2, <1>3, <1>4, <1>5, <1>6, <1>7, <1>8, <1>9
       DEF Next, Grow, SwitchAccount, vars

\* Only Check leads to the transaction, and it keeps what it has read.
LEMMA DecidedStep == Inv /\ [Next]_vars => Decided'
<1> SUFFICES ASSUME Inv, [Next]_vars PROVE Decided'
    OBVIOUS
<1>0. actor \in [Actors -> Carried]
  BY DEF Inv, TypeOK, Carried
<1>1. SUFFICES ASSUME NEW y \in Actors, actor'[y].pc = "write"
               PROVE  ~Refuses(actor'[y].report, actor'[y].seen)
  BY DEF Decided, At
<1>2. CASE actor'[y] = actor[y]
  BY <1>1, <1>2 DEF Inv, Decided, At
<1>3. Resting.pc # "write"
  BY DEF Resting
<1>4. ASSUME NEW x \in Actors, Step(x) PROVE ~Refuses(actor'[y].report, actor'[y].seen)
  <2>1. CASE y # x
    <3>1. actor'[y] = actor[y]
      BY <1>0, <1>4, <2>1 DEF Step, Identify, CollectUsage, CollectQuota, StateLost, Ingest,
         RecordRun, Check, Write, Rest, Go
    <3> QED BY <1>2, <3>1
  <2>2. CASE y = x /\ Check(x)
    <3>1. actor'[x] # Over(x)
      BY <1>1, <2>2, OverTyped
    <3>2. /\ ~Refuses(actor[x].report, reports[actor[x].fp])
          /\ actor' = [actor EXCEPT ![x].pc = "write", ![x].seen = reports[actor[x].fp]]
      BY <1>0, <2>2, <3>1 DEF Check, Rest
    <3>3. actor'[x].report = actor[x].report /\ actor'[x].seen = reports[actor[x].fp]
      BY <1>0, <3>2 DEF Carried
    <3> QED BY <2>2, <3>2, <3>3
  <2>3. CASE y = x /\ ~Check(x)
    <3>1. CASE Identify(x) \/ CollectUsage(x)
      BY <1>0, <1>1, <2>3, <3>1 DEF Identify, CollectUsage, Resting, Carried
    <3>2. CASE CollectQuota(x)
      BY <1>0, <1>1, <2>3, <3>2 DEF CollectQuota, Go, Carried
    <3>3. CASE StateLost(x) \/ Ingest(x) \/ RecordRun(x)
      BY <1>0, <1>1, <2>3, <3>3 DEF StateLost, Ingest, RecordRun, Go, Carried
    <3>4. CASE Write(x)
      BY <1>0, <1>1, <1>3, <2>3, <3>4, OverTyped DEF Write, Rest
    <3> QED BY <1>4, <2>3, <3>1, <3>2, <3>3, <3>4 DEF Step
  <2> QED BY <2>1, <2>2, <2>3
<1>5. ASSUME ClearReport \/ Answer \/ \E a \in Buckets : ChangeConfig(a)
      PROVE  actor'[y] = actor[y]
  BY <1>0, <1>1, <1>5 DEF ChangeConfig, ClearReport, Answer, Go, Carried
<1>6. CASE Crash
  BY <1>1, <1>3, <1>6 DEF Crash
<1> QED BY <1>2, <1>4, <1>5, <1>6 DEF Next, Grow, SwitchAccount, vars

\* The usage of an account is replaced as a whole, in one transaction.
LEMMA ScansStep == Inv /\ [Next]_vars => WholeScans'
<1> SUFFICES ASSUME Inv, [Next]_vars, fullScan' PROVE WholeScans'
    BY DEF WholeScans
<1>1. fullScan /\ past \subseteq past'
  BY DEF Next, Step, Grow, SwitchAccount, ChangeConfig, ClearReport, Answer, Go, Identify, CollectUsage, CollectQuota,
         StateLost, Ingest, RecordRun, Check, Write, Crash, World, vars
<1>2. CASE usage' = usage
  BY <1>1, <1>2 DEF Inv, WholeScans, OfBucket
<1>3. ASSUME NEW x \in Actors, usage' = Ingested(actor[x].batch, actor[x].fp),
             actor[x].batch # {}
      PROVE  WholeScans'
  <2>1. PICK b \in Buckets, batch \in SUBSET Events : b = actor[x].fp /\ batch = actor[x].batch
    BY DEF Inv, TypeOK
  <2>2. PICK s \in past : batch = Scan(s, b)
    BY <1>3, <2>1 DEF Inv, Batches
  <2>3. \A e \in batch : e.bucket = b
    BY <2>1, <2>2, ScanTyped DEF Inv, TypeOK
  <2>4. usage' = {e \in usage : e.bucket # b} \cup batch
    BY <1>1, <1>3, <2>1 DEF Ingested, OfBucket
  <2>5. {e \in usage' : e.bucket = b} = batch
    BY <2>3, <2>4
  <2>6. \A c \in Buckets : c # b => {e \in usage' : e.bucket = c} = OfBucket(c)
    BY <2>3, <2>4 DEF OfBucket
  <2>7. ASSUME NEW c \in Buckets
        PROVE  \/ {e \in usage' : e.bucket = c} = {}
               \/ \E t \in past' : {e \in usage' : e.bucket = c} = Scan(t, c)
    <3>1. CASE c = b
      BY <1>1, <2>2, <2>5, <3>1
    <3>2. CASE c # b
      BY <1>1, <2>6, <3>2 DEF Inv, WholeScans
    <3> QED BY <3>1, <3>2
  <2> QED BY <2>7 DEF WholeScans, OfBucket, Scan
<1>4. \/ usage' = usage
      \/ \E x \in Actors : usage' = Ingested(actor[x].batch, actor[x].fp)
  BY DEF Next, Step, Grow, SwitchAccount, ChangeConfig, ClearReport, Answer, Go, Identify, CollectUsage, CollectQuota,
         StateLost, Ingest, RecordRun, Check, Write, Crash, Database, vars
<1>5. ASSUME NEW x \in Actors, usage' = Ingested(actor[x].batch, actor[x].fp),
             actor[x].batch = {}
      PROVE  usage' = usage
  BY <1>1, <1>5 DEF Ingested
<1> QED BY <1>2, <1>3, <1>4, <1>5

\* What a step does to the quota tables.
LEMMA QuotaTables ==
  ASSUME [Next]_vars
  PROVE  \/ UNCHANGED <<reports, windows>>
         \/ \E x \in Actors :
              /\ At(x, "write")
              /\ reports' = Stored(actor[x].report, actor[x].fp)
              /\ windows' = StoredWindows(actor[x].report, actor[x].fp)
BY DEF Next, Step, Grow, SwitchAccount, ChangeConfig, ClearReport, Answer, Go, Identify, CollectUsage, CollectQuota,
       StateLost, Ingest, RecordRun, Check, Write, Crash, Database, vars

LEMMA WindowsStep == Inv /\ [Next]_vars => ReportsHaveTheirWindows'
<1> SUFFICES ASSUME Inv, [Next]_vars PROVE ReportsHaveTheirWindows'
    OBVIOUS
<1>1. CASE UNCHANGED <<reports, windows>>
  BY <1>1 DEF Inv, ReportsHaveTheirWindows
<1>2. ASSUME NEW x \in Actors,
             reports' = Stored(actor[x].report, actor[x].fp),
             windows' = StoredWindows(actor[x].report, actor[x].fp)
      PROVE  ReportsHaveTheirWindows'
  <2> DEFINE b == actor[x].fp
             report == actor[x].report
  <2>1. b \in Buckets /\ reports \in [Buckets -> Reports]
    BY DEF Inv, TypeOK
  <2>2. reports'[b] = report /\ \A c \in Buckets : c # b => reports'[c] = reports[c]
    BY <1>2, <2>1 DEF Stored
  <2>3. ASSUME Usable(report)
        PROVE {w \in windows' : w.bucket = b /\ w.at = report.at} =
                {[bucket |-> b, at |-> report.at, of |-> report.of]}
    BY <1>2, <2>3 DEF StoredWindows
  <2>4. ASSUME NEW c \in Buckets, c # b
        PROVE {w \in windows' : w.bucket = c /\ w.at = reports[c].at} =
                {w \in windows : w.bucket = c /\ w.at = reports[c].at}
    BY <1>2, <2>4 DEF StoredWindows
  <2>5. ASSUME NEW c \in Buckets, Usable(reports'[c])
        PROVE {w \in windows' : w.bucket = c /\ w.at = reports'[c].at} =
                {[bucket |-> c, at |-> reports'[c].at, of |-> reports'[c].of]}
    <3>1. CASE c = b
      BY <2>2, <2>3, <2>5, <3>1
    <3>2. CASE c # b
      BY <2>2, <2>4, <2>5, <3>2 DEF Inv, ReportsHaveTheirWindows
    <3> QED BY <3>1, <3>2
  <2> QED BY <2>5 DEF ReportsHaveTheirWindows, Usable
<1> QED BY <1>1, <1>2, QuotaTables

LEMMA InvInit == Init => Inv
<1> SUFFICES ASSUME Init PROVE Inv
    OBVIOUS
<1>1. \A x \in Actors : actor[x] = Resting
  BY DEF Init
<1>2. Batches /\ Decided
  BY <1>1 DEF Batches, Decided, At, Resting
<1>3. WholeScans
  BY DEF Init, WholeScans, OfBucket
<1>4. ReportsHaveTheirWindows
  BY DEF Init, ReportsHaveTheirWindows, Usable, NoReport
<1> QED BY TypeInit, <1>2, <1>3, <1>4 DEF Inv

LEMMA Invariance == Spec => []Inv
<1>1. Inv /\ [Next]_vars => Inv'
  BY TypeStep, BatchesStep, DecidedStep, ScansStep, WindowsStep DEF Inv
<1> QED BY InvInit, <1>1, PTL DEF Spec

-----------------------------------------------------------------------------
\* The tables and what the actors carry are always well formed.
THEOREM TypeCorrect == Spec => []TypeOK
<1>1. Inv => TypeOK
  BY DEF Inv
<1> QED BY Invariance, <1>1, PTL

\* For any number of concurrent refreshers, crashes and account changes, the
\* usage of an account of a cumulative source is one whole scan of it.
THEOREM ScansAreWhole == Spec => []WholeScans
<1>1. Inv => WholeScans
  BY DEF Inv
<1> QED BY Invariance, <1>1, PTL

\* A usable report is never without the windows it was collected with.
THEOREM WindowsComeWithReports == Spec => []ReportsHaveTheirWindows
<1>1. Inv => ReportsHaveTheirWindows
  BY DEF Inv
<1> QED BY Invariance, <1>1, PTL

\* An older report replaces a newer one, or a failed one a usable one, only if
\* another connection committed between the check and the transaction.
THEOREM OnlyTheGapClobbers == Spec => ClobbersOnlyInTheGap
<1> DEFINE A == \A b \in Buckets :
       Refuses(reports'[b], reports[b]) =>
         \E x \in Actors : At(x, "write") /\ actor[x].fp = b /\ actor[x].seen # reports[b]
<1>1. Inv /\ [Next]_vars => [A]_reports
  <2> SUFFICES ASSUME Inv, [Next]_vars, NEW b \in Buckets, Refuses(reports'[b], reports[b])
               PROVE  \E x \in Actors : At(x, "write") /\ actor[x].fp = b /\ actor[x].seen # reports[b]
      OBVIOUS
  <2>1. reports \in [Buckets -> Reports]
    BY DEF Inv, TypeOK
  <2>2. ~Refuses(reports[b], reports[b])
    <3>1. reports[b].at \in Nat
      BY <2>1 DEF Reports
    <3> QED BY <3>1 DEF Refuses, IsError, Usable
  <2>3. PICK x \in Actors : At(x, "write") /\ reports' = Stored(actor[x].report, actor[x].fp)
    BY <2>2, QuotaTables
  <2>4. actor[x].fp = b
    BY <2>1, <2>2, <2>3 DEF Stored
  <2>5. reports'[b] = actor[x].report
    BY <2>1, <2>3, <2>4 DEF Stored
  <2>6. ~Refuses(actor[x].report, actor[x].seen)
    BY <2>3 DEF Inv, Decided
  <2> QED BY <2>3, <2>4, <2>5, <2>6
<1> QED BY Invariance, <1>1, PTL DEF Spec, ClobbersOnlyInTheGap

-----------------------------------------------------------------------------
\* No ingestion takes an account of a cumulative source back to nothing, nor an
\* event from any other.
LEMMA NothingIsLost ==
  Inv /\ [Next]_vars =>
    /\ fullScan' = fullScan
    /\ fullScan => \A b \in Buckets : OfBucket(b) # {} => OfBucket(b)' # {}
    /\ ~fullScan => usage \subseteq usage'
<1> SUFFICES ASSUME Inv, [Next]_vars
             PROVE  /\ fullScan' = fullScan
                    /\ fullScan => \A b \in Buckets : OfBucket(b) # {} => OfBucket(b)' # {}
                    /\ ~fullScan => usage \subseteq usage'
    OBVIOUS
<1>1. fullScan' = fullScan
  BY DEF Next, Step, Grow, SwitchAccount, ChangeConfig, ClearReport, Answer, Go, Identify, CollectUsage, CollectQuota,
         StateLost, Ingest, RecordRun, Check, Write, Crash, World, vars
<1>2. \/ usage' = usage
      \/ \E x \in Actors : usage' = Ingested(actor[x].batch, actor[x].fp)
  BY DEF Next, Step, Grow, SwitchAccount, ChangeConfig, ClearReport, Answer, Go, Identify, CollectUsage, CollectQuota,
         StateLost, Ingest, RecordRun, Check, Write, Crash, Database, vars
<1>3. CASE usage' = usage
  BY <1>1, <1>3 DEF OfBucket
<1>4. ASSUME NEW x \in Actors, usage' = Ingested(actor[x].batch, actor[x].fp)
      PROVE  /\ fullScan => \A b \in Buckets : OfBucket(b) # {} => OfBucket(b)' # {}
             /\ ~fullScan => usage \subseteq usage'
  <2>1. CASE actor[x].batch = {} \/ ~fullScan
    BY <1>4, <2>1 DEF Ingested, OfBucket
  <2>2. CASE actor[x].batch # {} /\ fullScan
    <3>1. usage' = (usage \ OfBucket(actor[x].fp)) \cup actor[x].batch
      BY <1>4, <2>2 DEF Ingested
    <3>2. \A e \in actor[x].batch : e.bucket = actor[x].fp
      BY ScanTyped DEF Inv, Batches, TypeOK
    <3>3. \A b \in Buckets : OfBucket(b) # {} => OfBucket(b)' # {}
      BY <2>2, <3>1, <3>2 DEF OfBucket
    <3> QED BY <2>2, <3>3
  <2> QED BY <2>1, <2>2
<1> QED BY <1>1, <1>2, <1>3, <1>4

\* Who is about to record a run has just been there, or has ingested its batch.
LEMMA RunsFollowIngestion ==
  ASSUME Inv, [Next]_vars, NEW x \in Actors,
         At(x, "run")', actor'[x].code = "ok", actor'[x].batch # {}
  PROVE  \/ actor'[x] = actor[x]
         \/ /\ actor'[x].batch = actor[x].batch /\ actor'[x].fp = actor[x].fp
            /\ usage' = Ingested(actor[x].batch, actor[x].fp)
<1>0. actor \in [Actors -> Carried]
  BY DEF Inv, TypeOK, Carried
<1>1. Resting.pc # "run" /\ Over(x).pc # "run"
  BY DEF Over, Resting
<1>2. ASSUME NEW y \in Actors, Step(y), y # x PROVE actor'[x] = actor[x]
  BY <1>0, <1>2 DEF Step, Identify, CollectUsage, CollectQuota, StateLost, Ingest,
     RecordRun, Check, Write, Rest, Go
<1>3. CASE Ingest(x)
  BY <1>0, <1>3 DEF Ingest, Go, Carried
<1>4. CASE Identify(x) \/ CollectUsage(x) \/ CollectQuota(x) \/ StateLost(x) \/ RecordRun(x)
  BY <1>0, <1>4 DEF Identify, CollectUsage, CollectQuota, StateLost, RecordRun, Go, At, Resting, Carried
<1>5. CASE Check(x) \/ Write(x)
  BY <1>0, <1>1, <1>5 DEF Check, Write, Rest, At, Carried
<1>6. CASE ClearReport \/ Answer \/ \E a \in Buckets : ChangeConfig(a)
  BY <1>0, <1>6 DEF ChangeConfig, ClearReport, Answer, Go, At, Carried
<1>7. CASE Crash
  BY <1>1, <1>7 DEF Crash, At
<1> QED BY <1>2, <1>3, <1>4, <1>5, <1>6, <1>7 DEF Next, Step, Grow, SwitchAccount, vars

LEMMA TruthStep == Inv /\ RunTellsTruth /\ [Next]_vars => RunTellsTruth'
<1> SUFFICES ASSUME Inv, RunTellsTruth, [Next]_vars,
                    NEW x \in Refreshers, At(x, "run")', actor'[x].code = "ok", actor'[x].batch # {}
             PROVE  IF fullScan' THEN OfBucket(actor[x].fp)' # {} ELSE actor'[x].batch \subseteq usage'
    BY DEF RunTellsTruth
<1>0. x \in Actors /\ actor[x].fp \in Buckets /\ fullScan' = fullScan
  BY NothingIsLost DEF Actors, Inv, TypeOK
<1>1. CASE actor'[x] = actor[x]
  <2>1. IF fullScan THEN OfBucket(actor[x].fp) # {} ELSE actor[x].batch \subseteq usage
    BY <1>1 DEF RunTellsTruth, At
  <2>2. ASSUME fullScan PROVE {e \in usage' : e.bucket = actor'[x].fp} # {}
    <3>1. PICK b \in Buckets : b = actor[x].fp
      BY <1>0
    <3>2. OfBucket(b) # {}
      BY <2>1, <2>2, <3>1
    <3>3. OfBucket(b)' # {}
      BY <2>2, <3>2, NothingIsLost
    <3> QED BY <1>1, <3>1, <3>3 DEF OfBucket
  <2>3. ~fullScan => actor'[x].batch \subseteq usage'
    BY <1>1, <2>1, NothingIsLost
  <2> QED BY <1>0, <2>2, <2>3 DEF OfBucket
<1>2. CASE /\ actor'[x].batch = actor[x].batch /\ actor'[x].fp = actor[x].fp
           /\ usage' = Ingested(actor[x].batch, actor[x].fp)
  <2>1. actor[x].batch \subseteq usage'
    BY <1>2 DEF Ingested
  <2>2. \A e \in actor[x].batch : e.bucket = actor[x].fp
    BY <1>0, ScanTyped DEF Inv, Batches, TypeOK
  <2> QED BY <1>0, <1>2, <2>1, <2>2 DEF OfBucket
<1> QED BY <1>0, <1>1, <1>2, RunsFollowIngestion

\* Whoever else refreshes, logs in elsewhere or crashes in between: a run that is
\* recorded as a success has its events, or others that replaced them, in the table.
THEOREM RunsTellTheTruth == Spec => []RunTellsTruth
<1>1. Init => RunTellsTruth
  <2>1. Refreshers \subseteq Actors /\ Resting.pc # "run"
    BY DEF Actors, Resting
  <2> QED BY <2>1 DEF Init, RunTellsTruth, At
<1> QED BY Invariance, TruthStep, <1>1, PTL DEF Spec
=============================================================================
