----------------------------- MODULE LocalScan -----------------------------
(***************************************************************************)
(* The adapters that read what a coding tool keeps on this machine          *)
(* (provider-runtime/src/token_scan.rs, ui_messages.rs, opencode_fork.rs    *)
(* and the adapters over them).  The tool writes while the adapter reads;   *)
(* every refresh reads the source again and the database keeps an event     *)
(* once per id, which is made of the numbers that were read.                *)
(*                                                                          *)
(* A source is a few files of records, or a table (the file 1).  A record   *)
(* is its time, its model, its tokens (input and output together), who      *)
(* served it and whether it can be parsed; a file is as big as it has       *)
(* records.                                                                 *)
(***************************************************************************)
EXTENDS Naturals, Sequences, FiniteSets, FiniteSetsExt, Functions

CONSTANTS
  LocalAdapters,   \* the adapters to read with
  SourceFiles,     \* bound: how many files the tool keeps, 1..SourceFiles
  MaxRecords,      \* bound: records of a source
  MaxTokens,       \* bound: tokens of a record
  MaxTime,         \* bound: clock of the tool
  MaxFiles,        \* ScanBounds.max_files
  MaxFileBytes,    \* ScanBounds.max_file_bytes
  MaxTotalBytes    \* ScanBounds.max_total_bytes

Paths  == 1..SourceFiles
Models == {"m1", "m2"}

\* Who served a record: the tool itself, or an agent it bundles or mirrors,
\* whose turns a dedicated adapter counts.
Servers == {"own", "agent"}

(***************************************************************************)
(* The adapters: how each reads its source, whose turns it takes, which     *)
(* model it labels them with, whether it answers SOURCE_UNAVAILABLE rather  *)
(* than an empty batch, and what makes it detected.                         *)
(***************************************************************************)
Tree(of)  == [reads |-> "tree", turns |-> "all", label |-> "record", emptyFails |-> FALSE,
              detects |-> of]
Table(of) == [reads |-> of, turns |-> "all", label |-> "record", emptyFails |-> TRUE,
              detects |-> "samples"]

PiAgent   == Tree("samples")
Omp       == Tree("samples")
CodeBuddy == Tree("samples")
WorkBuddy == Tree("samples")
Copilot   == Tree("samples")
Claude    == Tree("recent")
KiloCode  == [Tree("samples") EXCEPT !.reads = "tasks", !.emptyFails = TRUE]
Roo       == [KiloCode EXCEPT !.label = "task"]
Kimi      == [Tree("samples") EXCEPT !.reads = "wire", !.emptyFails = TRUE]
KiloCli   == Table("messages")
Mimo      == [Table("messages") EXCEPT !.turns = "own"]
ZCode     == [Table("messages") EXCEPT !.turns = "own"]
\* Two sources of other tools: the logs of Claude (the file 1) and the message
\* table of OpenCode (the file 2); its "own" turns are those of GLM models.
Zai       == [Tree("samples") EXCEPT !.reads = "glm", !.turns = "own", !.emptyFails = TRUE]
Hermes    == Table("sessions")
OpenCode  == [Table("sessions") EXCEPT !.emptyFails = FALSE, !.detects = "table"]

Facts == [pi_agent |-> PiAgent, omp |-> Omp, codebuddy |-> CodeBuddy, workbuddy |-> WorkBuddy,
          github_copilot |-> Copilot, anthropic_claude |-> Claude, kilo_code |-> KiloCode,
          roo_code |-> Roo, kimi_code |-> Kimi, kilo_cli |-> KiloCli, mimo_code |-> Mimo,
          zcode_ai |-> ZCode, zai_glm |-> Zai, hermes |-> Hermes, opencode |-> OpenCode]

ASSUME AdaptersAssumption == LocalAdapters \subseteq DOMAIN Facts
ASSUME ScanBoundsAssumption ==
  {SourceFiles, MaxRecords, MaxTokens, MaxTime, MaxFiles, MaxFileBytes, MaxTotalBytes}
    \subseteq Nat \ {0}

VARIABLES
  adapter,    \* the adapter of this behaviour
  root,       \* the source: "absent", "present" or, a table, "locked"
  files,      \* files[p]: the records of file p, in the order of writing
  taskModel,  \* taskModel[p]: the last <model> tag of a Roo task
  time,       \* clock of the tool
  restated,   \* a record that had been counted was changed in place (history)
  counted,    \* the adapter's rows of usage_events
  upToDate    \* nothing was written since the last refresh, which read all (history)

scanVars == <<adapter, root, files, taskModel, time, restated, counted, upToDate>>

Record == [at : 0..MaxTime, model : Models, n : 0..MaxTokens, by : Servers, ok : BOOLEAN]
Event  == [at : 0..MaxTime, model : Models, n : 1..MaxTokens, by : Servers]

fact     == Facts[adapter]
isTable  == fact.reads \in {"messages", "sessions"}
replaces == adapter = "opencode"    \* full_scan of refresh_one

ScanTypeOK ==
  /\ adapter \in LocalAdapters
  /\ root \in {"absent", "present", "locked"}
  /\ DOMAIN files = Paths
  /\ \A p \in Paths : \A i \in DOMAIN files[p] : files[p][i] \in Record
  /\ taskModel \in [Paths -> Models]
  /\ time \in 0..MaxTime
  /\ restated \in BOOLEAN /\ upToDate \in BOOLEAN
  /\ counted \subseteq Event

ScanInit ==
  /\ adapter \in LocalAdapters
  /\ root = "absent"
  /\ files = [p \in Paths |-> <<>>]
  /\ taskModel = [p \in Paths |-> "m1"]
  /\ time = 0
  /\ restated = FALSE
  /\ counted = {}
  /\ upToDate = FALSE

Places(ps) == {x \in ps \X (1..MaxRecords) : x[2] \in DOMAIN files[x[1]]}
At(x)      == files[x[1]][x[2]]
Bytes(ps)  == Cardinality(Places(ps))

-----------------------------------------------------------------------------
(* What an adapter reads *)

\* usage_events: the id of an event is made of its time, model and tokens, so
\* two records that agree in all of them are one event.
Sample(r, model) == [at |-> r.at, model |-> model, n |-> r.n, by |-> r.by]
Readable(x) == At(x).ok /\ At(x).n > 0

\* Seeded fault, used only to test the properties: a corrupt record ends the
\* reading of its file.
WalkStopping(ps) ==
  {Sample(At(x), At(x).model) :
     x \in {y \in Places(ps) : \A i \in 1..y[2] : Readable(<<y[1], i>>)}}

\* walk: every record of the text with tokens and a time; lines that cannot be
\* parsed are passed over.
Walk(ps) == {Sample(At(x), At(x).model) : x \in {y \in Places(ps) : Readable(y)}}

\* collect_files: the first max_files the file system happens to list.
CollectFiles == LET written == {p \in Paths : files[p] # <<>>} IN
  IF Cardinality(written) <= MaxFiles THEN {written} ELSE kSubset(MaxFiles, written)

Fits(p) == Len(files[p]) <= MaxFileBytes

\* scan_directory: in the order of the paths; a file that is too big is passed
\* over, the first one over the total ends the scan.
ScanDirectory(ps) ==
  {p \in ps : Fits(p) /\ \A q \in ps : q <= p /\ Fits(q) =>
                           Bytes({o \in ps : o <= q /\ Fits(o)}) <= MaxTotalBytes}

\* samples of Kimi: a file that does not fit in with those taken before it is
\* passed over, a later one may still fit.  One set of files is taken like this.
KimiFiles(ps) ==
  UNION {taken \in SUBSET ps :
           \A p \in ps : p \in taken <=>
             Fits(p) /\ Bytes({q \in taken : q < p}) + Len(files[p]) <= MaxTotalBytes}

\* Seeded faults: every source is labelled with the last model of its task; a
\* request is counted before it has tokens.
UiSamplesByTask(ps) ==
  {Sample(At(x), taskModel[x[1]]) : x \in {y \in Places({p \in ps : Fits(p)}) : Readable(y)}}
UiSamplesRequested(ps) ==
  {Sample(At(x), At(x).model) : x \in {y \in Places({p \in ps : Fits(p)}) : At(y).ok}}

\* samples_from_content: a removed request keeps its record, one that has just
\* started has no tokens, and one whose payload cannot be parsed is passed over.  (A
\* task that is no JSON as a whole is one of the "unread" files of Refresh.)  Roo
\* labels a whole task with its last model.
UiSamples(ps) ==
  {Sample(At(x), IF fact.label = "task" THEN taskModel[x[1]] ELSE At(x).model) :
     x \in {y \in Places({p \in ps : Fits(p)}) : Readable(y)}}

\* read_messages: the oldest assistant rows by time_updated, up to the limit; rows
\* without tokens use it up too.  Mimo counts the turns its own runtime
\* tagged, ZCode all but the bundled agents', Kilo CLI every turn.
Earlier(rows, i, j) == rows[i].at < rows[j].at \/ (rows[i].at = rows[j].at /\ i < j)
ReadMessages(p) ==
  LET valid == {i \in DOMAIN files[p] : files[p][i].ok}
  IN {<<p, i>> : i \in {k \in valid : Cardinality({j \in valid : Earlier(files[p], j, k)}) < MaxFiles}}
MessageSamplesOfAll(p) ==    \* seeded fault: mirrored turns are counted too
  {Sample(At(x), At(x).model) : x \in {y \in ReadMessages(p) : Readable(y)}}
MessageSamples(p) ==
  {Sample(At(x), At(x).model) :
     x \in {y \in ReadMessages(p) : Readable(y) /\ (fact.turns = "own" => At(y).by = "own")}}

\* samples of Z.AI: what the scan of one source and the table of the other say
\* of GLM models; a source that cannot be read adds nothing.
GlmSamples(ps) ==
  {Sample(At(x), At(x).model) :
     x \in {y \in Places(ScanDirectory(ps \cap {1})) : Readable(y) /\ At(y).by = "own"}}
    \cup UNION {MessageSamples(p) : p \in ps \cap {2}}

\* The session rows of Hermes and of OpenCode: totals so far, at the time of the
\* last turn.
SessionRows(p) == Walk({p})

\* The samples of the adapter when the files ps can be read.
Samples(ps) ==
  CASE fact.reads = "tree"     -> Walk(ScanDirectory(ps))
    [] fact.reads = "tasks"    -> UiSamples(ps)
    [] fact.reads = "wire"     -> Walk(KimiFiles(ps))
    [] fact.reads = "messages" -> MessageSamples(1)
    [] fact.reads = "glm"      -> GlmSamples(ps)
    [] fact.reads = "sessions" -> SessionRows(1)

\* collect_usage: without a source, or for most adapters without a record, the
\* answer is SOURCE_UNAVAILABLE.
Unavailable(samples) == root # "present" \/ (fact.emptyFails /\ samples = {})

\* ingest_batch_with_counts, or for a full scan replace_provider_batch.
IngestInstead(samples) == samples    \* seeded fault: every scan replaces
Ingest(samples) ==
  IF replaces /\ samples # {} THEN samples ELSE counted \cup samples

\* detection: most adapters collect the samples they would count; Claude looks
\* at the recent records of the two upper levels (the file 1), whatever their
\* size; OpenCode only at the table.
Recent(r) == r.at = time
DetectedByFiles(ps) == root = "present" /\ \E p \in ps : files[p] # <<>>    \* seeded fault
Detected(ps) ==
  /\ root = "present"
  /\ CASE fact.detects = "samples" -> Samples(ps) # {}
       [] fact.detects = "recent"  -> \E x \in Places(ps \cap {1}) : Readable(x) /\ Recent(At(x))
       [] fact.detects = "table"   -> TRUE

\* health_check of every adapter but OpenCode.
Health(ps) == IF Detected(ps) THEN "healthy" ELSE "degraded"

-----------------------------------------------------------------------------
(* The tool *)

Install ==
  /\ root = "absent"
  /\ root' = "present"
  /\ upToDate' = FALSE
  /\ UNCHANGED <<adapter, files, taskModel, time, restated, counted>>

\* Another process holds the table, and lets go of it.
Lock ==
  /\ isTable
  /\ root \in {"present", "locked"}
  /\ root' = IF root = "present" THEN "locked" ELSE "present"
  /\ UNCHANGED <<adapter, files, taskModel, time, restated, counted, upToDate>>

\* A log gets a finished record; a request or a turn gets its tokens later.
\* Only the stores that other agents share hold turns of theirs.
FirstTokens(p) ==
  IF fact.reads \in {"tasks", "messages"} \/ (fact.reads = "glm" /\ p = 2) THEN {0}
  ELSE 1..MaxTokens
Turns       == IF fact.turns = "own" THEN Servers ELSE {"own"}

Write(p, n, by) ==
  /\ root # "absent"
  /\ isTable => p = 1
  /\ fact.reads = "glm" => p <= 2
  /\ Bytes(Paths) < MaxRecords
  /\ n \in FirstTokens(p) /\ by \in Turns
  /\ \E ok \in BOOLEAN :
       /\ files' = [files EXCEPT ![p] = Append(@,
                      [at |-> time, model |-> taskModel[p], n |-> n, by |-> by, ok |-> ok])]
  /\ upToDate' = FALSE
  /\ UNCHANGED <<adapter, root, taskModel, time, restated, counted>>

\* A request is filled in; a turn or a session goes on, which only Hermes does
\* not give a new time.
GoOn(p, i, n) ==
  /\ fact.reads \in {"tasks", "messages", "sessions"} \/ (fact.reads = "glm" /\ p = 2)
  /\ i \in DOMAIN files[p] /\ files[p][i].ok
  /\ n > files[p][i].n
  /\ fact.reads = "tasks" => files[p][i].n = 0
  /\ files' = [files EXCEPT ![p][i].n = n, ![p][i].at =
                 IF fact.reads # "tasks" /\ adapter # "hermes" THEN time ELSE @]
  /\ restated' = (restated \/ files[p][i].n > 0)
  /\ upToDate' = FALSE
  /\ UNCHANGED <<adapter, root, taskModel, time, counted>>

\* The user goes on with another model: api_conversation_history.json.
SwitchModel(p) ==
  /\ fact.reads = "tasks"
  /\ taskModel' = [taskModel EXCEPT ![p] = "m2"]
  /\ restated' = (restated \/ (fact.label = "task" /\ \E i \in DOMAIN files[p] : files[p][i].n > 0))
  /\ upToDate' = FALSE
  /\ UNCHANGED <<adapter, root, files, time, counted>>

Tick ==
  /\ time < MaxTime
  /\ time' = time + 1
  /\ UNCHANGED <<adapter, root, files, taskModel, restated, counted, upToDate>>

-----------------------------------------------------------------------------
(* A refresh.  The files of "unread" cannot be opened at this moment, or are *)
(* tasks that are no JSON as a whole: half written, or damaged for good.     *)

Refresh(unread) ==
  \E ps \in CollectFiles :
    LET samples == Samples(ps \ unread) IN
    /\ counted' = IF Unavailable(samples) THEN counted ELSE Ingest(samples)
    /\ upToDate' = (unread = {} /\ root # "locked")
    /\ UNCHANGED <<adapter, root, files, taskModel, time, restated>>

ScanNext ==
  \/ Install \/ Lock \/ Tick
  \/ \E p \in Paths :
       \/ \E n \in 0..MaxTokens, by \in Servers : Write(p, n, by)
       \/ \E i \in 1..MaxRecords, n \in 1..MaxTokens : GoOn(p, i, n)
       \/ SwitchModel(p)
  \/ \E unread \in SUBSET Paths : Refresh(unread)

ScanSpec == ScanInit /\ [][ScanNext]_scanVars

-----------------------------------------------------------------------------
(* Properties *)

\* "The same local record ingested twice is recognised as a duplicate instead
\* of being counted again" (fnv1a, usage_events): as long as no record that had
\* been read is changed, every event that is counted stands for a record of its
\* own that has at least its tokens, and by the replacing full scan of OpenCode
\* even then.
HasRecord(e, x) == Readable(x) /\ At(x).by = e.by /\ e.n <= At(x).n
EachHasItsRecord ==
  \E of \in Injection(counted, Places(Paths)) : \A e \in counted : HasRecord(e, of[e])
NeverOvercounts == (~restated \/ replaces) => EachHasItsRecord

\* Turns of bundled or mirrored agents are left to their own adapters
\* (is_excluded_provider, NATIVE_PROVIDERS).
OwnTurnsOnly == \A e \in counted : e.by = "own"

\* Right after a refresh of a source within the bounds every record that can
\* be read is counted: a corrupt record, an unfinished one or another file
\* hides none of the others, of a task whose file is JSON at all (scan_directory: "a single corrupt session file
\* must not hide the rest of the history").
WithinBounds ==
  /\ \A p \in Paths : Fits(p)
  /\ Bytes(Paths) <= MaxTotalBytes
  /\ Cardinality({p \in Paths : files[p] # <<>>}) <= MaxFiles
  /\ fact.reads \in {"messages", "glm"} => \A p \in Paths : Len(files[p]) <= MaxFiles
ReadableIsCounted ==
  upToDate /\ WithinBounds =>
    \A x \in Places(Paths) :
      Readable(x) /\ At(x).by = "own" =>
        \E e \in counted : e.at = At(x).at /\ e.n = At(x).n

\* What detection reports and what collection counts do not contradict each
\* other, although they read in different ways: within the bounds an adapter
\* that counts on a scan is detected, and says it is healthy, only when there is
\* something to count.
DetectionIsBacked ==
  fact.detects # "table" /\ WithinBounds =>
    \A ps \in CollectFiles :
      Health(ps) = "healthy" => root = "present" /\ Samples(ps) # {}

\* After every refresh the usage of the source is what its records say: nothing
\* twice, nothing of others, nothing passed over, and detection knows of it.
ScanCountsRight ==
  /\ NeverOvercounts
  /\ OwnTurnsOnly
  /\ ReadableIsCounted
  /\ DetectionIsBacked

-----------------------------------------------------------------------------
(* What the code says of itself and does not do: see the README.            *)

\* The rows of a source of session totals are counted as what the sessions
\* consumed (see replace_provider_batch: "keeping older snapshots would
\* double-count every refresh").
TotalsCountedOnce == EachHasItsRecord
=============================================================================
