-------------------------- MODULE SessionCounters --------------------------
(***************************************************************************)
(* The adapters whose tool keeps running totals in its session files: Codex *)
(* (providers/codex/src/lib.rs) and Gemini (gemini/src/transcript.rs).      *)
(*                                                                          *)
(* Codex parses a session again only when its size has changed, and every   *)
(* refresh replaces all its rows.  Gemini reads what fits into its budget,  *)
(* from the end, and its rows are added to those the database has.          *)
(*                                                                          *)
(* A record is written at a time of its own; it holds the session's total   *)
(* and, in files of a modern Codex, the tokens of the turn.  A file is as   *)
(* big as it has records.                                                   *)
(***************************************************************************)
EXTENDS Naturals, Sequences, FiniteSets, FiniteSetsExt, Functions

CONSTANTS
  SessionFiles, \* bound: session files, in the order of their paths
  MaxTurns,     \* bound: turns the tool writes
  TurnTokens,   \* the tokens a turn may take
  MaxSize,      \* Codex: MAX_TOTAL_BYTES, of one file; Gemini: max_bytes_per_file
  MaxSamples    \* Gemini: TranscriptBounds.max_samples

ASSUME SessionBoundsAssumption ==
  {SessionFiles, MaxTurns, MaxSize, MaxSamples} \subseteq Nat /\ TurnTokens \subseteq Nat \ {0}

Sessions == 1..SessionFiles

Formats == {"codex", "legacy codex", "gemini"}

VARIABLES
  format,     \* the tool of this behaviour
  sessions,   \* sessions[f]: the records of file f; a file without is not there
  gone,       \* files that were deleted; a name is never used again
  turns,      \* turns[t]: what turn t took, and where it is recorded (history)
  restarted,  \* some session's totals began again (history)
  cache,      \* Codex: parsed sessions, with the size they had
  todo,       \* Codex: files the running scan has still to look at
  opened,     \* Codex: the file the scan has taken the size of
  got,        \* Codex: the sessions the scan has so far
  rows,       \* rows of usage_events
  settled     \* the last refresh saw everything there is (history)

scanState   == <<cache, todo, opened, got>>
counterVars == <<format, sessions, gone, turns, restarted, scanState, rows, settled>>

NoFile == [file |-> 0, size |-> 0]
Idle   == {0}         \* "todo" between two scans

Codex == format \in {"codex", "legacy codex"}
\* collect_jsonl_files
Present  == {f \in Sessions : sessions[f] # <<>>}

\* parse_token_count_line: its time, the totals so far and, if the tool says so,
\* the turn's own tokens; a line that is nothing of the kind is no record.
TurnRecord == [at : 1..MaxTurns, total : Nat, turn : TurnTokens \cup {0}]

CounterTypeOK ==
  /\ format \in Formats
  /\ \A f \in Sessions : \A i \in DOMAIN sessions[f] : sessions[f][i] \in TurnRecord
  /\ gone \subseteq Sessions
  /\ Len(turns) <= MaxTurns
  /\ \A t \in DOMAIN turns : turns[t] \in [n : TurnTokens, file : Sessions, place : 1..MaxTurns]
  /\ restarted \in BOOLEAN /\ settled \in BOOLEAN
  /\ DOMAIN cache \subseteq Sessions /\ DOMAIN got \subseteq Sessions
  /\ todo = Idle \/ todo \subseteq Sessions
  /\ opened = NoFile \/ (opened.file \in Sessions /\ opened.size \in 1..MaxTurns)
  /\ rows \subseteq [at : 1..MaxTurns, n : Nat]

CounterInit ==
  /\ format \in Formats
  /\ sessions = [f \in Sessions |-> <<>>]
  /\ gone = {}
  /\ turns = <<>>
  /\ restarted = FALSE
  /\ cache = <<>> /\ got = <<>>
  /\ todo = Idle
  /\ opened = NoFile
  /\ rows = {}
  /\ settled = FALSE

-----------------------------------------------------------------------------
(* The arithmetic of totals *)

\* Seeded fault: the first record of a session counts with its total, also
\* when the window does not begin with the file.
DeltaFromZero(s, i) == IF i = 1 THEN s[1].total
                       ELSE IF s[i].total < s[i - 1].total THEN s[i].total
                       ELSE s[i].total - s[i - 1].total

\* Seeded fault: the second message is taken for a baseline too.
DeltaFromThird(s, i) == IF i <= 2 THEN 0 ELSE DeltaFromZero(s, i)

\* process_message: the first message is only the baseline; a total that drops
\* is a new session's first turn, in full.
MessageDelta(s, i) == IF i = 1 THEN 0 ELSE DeltaFromZero(s, i)

\* cumulative_delta: the first record counts in full.
CumulativeDelta(s, i) == DeltaFromZero(s, i)

\* Seeded fault: totals are counted as if they were turns.
TotalOf(s, i) == s[i].total

\* scan_usage_samples: the turn if the record has it, else the difference of
\* the totals.
TurnUsage(s, i) == IF s[i].turn > 0 THEN s[i].turn ELSE CumulativeDelta(s, i)

\* emit_sample: a record that adds nothing is no sample.
Usage(s, i) == IF Codex THEN TurnUsage(s, i) ELSE MessageDelta(s, i)
SessionSamples(s) == {[at |-> s[i].at, n |-> Usage(s, i)] : i \in {j \in DOMAIN s : Usage(s, j) > 0}}

-----------------------------------------------------------------------------
(* The tool *)

\* A turn; "again" when the session's totals begin again (/clear, a resumed
\* session).
WriteTurn(f, n, again) ==
  LET s     == sessions[f]
      last  == IF s = <<>> \/ again THEN 0 ELSE s[Len(s)].total
  IN /\ Len(turns) < MaxTurns /\ f \notin gone
     /\ again => s # <<>> /\ format # "codex"
     /\ sessions' = [sessions EXCEPT ![f] = Append(@,
          [at |-> Len(turns) + 1, total |-> last + n, turn |-> IF format = "codex" THEN n ELSE 0])]
     /\ turns' = Append(turns, [n |-> n, file |-> f, place |-> Len(s) + 1])
     /\ restarted' = (restarted \/ again)
     /\ settled' = FALSE
     /\ UNCHANGED <<format, gone, scanState, rows>>

DeleteSession(f) ==
  /\ sessions[f] # <<>>
  /\ sessions' = [sessions EXCEPT ![f] = <<>>]
  /\ gone' = gone \cup {f}
  /\ settled' = FALSE
  /\ UNCHANGED <<format, turns, restarted, scanState, rows>>

-----------------------------------------------------------------------------
(* A scan of Codex, file by file, while the tool writes: scan_token_records *)

BeginScan ==
  /\ Codex /\ todo = Idle
  /\ todo' = Present
  /\ cache' = Restrict(cache, DOMAIN cache \cap Present)
  /\ got' = <<>>
  /\ settled' = TRUE
  /\ UNCHANGED <<format, sessions, gone, turns, restarted, opened, rows>>

Put(fun, f, value) == [g \in DOMAIN fun \cup {f} |-> IF g = f THEN value ELSE fun[g]]

\* Seeded fault: a file that is gone is opened all the same.
StatAnyway(f) ==
  /\ Codex /\ todo # Idle /\ opened = NoFile
  /\ f \in todo
  /\ todo' = todo \ {f}
  /\ opened' = [file |-> f, size |-> Len(sessions[f])]
  /\ UNCHANGED <<format, sessions, gone, turns, restarted, cache, got, rows, settled>>

\* The size first: a file that is gone or too big is left out, one of the same
\* size as in the cache is not read.
Stat(f) ==
  /\ Codex /\ todo # Idle /\ opened = NoFile
  /\ f \in todo
  /\ todo' = todo \ {f}
  /\ LET size == Len(sessions[f]) IN
     CASE size = 0 \/ size > MaxSize ->
            UNCHANGED <<opened, got>>
       [] f \in DOMAIN cache /\ cache[f].size = size /\ size \in 1..MaxSize ->
            got' = Put(got, f, cache[f].records) /\ UNCHANGED opened
       [] OTHER ->
            opened' = [file |-> f, size |-> size] /\ UNCHANGED got
  /\ UNCHANGED <<format, sessions, gone, turns, restarted, cache, rows, settled>>

\* Seeded fault: the size is taken after the content was read.
ReadThenStat(ok) ==
  /\ opened # NoFile
  /\ opened' = NoFile
  /\ \E later \in 0..1 :
       cache' = Put(cache, opened.file,
                    [size |-> Len(sessions[opened.file]) + later, records |-> sessions[opened.file]])
  /\ got' = Put(got, opened.file, sessions[opened.file])
  /\ UNCHANGED <<format, sessions, gone, turns, restarted, todo, rows, settled>>

\* Then the content; a file that cannot be read now is left out.
Read(ok) ==
  /\ opened # NoFile
  /\ opened' = NoFile
  /\ IF ok /\ sessions[opened.file] # <<>>
     THEN /\ cache' = Put(cache, opened.file,
                          [size |-> opened.size, records |-> sessions[opened.file]])
          /\ got' = Put(got, opened.file, sessions[opened.file])
          /\ UNCHANGED settled
     ELSE settled' = FALSE /\ UNCHANGED <<cache, got>>
  /\ UNCHANGED <<format, sessions, gone, turns, restarted, todo, rows>>

\* collect_usage and replace_provider_batch: the rows of a scan replace all
\* that were there, an empty one changes nothing.
EndScan ==
  /\ Codex /\ todo = {} /\ opened = NoFile
  /\ LET samples == UNION {SessionSamples(got[f]) : f \in DOMAIN got}
     IN rows' = IF samples = {} THEN rows ELSE samples
  /\ todo' = Idle
  /\ UNCHANGED <<format, sessions, gone, turns, restarted, cache, opened, got, settled>>

-----------------------------------------------------------------------------
(* A scan of Gemini *)

\* scan_file: a file over the budget is read from its end.
Tail_(s) == IF Len(s) > MaxSize THEN SubSeq(s, Len(s) - MaxSize + 1, Len(s)) ELSE s

\* scan_transcripts: file after file, until there are max_samples.
FileSamples(f) == SessionSamples(Tail_(sessions[f]))
Transcripts(read) ==
  LET before(f, e) == UNION {FileSamples(g) : g \in {h \in read : h < f}}
                        \cup {d \in FileSamples(f) : d.at < e.at}
  IN UNION {{e \in FileSamples(f) : Cardinality(before(f, e)) < MaxSamples} : f \in read}

ScanGemini(unread) ==
  /\ format = "gemini"
  /\ rows' = rows \cup Transcripts(Present \ unread)
  /\ settled' = (Transcripts(Present \ unread) = UNION {FileSamples(f) : f \in Present})
  /\ UNCHANGED <<format, sessions, gone, turns, restarted, scanState>>

CounterNext ==
  \/ \E f \in Sessions :
       \/ \E n \in TurnTokens, again \in BOOLEAN : WriteTurn(f, n, again)
       \/ DeleteSession(f)
       \/ Stat(f)
  \/ BeginScan \/ EndScan
  \/ \E ok \in BOOLEAN : Read(ok)
  \/ \E unread \in SUBSET Sessions : ScanGemini(unread)

CounterSpec == CounterInit /\ [][CounterNext]_counterVars

-----------------------------------------------------------------------------
(* Properties *)

\* "An unchanged (size, mtime) is a sound freshness check": a session in the
\* cache that has the size of the file has the records of the file, although
\* the tool may write between the two looks at it.
CacheIsTheFile ==
  \A f \in DOMAIN cache \cap Present :
    cache[f].size = Len(sessions[f]) => cache[f].records = sessions[f]

\* Totals are never counted as turns: whatever is read when, with tails that
\* move, totals that begin again and rows that stay, a turn has one row at most,
\* with no more tokens than it took ("Summing every token_count line would count
\* each turn's cumulative total multiple times").
TurnsAreCountedOnce ==
  /\ \A e \in rows : e.n <= turns[e.at].n
  /\ \A d, e \in rows : d.at = e.at => d = e

\* After a scan that saw everything, Codex counts exactly the turns of the
\* sessions that are there, with what each took, unless a legacy session's
\* totals began again.
LiveTurns ==
  {[at |-> t, n |-> turns[t].n] :
     t \in {u \in DOMAIN turns : /\ turns[u].file \in Present
                                /\ Len(sessions[turns[u].file]) <= MaxSize}}
CodexIsExact ==
  Codex /\ settled /\ todo = Idle /\ ~restarted /\ LiveTurns # {} => rows = LiveTurns

\* After a scan that saw everything, Gemini has counted every message but the
\* first of what it read of each session, unless totals began again above the
\* last one.
GeminiMissesNoTurn ==
  format = "gemini" /\ settled /\ ~restarted =>
    \A f \in Present :
      \A i \in 2..Len(Tail_(sessions[f])) :
        \E e \in rows : e.at = Tail_(sessions[f])[i].at

\* However the tools and the scans interleave, running totals become turns that
\* are counted once, completely, and from files as they are.
SessionsCountRight ==
  /\ CacheIsTheFile
  /\ TurnsAreCountedOnce
  /\ CodexIsExact
  /\ GeminiMissesNoTurn
=============================================================================
