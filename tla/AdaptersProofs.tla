--------------------------- MODULE AdaptersProofs ---------------------------
(***************************************************************************)
(* Proofs about what the adapters read: the sources of a quota, the         *)
(* counters of the sessions, the scans of the local records and the windows *)
(* made of published numbers, for every set of adapters, every bound and    *)
(* every answer; and that their composition is all four.                    *)
(***************************************************************************)
EXTENDS MCAdapters, SequenceTheorems, FiniteSetTheorems, TLAPS

-----------------------------------------------------------------------------
(* Quota sources: what an adapter can come to ask *)

\* The sources an adapter knows.
SourcesOf(p) ==
  CASE p \in LocalRecords -> {"credential", "api", "snapshot"}
    [] p \in {"anthropic_claude", "github_copilot", "cursor", "devin", "openrouter"} ->
         {"credential", "api"}
    [] p = "grok" -> {"credential", "token", "credits", "legacy", "token again",
                             "credits again", "legacy again", "models"}
    [] p = "kimi_code" -> {"credential", "token", "api", "token again", "api again"}
    [] p = "google_gemini" -> {"credential", "token", "assist", "api"}
    [] p = "antigravity" -> {"credential", "port", "last port"}
    [] p = "kiro" -> {"credential", "version", "usage command"}
    [] p = "ark_plan" -> {"credential", "plan command", "tier command"}
    [] p = "command_code" -> {"credential", "whoami", "credits", "subscriptions"}
    [] p = "opencode" -> {"credential", "api", "config", "dashboard"}
    [] p = "ollama_local" -> {"credential"}

First  == {"token", "whoami", "version", "plan command", "models", "port"}
Second == {"credits", "assist", "last port", "usage command", "tier command"}
Third  == {"api", "legacy", "subscriptions"}
Fourth == {"token again", "config"}
Fifth  == {"credits again", "api again", "dashboard"}
RecordOf(p) == IF p = "qoder" THEN {} ELSE {"snapshot"}
AllSources ==
  {"credential", "snapshot", "legacy again"} \cup First \cup Second \cup Third \cup Fourth \cup Fifth

\* No source is asked twice: every adapter asks them in this order.
Rank(p, source) ==
  CASE source = "credential"   -> IF p = "qoder" THEN 1 ELSE 0
    [] source = "snapshot"     -> IF p = "qoder" THEN 0 ELSE 4
    [] source \in First        -> 1
    [] source \in Second       -> 2
    [] source \in Third        -> 3
    [] source \in Fourth       -> 4
    [] source \in Fifth        -> 5
    [] source = "legacy again" -> 6

\* The sources that may come after a source.
Later(p, source) ==
  CASE source = "credential" ->
         Second \cup Third \cup Fourth \cup Fifth \cup RecordOf(p) \cup {"legacy again"}
           \cup (IF p = "qoder" THEN {} ELSE First)
    [] source = "snapshot" -> IF p = "qoder" THEN {"credential"} ELSE {}
    [] source \in First -> Second \cup Third \cup Fourth \cup Fifth \cup {"legacy again"}
    [] source \in Second -> Third \cup Fourth \cup Fifth \cup {"legacy again"}
    [] source \in Third -> Fourth \cup Fifth \cup RecordOf(p) \cup {"legacy again"}
    [] source \in Fourth -> Fifth \cup {"legacy again"}
    [] source \in Fifth -> {"legacy again"}
    [] OTHER -> {}

Given == {"valid", "expired", "key"}
Local == Looks \cup Commands

\* The adapters that ask a server on this machine.
Unlogged == {"antigravity", "ollama_local"}

\* What the local sources can answer.
Possible(source, answer) ==
  /\ source = "credential" => answer \in Logins
  /\ source = "config" => answer \in {"none", "valid", "unreadable"}
  /\ source = "snapshot" => answer \in {"OK", "EMPTY"}

\* What every adapter does after every answer.  It goes on to a source of its own
\* that comes later; to a service only with a credential; after a rejection only
\* to a token; and an adapter with a local record never after a signal, nor to
\* the record before a service has failed.
MayAsk(source, answer, s) ==
  /\ s \in SourcesOf(provider) /\ s \in Later(provider, source)
  /\ s \notin Local /\ provider \notin Unlogged =>
       source \notin Local \/ (source \in {"credential", "config"} /\ answer \in Given)
  /\ answer = "AUTH_EXPIRED" => s \in {"token again", "last port"}
  /\ source = "token again" => answer = "OK"
  /\ source # "last port"
  /\ provider \in LocalRecords => answer \notin Signals
  /\ provider \in LocalRecords \ {"qoder"} /\ s = "snapshot" =>
       \/ source = "credential" /\ answer \notin {"valid", "expired"}
       \/ source \notin Looks /\ answer # "OK"

\* What the state store of Cursor may be, without a token.
Tokenless == {"absent", "none", "unreadable", "malformed"}

\* Or it ends: with an estimate only from its record.
Sound(source, answer, next) ==
  \/ next.kind = "ask" /\ MayAsk(source, answer, next.source)
  \/ next.kind = "estimate" /\ provider \in LocalRecords /\ source = "snapshot" /\ answer \notin Signals
  \/ /\ next.kind \in {"live", "nothing", "fail"}
     /\ provider = "cursor" /\ source = "credential" /\ answer \in Tokenless
          => next.kind \in {"fail", "nothing"}


LEMMA RankTypes ==
  ASSUME NEW p, NEW s \in AllSources
  PROVE  Rank(p, s) \in {0, 1, 2, 3, 4, 5, 6}
BY DEF AllSources, Rank, First, Second, Third, Fourth, Fifth

LEMMA LaterIsHigher ==
  ASSUME NEW p, NEW s \in AllSources, NEW t \in Later(p, s)
  PROVE  t \in AllSources /\ Rank(p, t) > Rank(p, s)
<1>1. t \in AllSources
  BY DEF AllSources, Later, RecordOf, First, Second, Third, Fourth, Fifth
<1>2. CASE s = "credential" /\ p # "qoder"
  <2>1. Rank(p, s) \in {0} /\ Rank(p, t) \in {1, 2, 3, 4, 5, 6}
    BY <1>2 DEF Rank, Later, RecordOf, First, Second, Third, Fourth, Fifth
  <2> QED BY ONLY <1>1, <2>1
<1>3. CASE s = "credential" /\ p = "qoder"
  <2>1. Rank(p, s) \in {1} /\ Rank(p, t) \in {2, 3, 4, 5, 6}
    BY <1>3 DEF Rank, Later, RecordOf, First, Second, Third, Fourth, Fifth
  <2> QED BY ONLY <1>1, <2>1
<1>4. CASE s = "snapshot"
  <2>1. Rank(p, s) \in {0} /\ Rank(p, t) \in {1}
    BY <1>4 DEF Rank, Later, RecordOf, First, Second, Third, Fourth, Fifth
  <2> QED BY ONLY <1>1, <2>1
<1>5. CASE s \in First
  <2>1. Rank(p, s) \in {1} /\ Rank(p, t) \in {2, 3, 4, 5, 6}
    BY <1>5 DEF Rank, Later, RecordOf, First, Second, Third, Fourth, Fifth
  <2> QED BY ONLY <1>1, <2>1
<1>6. CASE s \in Second
  <2>1. Rank(p, s) \in {2} /\ Rank(p, t) \in {3, 4, 5, 6}
    BY <1>6 DEF Rank, Later, RecordOf, First, Second, Third, Fourth, Fifth
  <2> QED BY ONLY <1>1, <2>1
<1>7. CASE s \in Third
  <2>1. Rank(p, s) \in {3} /\ Rank(p, t) \in {4, 5, 6}
    BY <1>7 DEF Rank, Later, RecordOf, First, Second, Third, Fourth, Fifth
  <2> QED BY ONLY <1>1, <2>1
<1>8. CASE s \in Fourth
  <2>1. Rank(p, s) \in {4} /\ Rank(p, t) \in {5, 6}
    BY <1>8 DEF Rank, Later, RecordOf, First, Second, Third, Fourth, Fifth
  <2> QED BY ONLY <1>1, <2>1
<1>9. CASE s \in Fifth
  <2>1. Rank(p, s) \in {5} /\ Rank(p, t) \in {6}
    BY <1>9 DEF Rank, Later, RecordOf, First, Second, Third, Fourth, Fifth
  <2> QED BY ONLY <1>1, <2>1
<1>10. CASE s = "legacy again"
  BY <1>10 DEF Later, First, Second, Third, Fourth, Fifth
<1> QED BY <1>2, <1>3, <1>4, <1>5, <1>6, <1>7, <1>8, <1>9, <1>10 DEF AllSources

-----------------------------------------------------------------------------
(* Every adapter is sound *)

LEMMA AdaptersAreSound ==
  ASSUME provider \in QuotaAdapters, NEW source \in SourcesOf(provider), NEW answer,
         Possible(source, answer)
  PROVE  Sound(source, answer, After(source, answer))
<1> USE DEF SourcesOf, Later, RecordOf, First, Second, Third, Fourth, Fifth, Given, Local, Possible,
            MayAsk, Unlogged, Tokenless, Sound, Signals, Looks, Commands, LocalRecords, Logins
<1>1. CASE provider = "openai_codex"
  <2>1. Sound(source, answer, CodexStep(source, answer))
    BY <1>1 DEF CodexStep, Ask, Live, Estimate, NothingThere, Fail, Closing, HasToken
  <2> QED BY <1>1, <2>1 DEF After
<1>2. CASE provider = "anthropic_claude"
  <2>1. Sound(source, answer, ClaudeStep(source, answer))
    BY <1>2 DEF ClaudeStep, Ask, Live, NothingThere, Fail, Closing, HasToken
  <2> QED BY <1>2, <2>1 DEF After
<1>3. CASE provider = "github_copilot"
  <2>1. Sound(source, answer, CopilotStep(source, answer))
    BY <1>3 DEF CopilotStep, Ask, Live, NothingThere, Fail, Closing, HasToken
  <2> QED BY <1>3, <2>1 DEF After
<1>4. CASE provider = "cursor"
  <2>1. Sound(source, answer, CursorStep(source, answer))
    BY <1>4 DEF CursorStep, Ask, Live, NothingThere, Fail, Closing
  <2> QED BY <1>4, <2>1 DEF After
<1>5. CASE provider = "grok"
  <2>1. Sound(source, answer, GrokStep(source, answer))
    BY <1>5 DEF GrokStep, Ask, Live, Fail, Closing, Refreshed, RefreshBy
  <2> QED BY <1>5, <2>1 DEF After
<1>6. CASE provider = "kimi_code"
  <2>1. Sound(source, answer, KimiStep(source, answer))
    BY <1>6 DEF KimiStep, Ask, Live, NothingThere, Fail, Closing, Refreshed, RefreshBy
  <2> QED BY <1>6, <2>1 DEF After
<1>7. CASE provider = "google_gemini"
  <2>1. Sound(source, answer, GeminiStep(source, answer))
    BY <1>7 DEF GeminiStep, Ask, Live, NothingThere, Fail, Closing, Through, Refreshed, RefreshBy
  <2> QED BY <1>7, <2>1 DEF After
<1>8. CASE provider = "antigravity"
  <2>1. Sound(source, answer, AntigravityStep(source, answer))
    BY <1>8 DEF AntigravityStep, Ask, Live, Fail, Closing
  <2> QED BY <1>8, <2>1 DEF After
<1>9. CASE provider = "kiro"
  <2>1. Sound(source, answer, KiroStep(source, answer))
    BY <1>9 DEF KiroStep, Ask, Live, NothingThere, Fail, Closing, Through
  <2> QED BY <1>9, <2>1 DEF After
<1>10. CASE provider = "ark_plan"
  <2>1. Sound(source, answer, ArkStep(source, answer))
    BY <1>10 DEF ArkStep, Ask, Live, NothingThere, Fail, Closing
  <2> QED BY <1>10, <2>1 DEF After
<1>11. CASE provider = "devin"
  <2>1. Sound(source, answer, DevinStep(source, answer))
    BY <1>11 DEF DevinStep, Ask, Live, NothingThere, Fail, Closing, HasToken
  <2> QED BY <1>11, <2>1 DEF After
<1>12. CASE provider = "openrouter"
  <2>1. Sound(source, answer, OpenRouterStep(source, answer))
    BY <1>12 DEF OpenRouterStep, Ask, Live, Fail, Closing, HasToken
  <2> QED BY <1>12, <2>1 DEF After
<1>13. CASE provider = "command_code"
  <2>1. Sound(source, answer, CommandCodeStep(source, answer))
    BY <1>13 DEF CommandCodeStep, Ask, Live, Fail, Closing, Through, HasToken
  <2> QED BY <1>13, <2>1 DEF After
<1>14. CASE provider = "zcode_ai"
  <2>1. Sound(source, answer, ZCodeStep(source, answer))
    BY <1>14 DEF ZCodeStep, Ask, Live, Estimate, NothingThere, Fail, Closing, HasToken
  <2> QED BY <1>14, <2>1 DEF After
<1>15. CASE provider = "qoder"
  <2>1. Sound(source, answer, QoderStep(source, answer))
    BY <1>15 DEF QoderStep, Ask, Live, Estimate, NothingThere, Fail, Closing, HasToken
  <2> QED BY <1>15, <2>1 DEF After
<1>16. CASE provider = "opencode"
  <2>1. Sound(source, answer, OpenCodeStep(source, answer))
    BY <1>16 DEF OpenCodeStep, Ask, Live, NothingThere, Fail, Closing, HasToken
  <2> QED BY <1>16, <2>1 DEF After
<1>17. CASE provider = "ollama_local"
  <2>1. Sound(source, answer, OllamaStep(source, answer))
    BY <1>17 DEF OllamaStep, Live, NothingThere
  <2> QED BY <1>17, <2>1 DEF After
<1> QED
  BY QuotaAdaptersAssumption, <1>1, <1>2, <1>3, <1>4, <1>5, <1>6, <1>7, <1>8, <1>9,
     <1>10, <1>11, <1>12, <1>13, <1>14, <1>15, <1>16, <1>17

-----------------------------------------------------------------------------
(* The inductive invariant of the quota sources *)

AnswersEver ==
  HttpAnswers \cup CommandAnswers
    \cup {"absent", "none", "empty", "key", "anonymous", "tokenless", "valid", "expired", "denied",
          "unreadable", "malformed", "SOURCE_REQUIRES_TTY"}
Asked == [source : AllSources, answer : AnswersEver, token : {0, 1, 2}]
Ends  == {"live", "estimate", "nothing", "fail"}

QuotaStates ==
  /\ provider \in QuotaAdapters
  /\ login \in Logins /\ refreshable \in BOOLEAN
  /\ now \in 1..MaxNow /\ snapshot \in 0..now
  /\ kept \in [collected : Nat, data : Nat] /\ kept.data <= kept.collected /\ kept.collected <= now
  /\ purpose \in {"collect", "health"}
  /\ purpose = "health" => provider \in HealthBySources /\ asking # "idle"
  /\ asking \in SourcesOf(provider) \cup {"idle", "done"}
  /\ told \in Seq(Asked) /\ token \in {0, 1, 2}
  /\ IF asking = "done" THEN result.kind \in Ends ELSE result = NoResult

\* How far the search is: each source has its place, and so have the tokens.
InOrder ==
  /\ asking = "idle" => told = <<>>
  /\ asking = "done" => Len(told) <= 7 /\ (purpose = "health" => told # <<>>)
  /\ asking \notin {"idle", "done"} =>
       /\ Len(told) <= Rank(provider, asking)
       /\ Rank(provider, asking) <= 1 => token = 0
       /\ Rank(provider, asking) <= 4 => token <= 1

HasCredential ==
  \E j \in 1..Len(told) :
    told[j].source \in {"credential", "config"} /\ told[j].answer \in Given
FailedBefore ==
  \E j \in 1..Len(told) :
    \/ told[j].source = "credential" /\ told[j].answer \notin {"valid", "expired"}
    \/ told[j].source \notin Looks /\ told[j].answer # "OK"

\* A service is being asked only for a user with a credential, and was.
Logged ==
  provider \notin Unlogged =>
    /\ asking \notin Local \cup {"idle", "done"} => HasCredential
    /\ \A i \in 1..Len(told) : told[i].source \notin Local =>
         \E j \in 1..(i - 1) :
           told[j].source \in {"credential", "config"} /\ told[j].answer \in Given

\* The token in hand has not been rejected, unless a refresh is under way.
Accepted ==
  /\ \A i \in 1..Len(told) : told[i].token <= token
  /\ asking \notin {"token again", "last port", "done"} =>
       \A i \in 1..Len(told) : told[i].answer = "AUTH_EXPIRED" => told[i].token # token
  /\ \A i, j \in 1..Len(told) :
       i < j /\ told[i].answer = "AUTH_EXPIRED"
         /\ told[j].source \notin Looks \cup Commands \cup Tokens \cup {"last port"}
       => told[j].token # told[i].token

\* An adapter comes to its record without a signal and after a failure.
Unmasked ==
  /\ provider \in LocalRecords /\ asking # "done" =>
       \A i \in 1..Len(told) : told[i].answer \notin Signals
  /\ result.kind = "estimate" =>
       provider \in LocalRecords /\ \A i \in 1..Len(told) : told[i].answer \notin Signals
  /\ provider # "qoder" /\ (asking = "snapshot" \/ result.kind = "estimate") => FailedBefore
  /\ provider = "cursor" /\ told # <<>> /\ told[1].answer \in Tokenless =>
       asking = "done" /\ result.kind \in {"fail", "nothing"}
  /\ told = <<>> => asking \in {"credential", "snapshot", "idle", "done"}

QuotaInv == QuotaStates /\ InOrder /\ Logged /\ Accepted /\ Unmasked

-----------------------------------------------------------------------------
(* Steps that are not an answer leave the search alone, start or end it *)

Begun == told' = <<>> /\ token' = 0
Rests ==
  \/ UNCHANGED <<asking, told, token, result, purpose>>
  \/ Begun /\ asking' = "idle" /\ result' = NoResult
  \/ Begun /\ asking' = FirstSource /\ result' = result /\ result = NoResult
  \/ Begun /\ asking' = "done" /\ result' = Fail("SOURCE_UNAVAILABLE") /\ purpose' = "collect"

LEMMA KindsOf ==
  /\ \A c : Fail(c).kind = "fail"
  /\ Live.kind = "live" /\ Estimate.kind = "estimate" /\ NothingThere.kind = "nothing"
  /\ NoResult.kind = "none"
BY DEF Fail, Live, Estimate, NothingThere, NoResult

LEMMA FirstIsKnown ==
  ASSUME provider \in QuotaAdapters
  PROVE  /\ FirstSource \in SourcesOf(provider) /\ FirstSource \notin {"idle", "done"}
         /\ FirstSource \in Local /\ Rank(provider, FirstSource) \in {0}
         /\ FirstSource \notin {"token again", "last port"}
         /\ provider # "qoder" => FirstSource # "snapshot"
<1>1. FirstSource \in SourcesOf(provider)
  BY QuotaAdaptersAssumption DEF FirstSource, SourcesOf, LocalRecords
<1>2. Rank(provider, FirstSource) \in {0}
  <2>1. provider = "qoder" => FirstSource = "snapshot" /\ Rank(provider, "snapshot") \in {0}
    <3>1. provider = "qoder" => Rank(provider, "snapshot") \in {0}
      BY DEF Rank, First, Second, Third, Fourth, Fifth
    <3> QED BY <3>1 DEF FirstSource
  <2>2. provider # "qoder" => FirstSource = "credential" /\ Rank(provider, "credential") \in {0}
    <3>1. provider # "qoder" => Rank(provider, "credential") \in {0}
      BY DEF Rank, First, Second, Third, Fourth, Fifth
    <3> QED BY <3>1 DEF FirstSource
  <2> QED BY <2>1, <2>2
<1>3. FirstSource \in {"credential", "snapshot"}
  BY DEF FirstSource
<1> QED
  BY <1>1, <1>2, <1>3 DEF FirstSource, Local, Looks

LEMMA RecordsAreLocal ==
  ASSUME NEW p \in QuotaAdapters, "snapshot" \in SourcesOf(p)
  PROVE  p \in LocalRecords
BY QuotaAdaptersAssumption DEF SourcesOf, LocalRecords

LEMMA SourcesAreKnown ==
  ASSUME NEW p \in QuotaAdapters
  PROVE  SourcesOf(p) \subseteq AllSources
BY QuotaAdaptersAssumption
   DEF SourcesOf, AllSources, First, Second, Third, Fourth, Fifth, LocalRecords

LEMMA RestsKeepsOrder ==
  ASSUME QuotaStates, InOrder, Rests, provider' = provider
  PROVE  InOrder'
<1>1. CASE UNCHANGED <<asking, told, token, result, purpose>>
  BY <1>1 DEF InOrder
<1>2. CASE Begun /\ asking' = "idle"
  BY <1>2 DEF InOrder, Begun
<1>3. CASE Begun /\ asking' = FirstSource
  <2>1. Rank(provider', asking') \in {0}
    BY <1>3, FirstIsKnown DEF QuotaStates
  <2>2. asking' \notin {"idle", "done"} /\ told' = <<>> /\ token' = 0
    BY <1>3, FirstIsKnown DEF QuotaStates, Begun
  <2>3. Len(told') <= Rank(provider', asking')
    BY ONLY <2>1, <2>2
  <2> QED BY <2>1, <2>2, <2>3 DEF InOrder
<1>4. CASE Begun /\ asking' = "done" /\ purpose' = "collect"
  BY <1>4 DEF InOrder, Begun
<1> QED BY <1>1, <1>2, <1>3, <1>4 DEF Rests

LEMMA RestsKeepsHonest ==
  ASSUME QuotaStates, Rests, provider' = provider, Logged, Accepted, Unmasked
  PROVE  Logged' /\ Accepted' /\ Unmasked'
<1>1. CASE UNCHANGED <<asking, told, token, result, purpose>>
  BY <1>1 DEF Logged, Accepted, Unmasked, HasCredential, FailedBefore
<1>2. CASE Begun /\ asking' \in {"idle", "done", FirstSource}
              /\ result' \in {NoResult, Fail("SOURCE_UNAVAILABLE")}
  <2>1. told' = <<>> /\ Len(told') = 0 /\ 1..Len(told') = {}
    BY <1>2 DEF Begun
  <2>2. result'.kind # "estimate"
    BY <1>2, KindsOf
  <2>3. asking' \in Local \cup {"idle", "done"}
    BY <1>2, FirstIsKnown DEF QuotaStates
  <2>4. provider # "qoder" => asking' # "snapshot"
    BY <1>2, FirstIsKnown DEF QuotaStates
  <2>5. Logged'
    BY <2>1, <2>3 DEF Logged
  <2>6. Accepted'
    BY <2>1 DEF Accepted
  <2>7. asking' \in {"credential", "snapshot", "idle", "done"}
    BY <1>2 DEF FirstSource
  <2>8. Unmasked'
    BY <2>1, <2>2, <2>4, <2>7 DEF Unmasked
  <2> QED BY <2>5, <2>6, <2>8
<1> QED BY <1>1, <1>2 DEF Rests

-----------------------------------------------------------------------------
(* An answer *)

LEMMA AnswersArePossible ==
  ASSUME QuotaStates, NEW answer \in Answers(asking), asking \notin {"idle", "done"}
  PROVE  answer \in AnswersEver /\ Possible(asking, answer)
<1>1. asking \in AllSources
  BY SourcesAreKnown DEF QuotaStates
<1>2. asking = "credential" => answer = login
  BY DEF Answers
<1>3. login \in {"absent", "none", "empty", "key", "anonymous", "tokenless", "valid", "expired", "denied",
                 "unreadable", "malformed"}
  BY DEF QuotaStates, Logins
<1>4. asking = "config" => answer \in {"none", "valid", "unreadable"}
  BY DEF Answers, GoConfig
<1>5. asking = "snapshot" => answer \in {"OK", "EMPTY"}
  BY DEF Answers
<1>6. {"OK", "EMPTY", "AUTH_EXPIRED"} \cup Transport \subseteq HttpAnswers
  <2>1. 401 \in Statuses /\ CodeForStatus(401) = "AUTH_EXPIRED"
    BY DEF Statuses, CodeForStatus
  <2> QED BY <2>1 DEF HttpAnswers
<1>7. answer \in AnswersEver
  BY <1>1, <1>2, <1>3, <1>4, <1>5, <1>6
     DEF Answers, AnswersEver, AllSources, First, Second, Third, Fourth, Fifth
<1> QED
  BY <1>2, <1>4, <1>5, <1>7 DEF Possible, QuotaStates

\* What an answer changes: the search has one more step, and goes on or ends as
\* the adapter says.
Step(answer, next) ==
  /\ answer \in AnswersEver
  /\ Sound(asking, answer, next)
  /\ told' = Append(told, [source |-> asking, answer |-> answer, token |-> token])
  /\ token' = IF asking \in Tokens /\ answer = "OK" THEN token + 1 ELSE token
  /\ \/ next.kind = "ask" /\ asking' = next.source /\ result' = result
     \/ next.kind # "ask" /\ asking' = "done" /\ result' = next

LEMMA AnsweredIsAStep ==
  ASSUME QuotaStates, Answered
  PROVE  /\ asking \notin {"idle", "done"} /\ asking \in SourcesOf(provider)
         /\ UNCHANGED <<provider, world, purpose, kept>>
         /\ \E answer, next : Step(answer, next)
<1>1. asking \notin {"idle", "done"} /\ UNCHANGED <<provider, world, purpose, kept>>
  BY DEF Answered
<1>2. asking \in SourcesOf(provider)
  BY <1>1 DEF QuotaStates
<1>3. PICK answer \in Answers(asking) :
        /\ told' = Append(told, [source |-> asking, answer |-> answer, token |-> token])
        /\ token' = IF asking \in Tokens /\ answer = "OK" THEN token + 1 ELSE token
        /\ IF After(asking, answer).kind = "ask"
           THEN asking' = After(asking, answer).source /\ UNCHANGED result
           ELSE asking' = "done" /\ result' = After(asking, answer)
  BY DEF Answered
<1>4. answer \in AnswersEver /\ Possible(asking, answer)
  BY <1>1, AnswersArePossible
<1>5. Sound(asking, answer, After(asking, answer))
  BY <1>2, <1>4, AdaptersAreSound DEF QuotaStates
<1>6. Step(answer, After(asking, answer))
  BY <1>3, <1>4, <1>5 DEF Step
<1> QED BY <1>1, <1>2, <1>6

\* The search after a step, element by element.
LEMMA ToldAfter ==
  ASSUME QuotaStates, asking \in SourcesOf(provider), NEW answer, NEW next, Step(answer, next)
  PROVE  /\ told' \in Seq(Asked) /\ Len(told) \in Nat /\ Len(told') = Len(told) + 1
         /\ \A i \in 1..Len(told) : told'[i] = told[i]
         /\ told'[Len(told) + 1].source = asking
         /\ told'[Len(told) + 1].answer = answer
         /\ told'[Len(told) + 1].token = token
<1> DEFINE last == [source |-> asking, answer |-> answer, token |-> token]
<1>1. asking \in AllSources
  BY SourcesAreKnown DEF QuotaStates
<1>2. last \in Asked
  BY <1>1 DEF Asked, QuotaStates, Step
<1>3. last.source = asking /\ last.answer = answer /\ last.token = token
  OBVIOUS
<1>4. told \in Seq(Asked) /\ told' = Append(told, last)
  BY DEF QuotaStates, Step
<1> HIDE DEF last
<1> QED BY <1>2, <1>3, <1>4

LEMMA StepKeepsOrder ==
  ASSUME QuotaStates, InOrder, provider' = provider,
         asking \in SourcesOf(provider), asking \notin {"idle", "done"},
         NEW answer, NEW next, Step(answer, next)
  PROVE  InOrder' /\ token' \in {0, 1, 2}
<1> DEFINE r == Rank(provider, asking)
           s == Rank(provider, asking')
<1>1. Len(told) \in Nat /\ Len(told') = Len(told) + 1
  BY ToldAfter
<1>2. asking \in AllSources /\ r \in {0, 1, 2, 3, 4, 5, 6}
  BY SourcesAreKnown, RankTypes DEF QuotaStates
<1>3. Len(told) <= r /\ (r <= 1 => token = 0) /\ (r <= 4 => token <= 1)
  BY DEF InOrder
<1>4. asking \in Tokens => (asking = "token" /\ r \in {1}) \/ (asking = "token again" /\ r \in {4})
  BY DEF Tokens, Rank, First, Second, Third, Fourth, Fifth
<1>5. token \in {0, 1, 2} /\ (token' = token \/ (token' = token + 1 /\ r \in {1, 4}))
  BY <1>4 DEF Step, QuotaStates
<1>6. token' \in {0, 1, 2} /\ (r <= 1 => token' <= 1) /\ (r <= 4 => token' <= 2)
      /\ (r = 0 => token' = 0) /\ (r \in {2, 3} => token' <= 1) /\ Len(told') <= 7
  BY ONLY <1>1, <1>2, <1>3, <1>5
<1>7. CASE asking' = "done"
  <2>1. told' # <<>>
    BY <1>1
  <2> QED BY <1>6, <1>7, <2>1 DEF InOrder
<1>8. CASE asking' = next.source /\ next.kind = "ask"
  <2>1. asking' \in Later(provider, asking) /\ asking' \in SourcesOf(provider)
    BY <1>8 DEF Step, Sound, MayAsk
  <2>2. asking' \in AllSources /\ s > r
    BY <1>2, <2>1, LaterIsHigher
  <2>3. s \in {0, 1, 2, 3, 4, 5, 6}
    BY <2>2, RankTypes
  <2>4. Len(told') <= s /\ (s <= 1 => token' = 0) /\ (s <= 4 => token' <= 1)
    BY ONLY <1>1, <1>2, <1>3, <1>5, <2>2, <2>3
  <2>5. asking' \notin {"idle", "done"}
    BY <2>2 DEF AllSources, First, Second, Third, Fourth, Fifth
  <2> HIDE DEF s
  <2>6. s = Rank(provider', asking')
    BY DEF s
  <2> QED BY <2>4, <2>5, <2>6, <1>6 DEF InOrder
<1> QED BY <1>7, <1>8 DEF Step, Sound

LEMMA StepKeepsLogged ==
  ASSUME QuotaStates, Logged, provider' = provider,
         asking \in SourcesOf(provider), asking \notin {"idle", "done"},
         NEW answer, NEW next, Step(answer, next)
  PROVE  Logged'
<1> DEFINE n == Len(told)
<1>0. /\ n \in Nat /\ Len(told') = n + 1 /\ \A i \in 1..n : told'[i] = told[i]
      /\ told'[n + 1].source = asking /\ told'[n + 1].answer = answer
  BY ToldAfter
<1>1. SUFFICES ASSUME provider \notin Unlogged
               PROVE  /\ asking' \notin Local \cup {"idle", "done"} => HasCredential'
                      /\ \A i \in 1..(n + 1) : told'[i].source \notin Local =>
                           \E j \in 1..(i - 1) : told'[j].source \in {"credential", "config"}
                                                 /\ told'[j].answer \in Given
  BY <1>0 DEF Logged
<1>2. HasCredential => HasCredential'
  BY <1>0 DEF HasCredential
<1>3. asking \notin Local => HasCredential
  BY <1>1 DEF Logged
<1>4. asking' \notin Local \cup {"idle", "done"} => HasCredential'
  <2>1. SUFFICES ASSUME asking' \notin Local, asking' # "done" PROVE HasCredential'
    OBVIOUS
  <2>2. asking \notin Local \/ (asking \in {"credential", "config"} /\ answer \in Given)
    BY <1>1, <2>1 DEF Step, Sound, MayAsk
  <2>3. CASE asking \in {"credential", "config"} /\ answer \in Given
    BY <1>0, <2>3 DEF HasCredential
  <2> QED BY <1>2, <1>3, <2>2, <2>3
<1>5. ASSUME NEW i \in 1..(n + 1), told'[i].source \notin Local
      PROVE  \E j \in 1..(i - 1) : told'[j].source \in {"credential", "config"}
                                   /\ told'[j].answer \in Given
  <2>1. CASE i \in 1..n
    <3>1. PICK j \in 1..(i - 1) : told[j].source \in {"credential", "config"}
                                  /\ told[j].answer \in Given
      BY <1>0, <1>1, <1>5, <2>1 DEF Logged
    <3>2. j \in 1..n
      BY <1>0, <2>1
    <3> QED BY <1>0, <3>1, <3>2
  <2>2. CASE i = n + 1
    <3>1. asking \notin Local
      BY <1>0, <1>5, <2>2
    <3>2. PICK j \in 1..n : told[j].source \in {"credential", "config"} /\ told[j].answer \in Given
      BY <1>3, <3>1 DEF HasCredential
    <3> QED BY <1>0, <2>2, <3>2
  <2> QED BY <1>0, <2>1, <2>2
<1> QED BY <1>4, <1>5

LEMMA StepKeepsAccepted ==
  ASSUME QuotaStates, Accepted, provider' = provider,
         asking \in SourcesOf(provider), asking \notin {"idle", "done"},
         NEW answer, NEW next, Step(answer, next)
  PROVE  Accepted'
<1> DEFINE n == Len(told)
           Serves(s) == s \notin Looks \cup Commands \cup Tokens \cup {"last port"}
<1>0. /\ n \in Nat /\ Len(told') = n + 1 /\ \A i \in 1..n : told'[i] = told[i]
      /\ told'[n + 1].source = asking /\ told'[n + 1].answer = answer
      /\ told'[n + 1].token = token
  BY ToldAfter
<1>1. token \in {0, 1, 2} /\ token' \in {token, token + 1}
      /\ (asking \in Tokens /\ answer = "OK" => token' = token + 1)
  BY DEF QuotaStates, Step
<1>2. \A i \in 1..n : told[i].token \in {0, 1, 2}
  <2>1. \A i \in 1..n : told[i] \in Asked
    BY <1>0 DEF QuotaStates
  <2> QED BY <2>1 DEF Asked
<1>3. \A i \in 1..(n + 1) : told'[i].token <= token'
  <2>1. ASSUME NEW i \in 1..n PROVE told'[i].token <= token'
    <3>1. told'[i].token = told[i].token /\ told[i].token <= token
      BY <1>0 DEF Accepted
    <3>2. told[i].token \in {0, 1, 2}
      BY <1>2
    <3> QED BY ONLY <1>1, <3>1, <3>2
  <2>2. told'[n + 1].token <= token'
    BY ONLY <1>0, <1>1
  <2> QED BY <1>0, <2>1, <2>2
<1>4. ASSUME asking' \notin {"token again", "last port", "done"},
             NEW i \in 1..(n + 1), told'[i].answer = "AUTH_EXPIRED"
      PROVE  told'[i].token # token'
  <2>1. /\ answer # "AUTH_EXPIRED" /\ asking # "last port"
        /\ asking = "token again" => answer = "OK"
    BY <1>4 DEF Step, Sound, MayAsk
  <2>2. i \in 1..n /\ told'[i] = told[i] /\ told[i].answer = "AUTH_EXPIRED"
    <3>1. i # n + 1
      BY <1>0, <1>4, <2>1
    <3>2. i \in 1..n
      BY ONLY <1>0, <3>1, i \in 1..(n + 1)
    <3> QED BY <1>0, <1>4, <3>2
  <2>3. told[i].token <= token /\ told[i].token \in {0, 1, 2}
    BY <1>2, <2>2 DEF Accepted
  <2>4. CASE asking = "token again"
    <3>1. token' = token + 1
      BY <1>1, <2>1, <2>4 DEF Tokens
    <3> QED BY ONLY <1>1, <2>2, <2>3, <3>1
  <2>5. CASE asking # "token again"
    <3>1. told[i].token # token
      BY <2>1, <2>2, <2>5 DEF Accepted
    <3> QED BY ONLY <1>1, <2>2, <2>3, <3>1
  <2> QED BY <2>4, <2>5
<1>5. ASSUME NEW i \in 1..(n + 1), NEW j \in 1..(n + 1), i < j,
             told'[i].answer = "AUTH_EXPIRED", Serves(told'[j].source)
      PROVE  told'[j].token # told'[i].token
  <2>1. i \in 1..n /\ told'[i] = told[i]
    <3>1. i \in 1..n
      BY ONLY <1>0, i < j, i \in 1..(n + 1), j \in 1..(n + 1)
    <3> QED BY <1>0, <3>1
  <2>2. CASE j \in 1..n
    BY <1>0, <1>5, <2>1, <2>2 DEF Accepted
  <2>3. CASE j = n + 1
    <3>1. Serves(asking) /\ told'[j].token = token
      BY <1>0, <1>5, <2>3
    <3>2. asking \notin {"token again", "last port", "done"}
      BY <3>1 DEF Tokens
    <3> QED BY <1>5, <2>1, <3>1, <3>2 DEF Accepted
  <2> QED BY <1>0, <2>2, <2>3
<1> HIDE DEF n
<1> QED BY <1>0, <1>3, <1>4, <1>5 DEF Accepted

LEMMA StepKeepsUnmasked ==
  ASSUME QuotaStates, Unmasked, provider' = provider,
         asking \in SourcesOf(provider), asking \notin {"idle", "done"},
         NEW answer, NEW next, Step(answer, next)
  PROVE  Unmasked'
<1> DEFINE n == Len(told)
<1>0. /\ n \in Nat /\ Len(told') = n + 1 /\ \A i \in 1..n : told'[i] = told[i]
      /\ told'[n + 1].source = asking /\ told'[n + 1].answer = answer
  BY ToldAfter
<1>1. result.kind = "none" /\ asking # "done"
  BY KindsOf DEF QuotaStates
<1>2. provider \in LocalRecords => \A i \in 1..n : told[i].answer \notin Signals
  BY <1>1 DEF Unmasked
<1>3. result'.kind = "estimate" =>
        provider \in LocalRecords /\ asking = "snapshot" /\ answer \notin Signals
  BY <1>1 DEF Step, Sound
<1>4. provider \in LocalRecords /\ asking' # "done" => answer \notin Signals
  BY DEF Step, Sound, MayAsk
<1>5. provider \in LocalRecords /\ answer \notin Signals =>
        \A i \in 1..(n + 1) : told'[i].answer \notin Signals
  BY <1>0, <1>2
<1>6. FailedBefore => FailedBefore'
  BY <1>0 DEF FailedBefore
<1>7. provider # "qoder" /\ (asking' = "snapshot" \/ result'.kind = "estimate") => FailedBefore'
  <2>1. SUFFICES ASSUME provider # "qoder", asking' = "snapshot" \/ result'.kind = "estimate"
                 PROVE  FailedBefore'
    OBVIOUS
  <2>2. CASE result'.kind = "estimate"
    BY <1>3, <1>6, <2>1, <2>2 DEF Unmasked
  <2>3. CASE asking' = "snapshot"
    <3>1. "snapshot" \in SourcesOf(provider) /\ MayAsk(asking, answer, "snapshot")
      BY <2>3 DEF Step, Sound, MayAsk
    <3>2. provider \in LocalRecords
      BY <3>1, RecordsAreLocal DEF QuotaStates
    <3>3. \/ asking = "credential" /\ answer \notin {"valid", "expired"}
          \/ asking \notin Looks /\ answer # "OK"
      BY <2>1, <3>1, <3>2 DEF MayAsk
    <3> QED BY <1>0, <3>3 DEF FailedBefore
  <2> QED BY <2>1, <2>2, <2>3
<1>8. provider = "cursor" /\ told'[1].answer \in Tokenless
        => asking' = "done" /\ result'.kind \in {"fail", "nothing"}
  <2>1. SUFFICES ASSUME provider = "cursor", told'[1].answer \in Tokenless
                 PROVE  asking' = "done" /\ result'.kind \in {"fail", "nothing"}
    OBVIOUS
  <2>2. CASE n = 0
    <3>1. answer \in Tokenless /\ told = <<>>
      BY <1>0, <2>1, <2>2
    <3>2. asking \in {"credential", "api"} /\ asking \in {"credential", "snapshot"}
      BY <1>1, <2>1, <3>1 DEF Unmasked, SourcesOf, LocalRecords
    <3>3. ~MayAsk(asking, answer, next.source)
      <4>1. SUFFICES ASSUME NEW s, MayAsk(asking, answer, s) PROVE FALSE
        OBVIOUS
      <4>2. asking = "credential" /\ s \in Later(provider, "credential")
            /\ s \in {"credential", "api"}
        BY <2>1, <3>2, <4>1 DEF MayAsk, SourcesOf, LocalRecords
      <4>3. s = "api"
        BY <2>1, <4>2 DEF Later, RecordOf, First, Second, Third, Fourth, Fifth
      <4> QED
        BY <2>1, <3>1, <4>1, <4>2, <4>3 DEF MayAsk, Local, Looks, Commands, Given, Unlogged, Tokenless
    <3> QED BY <1>1, <2>1, <3>1, <3>2, <3>3 DEF Step, Sound, LocalRecords
  <2>3. CASE n # 0
    <3>1. told # <<>> /\ told[1].answer \in Tokenless
      BY <1>0, <2>1, <2>3
    <3> QED BY <1>1, <2>1, <3>1 DEF Unmasked
  <2> QED BY <2>2, <2>3
<1>9. told' # <<>>
  BY <1>0
<1> HIDE DEF n
<1> QED BY <1>0, <1>3, <1>4, <1>5, <1>7, <1>8, <1>9 DEF Unmasked

-----------------------------------------------------------------------------
(* The states, and the inductive invariant as a whole *)

LEMMA StepKeepsStates ==
  ASSUME QuotaStates, InOrder, Answered
  PROVE  QuotaStates'
<1>1. /\ asking \notin {"idle", "done"} /\ asking \in SourcesOf(provider)
      /\ provider' = provider /\ login' = login /\ refreshable' = refreshable
      /\ snapshot' = snapshot /\ now' = now /\ purpose' = purpose /\ kept' = kept
  BY AnsweredIsAStep DEF world
<1>2. PICK answer, next : Step(answer, next)
  BY AnsweredIsAStep
<1>3. token' \in {0, 1, 2}
  BY <1>1, <1>2, StepKeepsOrder
<1>4. told' \in Seq(Asked)
  BY <1>1, <1>2, ToldAfter
<1>5. asking' \in SourcesOf(provider') \cup {"done"}
  BY <1>1, <1>2 DEF Step, Sound, MayAsk
<1>6. IF asking' = "done" THEN result'.kind \in Ends ELSE result' = NoResult
  <2>1. result = NoResult
    BY <1>1 DEF QuotaStates
  <2>2. "done" \notin SourcesOf(provider)
    <3>1. "done" \notin AllSources
      BY DEF AllSources, First, Second, Third, Fourth, Fifth
    <3> QED BY <3>1, SourcesAreKnown DEF QuotaStates
  <2> QED BY <1>2, <2>1, <2>2 DEF Step, Sound, MayAsk, Ends
<1>7. asking' # "idle"
  <2>1. "idle" \notin SourcesOf(provider)
    <3>1. "idle" \notin AllSources
      BY DEF AllSources, First, Second, Third, Fourth, Fifth
    <3> QED BY <3>1, SourcesAreKnown DEF QuotaStates
  <2> QED BY <1>1, <1>5, <2>1
<1>8. login' \in Logins'
  BY <1>1 DEF QuotaStates, Logins
<1> QED BY <1>1, <1>3, <1>4, <1>5, <1>6, <1>7, <1>8 DEF QuotaStates

LEMMA LoginsStay ==
  ASSUME provider' = provider
  PROVE  Logins' = Logins
BY DEF Logins

\* What is kept is never newer than the clock.
LEMMA KeepsInTime ==
  ASSUME QuotaStates, Keep, QuotaBoundsAssumption
  PROVE  /\ kept' \in [collected : Nat, data : Nat]
         /\ kept'.data <= kept'.collected /\ kept'.collected <= now
<1>1. now \in Nat /\ snapshot \in Nat /\ snapshot <= now
  BY DEF QuotaStates, QuotaBoundsAssumption
<1>2. CASE result.kind = "live"
  BY <1>1, <1>2 DEF Keep
<1>3. CASE result.kind = "estimate"
  BY <1>1, <1>3 DEF Keep
<1>4. CASE result.kind \notin {"live", "estimate"}
  BY <1>4 DEF Keep, QuotaStates
<1> QED BY <1>2, <1>3, <1>4

\* Every step but an answer.
LEMMA OthersRest ==
  ASSUME QuotaStates, QuotaBoundsAssumption, QuotaNext \/ UNCHANGED quotaVars, ~Answered
  PROVE  provider' = provider /\ Rests /\ QuotaStates'
<1> USE DEF world, running
<1>0. MaxNow \in Nat /\ now \in Nat /\ snapshot \in Nat
  BY DEF QuotaBoundsAssumption, QuotaStates
<1>1. CASE LoginChanges
  BY <1>1, LoginsStay DEF LoginChanges, Rests, QuotaStates
<1>2. CASE SnapshotWritten
  BY <1>0, <1>2, LoginsStay DEF SnapshotWritten, Rests, QuotaStates
<1>3. CASE QuotaTick
  BY <1>0, <1>3, LoginsStay DEF QuotaTick, Rests, QuotaStates
<1>4. <<>> \in Seq(Asked)
  OBVIOUS
<1>5. CASE StartCollection
  <2>1. provider' = provider /\ Begun /\ UNCHANGED <<world, kept>> /\ purpose' = "collect"
        /\ result = NoResult
    BY <1>5 DEF StartCollection, Begun, QuotaStates
  <2>2. CASE SourceExists
    <3>1. asking' = FirstSource /\ result' = result
      BY <1>5, <2>2 DEF StartCollection
    <3>2. QuotaStates'
      BY <1>4, <2>1, <3>1, FirstIsKnown, LoginsStay DEF QuotaStates, Begun
    <3> QED BY <2>1, <3>1, <3>2 DEF Rests
  <2>3. CASE ~SourceExists
    <3>1. asking' = "done" /\ result' = Fail("SOURCE_UNAVAILABLE")
      BY <1>5, <2>3 DEF StartCollection
    <3>2. QuotaStates'
      BY <1>4, <2>1, <3>1, KindsOf, LoginsStay DEF QuotaStates, Begun, Ends
    <3> QED BY <2>1, <3>1, <3>2 DEF Rests
  <2> QED BY <2>2, <2>3
<1>6. CASE StartHealthCheck
  <2>1. provider' = provider /\ Begun /\ UNCHANGED <<world, kept>> /\ purpose' = "health"
        /\ provider \in HealthBySources /\ asking' = FirstSource /\ result' = result
        /\ result = NoResult
    BY <1>6 DEF StartHealthCheck, Begun, QuotaStates
  <2>2. QuotaStates'
    BY <1>4, <2>1, FirstIsKnown, LoginsStay DEF QuotaStates, Begun
  <2> QED BY <2>1, <2>2 DEF Rests
<1>7. CASE FinishCollection
  <2>1. provider' = provider /\ Begun /\ UNCHANGED world /\ purpose' = purpose
        /\ purpose = "collect" /\ asking' = "idle" /\ result' = NoResult /\ Keep
    BY <1>7 DEF FinishCollection, Begun
  <2>2. QuotaStates'
    BY <1>4, <2>1, KeepsInTime, LoginsStay DEF QuotaStates, Begun
  <2> QED BY <2>1, <2>2 DEF Rests
<1>8. CASE FinishHealthCheck
  <2>1. provider' = provider /\ Begun /\ UNCHANGED <<world, kept>> /\ purpose' = "collect"
        /\ asking' = "idle" /\ result' = NoResult
    BY <1>8 DEF FinishHealthCheck, Begun
  <2>2. QuotaStates'
    BY <1>4, <2>1, LoginsStay DEF QuotaStates, Begun
  <2> QED BY <2>1, <2>2 DEF Rests
<1>9. CASE UNCHANGED quotaVars
  BY <1>9, LoginsStay DEF quotaVars, Rests, QuotaStates
<1> QED BY <1>1, <1>2, <1>3, <1>5, <1>6, <1>7, <1>8, <1>9 DEF QuotaNext

LEMMA QuotaInvInitially == QuotaInit /\ QuotaBoundsAssumption => QuotaInv
<1> SUFFICES ASSUME QuotaInit, QuotaBoundsAssumption PROVE QuotaInv
  OBVIOUS
<1>1. told = <<>> /\ Len(told) = 0 /\ told \in Seq(Asked) /\ 1..Len(told) = {}
      /\ asking = "idle" /\ result = NoResult /\ token = 0
  BY DEF QuotaInit
<1>2. QuotaStates
  <2>1. refreshable \in BOOLEAN
    BY DEF QuotaInit
  <2>2. now \in 1..MaxNow /\ snapshot \in 0..now
    BY DEF QuotaInit, QuotaBoundsAssumption
  <2>3. /\ kept \in [collected : Nat, data : Nat]
        /\ kept.data <= kept.collected /\ kept.collected <= now
    BY DEF QuotaInit, NoReport
  <2> QED BY <1>1, <2>1, <2>2, <2>3 DEF QuotaInit, QuotaStates
<1>3. InOrder
  BY <1>1 DEF InOrder
<1>4. Logged /\ Accepted
  BY <1>1 DEF Logged, Accepted, Local
<1>5. Unmasked
  BY <1>1, KindsOf DEF Unmasked
<1> QED BY <1>2, <1>3, <1>4, <1>5 DEF QuotaInv

LEMMA QuotaInvIsInductive ==
  ASSUME QuotaInv, QuotaNext \/ UNCHANGED quotaVars
  PROVE  QuotaInv'
<1> USE DEF QuotaInv
<1>1. CASE Answered
  <2>1. asking \notin {"idle", "done"} /\ asking \in SourcesOf(provider) /\ provider' = provider
    BY <1>1, AnsweredIsAStep
  <2>2. PICK answer, next : Step(answer, next)
    BY <1>1, AnsweredIsAStep
  <2>3. QuotaStates'
    BY <1>1, StepKeepsStates
  <2>4. InOrder' /\ Logged'
    BY <2>1, <2>2, StepKeepsOrder, StepKeepsLogged
  <2>5. Accepted' /\ Unmasked'
    BY <2>1, <2>2, StepKeepsAccepted, StepKeepsUnmasked
  <2> QED BY <2>3, <2>4, <2>5
<1>2. CASE ~Answered
  <2>1. provider' = provider /\ Rests /\ QuotaStates'
    BY <1>2, OthersRest, QuotaBoundsAssumption
  <2> QED BY <2>1, RestsKeepsOrder, RestsKeepsHonest
<1> QED BY <1>1, <1>2

LEMMA QuotaInvHolds == QuotaSpec => []QuotaInv
<1>1. QuotaInv /\ [QuotaNext]_quotaVars => QuotaInv'
  BY QuotaInvIsInductive
<1> QED
  BY <1>1, QuotaInvInitially, QuotaBoundsAssumption, PTL DEF QuotaSpec

\* The sources of a quota are asked within the types and the bounds of the model,
\* for every set of adapters: no search asks more than seven sources or refreshes
\* a token more than twice, and none is left without its result (collect_quota).
THEOREM QuotaTypes == QuotaSpec => []QuotaTypeOK
<1>1. QuotaInv => QuotaTypeOK
  <2> SUFFICES ASSUME QuotaInv PROVE QuotaTypeOK
    OBVIOUS
  <2>1. QuotaStates /\ InOrder
    BY DEF QuotaInv
  <2>2. Len(told) <= 7 /\ Len(told) \in Nat
    <3>1. Len(told) \in Nat
      BY <2>1 DEF QuotaStates
    <3>2. CASE asking = "idle"
      BY <2>1, <3>2 DEF InOrder
    <3>3. CASE asking = "done"
      BY <2>1, <3>1, <3>3 DEF InOrder
    <3>4. CASE asking \notin {"idle", "done"}
      <4>1. Len(told) <= Rank(provider, asking)
        BY <2>1, <3>4 DEF InOrder
      <4>2. asking \in AllSources
        BY <2>1, <3>4, SourcesAreKnown DEF QuotaStates
      <4>3. Rank(provider, asking) \in {0, 1, 2, 3, 4, 5, 6}
        BY <4>2, RankTypes
      <4> QED BY ONLY <3>1, <4>1, <4>3
    <3> QED BY <3>1, <3>2, <3>3, <3>4
  <2>3. (asking = "done") <=> (result # NoResult)
    BY <2>1, KindsOf DEF QuotaStates, Ends
  <2>4. result.kind \in {"none", "live", "estimate", "nothing", "fail"}
    BY <2>1, KindsOf DEF QuotaStates, Ends
  <2>5. token \in 0..2
    BY <2>1 DEF QuotaStates
  <2>6. asking = "idle" => told = <<>> /\ purpose = "collect"
    BY <2>1 DEF QuotaStates, InOrder
  <2> QED BY <2>1, <2>2, <2>3, <2>4, <2>5, <2>6 DEF QuotaStates, QuotaTypeOK
<1> QED BY <1>1, QuotaInvHolds, PTL

LEMMA HonestySuffices ==
  ASSUME QuotaInv
  PROVE  CollectionIsHonest
<1> DEFINE n == Len(told)
<1>1. QuotaStates /\ InOrder /\ Logged /\ Accepted /\ Unmasked
  BY DEF QuotaInv
<1>2. told \in Seq(Asked) /\ n \in Nat /\ DOMAIN told = 1..n
  BY <1>1 DEF QuotaStates
<1>3. ToSet(told) = {told[i] : i \in 1..n}
  BY <1>2 DEF ToSet
<1>4. SignalNotMasked
  <2> SUFFICES ASSUME result.kind = "estimate", NEW s \in Services,
                      NEW a \in AnswerTo(s), a \in Signals
               PROVE  FALSE
    BY DEF SignalNotMasked
  <2>1. PICK t \in ToSet(told) : a = t.answer
    BY DEF AnswerTo
  <2>2. PICK i \in 1..n : t = told[i]
    BY <1>3
  <2> QED BY <1>1, <2>1, <2>2 DEF Unmasked
<1>5. RemoteOnlyWithLogin
  BY <1>1 DEF Logged, RemoteOnlyWithLogin, Local, Unlogged, Given
<1>6. NoRetryWithRejectedToken
  <2> SUFFICES ASSUME NEW i \in 1..n, NEW j \in 1..n, i < j, told[i].answer = "AUTH_EXPIRED",
                      told[j].source \in Services \ {"last port"}
               PROVE  told[j].token # told[i].token
    BY DEF NoRetryWithRejectedToken
  <2>1. told[j].source \notin Looks \cup Commands \cup Tokens \cup {"last port"}
    BY DEF Services
  <2> QED BY <1>1, <2>1 DEF Accepted
<1>7. HealthIsEarned
  <2> SUFFICES ASSUME asking = "done", purpose = "health"
               PROVE  (HealthState = "healthy") <=>
                        \/ result.kind \in {"live", "estimate"}
                        \/ provider = "kiro" /\ told[1].answer = "none"
    BY DEF HealthIsEarned
  <2>1. provider \in HealthBySources /\ result.kind \in Ends
    BY <1>1 DEF QuotaStates
  <2>2. ASSUME NEW missing, NEW nothing, NEW failed,
               missing # "healthy", nothing # "healthy", failed # "healthy"
        PROVE  (HealthWhen(missing, nothing, failed) = "healthy")
                 <=> result.kind \in {"live", "estimate"}
    BY <2>1, <2>2 DEF HealthWhen, Ends
  <2>3. CASE provider = "cursor"
    <3>1. told[1].answer \in Tokenless => result.kind \in {"fail", "nothing"}
      BY <1>1, <2>3 DEF Unmasked, InOrder
    <3> QED BY <2>1, <2>2, <2>3, <3>1 DEF HealthState, CursorHealth, Tokenless
  <2>4. CASE provider = "grok"
    <3>1. Fail("QUOTA_NOT_PUBLISHED").kind = "fail"
      BY KindsOf
    <3> QED BY <2>1, <2>2, <2>4, <3>1 DEF HealthState, GrokHealth
  <2>5. CASE provider = "kiro"
    BY <2>2, <2>5 DEF HealthState, KiroHealth
  <2>6. CASE provider = "ark_plan"
    BY <2>2, <2>6 DEF HealthState, ArkHealth
  <2>7. CASE provider = "devin"
    BY <2>2, <2>7 DEF HealthState, DevinHealth
  <2>8. CASE provider = "openrouter"
    BY <2>2, <2>8 DEF HealthState, OpenRouterHealth
  <2>9. CASE provider = "command_code"
    BY <2>2, <2>9 DEF HealthState, CommandCodeHealth
  <2>10. CASE provider = "qoder"
    <3>1. (IF SourceExists THEN "degraded" ELSE "not_configured") # "healthy"
      OBVIOUS
    <3> QED BY <2>2, <2>10, <3>1 DEF HealthState, QoderHealth
  <2>11. CASE provider = "antigravity"
    <3>1. Fail("SOURCE_REQUIRES_IDE").kind = "fail"
      BY KindsOf
    <3> QED BY <2>1, <2>2, <2>11, <3>1 DEF HealthState, AntigravityHealth
  <2>12. CASE provider = "ollama_local"
    BY <2>2, <2>12 DEF HealthState, OllamaHealth
  <2> QED
    BY <2>1, <2>3, <2>4, <2>5, <2>6, <2>7, <2>8, <2>9, <2>10, <2>11, <2>12 DEF HealthBySources
<1> QED BY <1>4, <1>5, <1>6, <1>7 DEF CollectionIsHonest

\* Whatever the sources answer and the user does meanwhile, no estimate covers a
\* signal, no service is asked without a credential, no rejected token is used
\* again, and a health check says "healthy" only for what a collection would have
\* stored: for every adapter (collect_quota and health_check of every adapter).
THEOREM EveryCollectionIsHonest == QuotaSpec => []CollectionIsHonest
BY QuotaInvHolds, HonestySuffices, PTL

\* A stored reading is never lost, and an older one replaces it only after a live
\* source has failed or could not be asked (persist_quota).
THEOREM OlderReadingsNeedAFailure == QuotaSpec => OlderOnlyAfterFailure
<1> DEFINE Better == /\ kept # NoReport => kept' # NoReport
                     /\ kept'.data < kept.data => LiveFailed \/ provider = "qoder"
<1>1. QuotaInv /\ [QuotaNext]_quotaVars => [Better]_kept
  <2> SUFFICES ASSUME QuotaInv, [QuotaNext]_quotaVars, kept' # kept PROVE Better
    OBVIOUS
  <2>1. QuotaStates /\ Unmasked
    BY DEF QuotaInv
  <2>2. Keep /\ asking = "done"
    <3>1. ~UNCHANGED quotaVars
      BY DEF quotaVars
    <3>2. ~Answered
      BY DEF Answered
    <3>3. ~LoginChanges /\ ~SnapshotWritten /\ ~QuotaTick
      BY DEF LoginChanges, SnapshotWritten, QuotaTick
    <3>4. ~StartCollection /\ ~StartHealthCheck /\ ~FinishHealthCheck
      BY DEF StartCollection, StartHealthCheck, FinishHealthCheck
    <3> QED BY <3>1, <3>2, <3>3, <3>4 DEF QuotaNext, FinishCollection
  <2>3. /\ now \in Nat /\ now > 0 /\ kept.data \in Nat /\ kept.collected \in Nat
        /\ kept.data <= kept.collected /\ kept.collected <= now
    BY <2>1, QuotaBoundsAssumption DEF QuotaStates
  <2>4. CASE result.kind = "live"
    <3>1. kept'.collected = now /\ kept'.data = now
      BY <2>2, <2>4 DEF Keep
    <3> QED BY <2>3, <3>1 DEF NoReport
  <2>5. CASE result.kind = "estimate"
    <3>1. kept'.collected = now
      BY <2>2, <2>5 DEF Keep
    <3>2. kept' # NoReport
      BY <2>3, <3>1 DEF NoReport
    <3>3. provider = "qoder" \/ FailedBefore
      BY <2>1, <2>5 DEF Unmasked
    <3>4. FailedBefore => LiveFailed
      <4>1. told \in Seq(Asked) /\ DOMAIN told = 1..Len(told)
        BY <2>1 DEF QuotaStates
      <4>2. \A i \in 1..Len(told) : told[i] \in ToSet(told)
        BY <4>1 DEF ToSet
      <4> QED BY <4>2 DEF FailedBefore, LiveFailed
    <3> QED BY <3>2, <3>3, <3>4
  <2>6. CASE result.kind \notin {"live", "estimate"}
    BY <2>2, <2>6 DEF Keep
  <2> QED BY <2>4, <2>5, <2>6
<1> QED BY <1>1, QuotaInvHolds, PTL DEF QuotaSpec, OlderOnlyAfterFailure

-----------------------------------------------------------------------------
(* Session counters: the states *)

Parsed     == [size : 1..MaxTurns, records : Seq(TurnRecord)]
Row        == [at : 1..MaxTurns, n : Nat]
TurnOf     == [n : TurnTokens, file : Sessions, place : 1..MaxTurns]

CounterStates ==
  /\ format \in Formats
  /\ sessions \in [Sessions -> Seq(TurnRecord)]
  /\ \A f \in Sessions : Len(sessions[f]) <= Len(turns)
  /\ gone \subseteq Sessions /\ \A f \in gone : sessions[f] = <<>>
  /\ turns \in Seq(TurnOf) /\ Len(turns) <= MaxTurns
  /\ restarted \in BOOLEAN /\ settled \in BOOLEAN
  /\ DOMAIN cache \subseteq Sessions /\ cache \in [DOMAIN cache -> Parsed]
  /\ DOMAIN got \subseteq Sessions /\ got \in [DOMAIN got -> Seq(TurnRecord)]
  /\ todo = Idle \/ todo \subseteq Sessions
  /\ opened = NoFile \/ (Codex /\ opened \in [file : Sessions, size : 1..MaxTurns])
  /\ rows \subseteq Row

\* A file only grows, until it is deleted: what was seen of it is its beginning.
Beginning(r, s) == Len(r) <= Len(s) /\ \A i \in 1..Len(r) : r[i] = s[i]

SeenIsBeginning ==
  /\ \A f \in DOMAIN cache : f \notin gone =>
       cache[f].size <= Len(cache[f].records) /\ Beginning(cache[f].records, sessions[f])
  /\ opened # NoFile /\ opened.file \notin gone => opened.size <= Len(sessions[opened.file])

\* Unless they begin again, the totals of a session rise with every record.
TotalsRise ==
  ~restarted =>
    \A f \in Sessions : \A i \in 2..Len(sessions[f]) :
      sessions[f][i].total > sessions[f][i - 1].total

\* Gemini is settled when the rows have all that can be read.
SettledIsRead ==
  format = "gemini" /\ settled => \A f \in Present : FileSamples(f) \subseteq rows

CounterInv == CounterStates /\ SeenIsBeginning /\ TotalsRise /\ SettledIsRead

\* The records of a file have positive or no use, at their own times.
LEMMA SamplesAreRows ==
  ASSUME NEW s \in Seq(TurnRecord), format \in Formats, SessionBoundsAssumption
  PROVE  SessionSamples(s) \subseteq Row
<1> SUFFICES ASSUME NEW i \in DOMAIN s, Usage(s, i) > 0
             PROVE  [at |-> s[i].at, n |-> Usage(s, i)] \in Row
  BY DEF SessionSamples
<1>1. i \in 1..Len(s) /\ s[i] \in TurnRecord /\ Len(s) \in Nat
  OBVIOUS
<1>2. s[i].at \in 1..MaxTurns /\ s[i].total \in Nat /\ s[i].turn \in Nat
  <2>1. s[i].at \in 1..MaxTurns /\ s[i].total \in Nat
        /\ (s[i].turn \in TurnTokens \/ s[i].turn = 0)
    BY <1>1 DEF TurnRecord
  <2>2. CASE s[i].turn \in TurnTokens
    BY <2>1, <2>2 DEF SessionBoundsAssumption
  <2>3. CASE s[i].turn = 0
    BY <2>1, <2>3
  <2> QED BY <2>1, <2>2, <2>3
<1>3. i # 1 => s[i - 1].total \in Nat
  <2> SUFFICES ASSUME i # 1 PROVE s[i - 1].total \in Nat
    OBVIOUS
  <2>1. i - 1 \in 1..Len(s)
    BY <1>1
  <2>2. s[i - 1] \in TurnRecord
    BY <2>1
  <2> QED BY <2>2 DEF TurnRecord
<1>4. s[1].total \in Nat
  <2>1. 1 \in 1..Len(s)
    BY <1>1
  <2>2. s[1] \in TurnRecord
    BY <2>1
  <2> QED BY <2>2 DEF TurnRecord
<1>5. DeltaFromZero(s, i) \in Nat
  BY <1>2, <1>3, <1>4 DEF DeltaFromZero
<1>6. Usage(s, i) \in Nat
  BY <1>2, <1>5 DEF Usage, TurnUsage, CumulativeDelta, MessageDelta
<1> QED BY <1>2, <1>6 DEF Row

\* Records that are read from the end of a file are records of the file.
LEMMA TailOfFile ==
  ASSUME NEW s \in Seq(TurnRecord), MaxSize \in Nat
  PROVE  /\ Tail_(s) \in Seq(TurnRecord) /\ Len(Tail_(s)) \in Nat
         /\ \E k \in Nat : /\ Len(Tail_(s)) + k = Len(s)
                           /\ \A i \in 1..Len(Tail_(s)) : Tail_(s)[i] = s[i + k]
<1>1. CASE Len(s) > MaxSize
  <2> DEFINE k == Len(s) - MaxSize
  <2>1. Len(s) \in Nat /\ k \in Nat /\ k + 1 \in 1..(Len(s) + 1) /\ k + MaxSize = Len(s)
    BY <1>1
  <2>2. Tail_(s) = SubSeq(s, k + 1, Len(s))
    BY <1>1 DEF Tail_
  <2> HIDE DEF k
  <2>3. \A i \in (k + 1)..Len(s) : s[i] \in TurnRecord
    <3> SUFFICES ASSUME NEW i \in (k + 1)..Len(s) PROVE i \in 1..Len(s)
      OBVIOUS
    <3> QED BY <2>1
  <2> DEFINE t == SubSeq(s, k + 1, Len(s))
  <2>4. k + 1 \in Int /\ Len(s) \in Int
    BY <2>1
  <2>5. /\ t \in Seq(TurnRecord)
        /\ Len(t) = IF k + 1 <= Len(s) THEN Len(s) - (k + 1) + 1 ELSE 0
        /\ \A i \in 1..(Len(s) - (k + 1) + 1) : t[i] = s[(k + 1) + i - 1]
    BY <2>3, <2>4, SubSeqProperties
  <2> HIDE DEF t
  <2>6. Len(t) = Len(s) - k /\ Len(t) \in Nat /\ Len(t) + k = Len(s)
    BY <2>1, <2>5
  <2>7. ASSUME NEW i \in 1..Len(t) PROVE t[i] = s[i + k]
    <3>1. i \in 1..(Len(s) - (k + 1) + 1) /\ (k + 1) + i - 1 = i + k
      BY <2>1, <2>6
    <3> QED BY <2>5, <3>1
  <2>8. Tail_(s) = t
    BY <2>2 DEF t
  <2> QED BY <2>1, <2>5, <2>6, <2>7, <2>8
<1>2. CASE ~(Len(s) > MaxSize)
  <2>1. Tail_(s) = s /\ Len(s) \in Nat
    BY <1>2 DEF Tail_
  <2>2. \A i \in 1..Len(s) : s[i] = s[i + 0]
    OBVIOUS
  <2> QED BY <2>1, <2>2
<1> QED BY <1>1, <1>2

-----------------------------------------------------------------------------
(* The steps of the tools and of the scans *)

LEMMA WriteKeeps ==
  ASSUME CounterInv, SessionBoundsAssumption,
         NEW f \in Sessions, NEW n \in TurnTokens, NEW again \in BOOLEAN, WriteTurn(f, n, again)
  PROVE  CounterInv'
<1> DEFINE s == sessions[f]
           last == IF s = <<>> \/ again THEN 0 ELSE s[Len(s)].total
           r == [at |-> Len(turns) + 1, total |-> last + n, turn |-> IF format = "codex" THEN n ELSE 0]
<1>1. CounterStates /\ SeenIsBeginning /\ TotalsRise
  BY DEF CounterInv
<1>2. /\ Len(turns) < MaxTurns /\ f \notin gone
      /\ sessions' = [sessions EXCEPT ![f] = Append(s, r)]
      /\ turns' = Append(turns, [n |-> n, file |-> f, place |-> Len(s) + 1])
      /\ restarted' = (restarted \/ again)
      /\ settled' = FALSE
      /\ UNCHANGED <<format, gone, cache, todo, opened, got, rows>>
  BY DEF WriteTurn, scanState
<1>3. s \in Seq(TurnRecord) /\ Len(s) \in Nat /\ turns \in Seq(TurnOf)
      /\ Len(turns) \in Nat /\ MaxTurns \in Nat /\ Len(s) <= Len(turns) /\ n \in Nat /\ n > 0
  BY <1>1 DEF CounterStates, SessionBoundsAssumption
<1>0. turns' \in Seq(TurnOf) /\ Len(turns') = Len(turns) + 1
  <2> DEFINE w == [n |-> n, file |-> f, place |-> Len(s) + 1]
  <2>1. Len(s) + 1 \in 1..MaxTurns
    BY <1>2, <1>3
  <2>2. w \in TurnOf
    BY <2>1 DEF TurnOf
  <2>3. turns' = Append(turns, w)
    BY <1>2
  <2> HIDE DEF w
  <2> QED BY <1>3, <2>2, <2>3
<1>4. last \in Nat
  <2>1. CASE s = <<>> \/ again
    BY <2>1
  <2>2. CASE ~(s = <<>> \/ again)
    <3>1. Len(s) \in 1..Len(s)
      BY <1>3, <2>2
    <3>2. s[Len(s)] \in TurnRecord
      BY <1>3, <3>1
    <3> QED BY <2>2, <3>2 DEF TurnRecord
  <2> QED BY <2>1, <2>2
<1>5. r \in TurnRecord /\ r.total = last + n
  <2>1. Len(turns) + 1 \in 1..MaxTurns
    BY <1>2, <1>3
  <2>2. last + n \in Nat
    BY <1>3, <1>4
  <2>3. (IF format = "codex" THEN n ELSE 0) \in TurnTokens \cup {0}
    OBVIOUS
  <2> HIDE DEF last
  <2> QED BY <2>1, <2>2, <2>3 DEF TurnRecord
<1> HIDE DEF r
<1>6. /\ Append(s, r) \in Seq(TurnRecord) /\ Len(Append(s, r)) = Len(s) + 1
      /\ \A i \in 1..Len(s) : Append(s, r)[i] = s[i]
      /\ Append(s, r)[Len(s) + 1] = r
  BY <1>3, <1>5
<1>7. sessions \in [Sessions -> Seq(TurnRecord)]
  BY <1>1 DEF CounterStates
<1>8. /\ sessions' \in [Sessions -> Seq(TurnRecord)] /\ sessions'[f] = Append(s, r)
      /\ \A g \in Sessions \ {f} : sessions'[g] = sessions[g]
  BY <1>2, <1>6, <1>7
<1> HIDE DEF s, last
<1>9. \A g \in Sessions : Len(sessions'[g]) <= Len(turns')
  <2>1. Len(sessions'[f]) <= Len(turns')
    BY <1>2, <1>3, <1>6, <1>8
  <2>2. ASSUME NEW g \in Sessions \ {f} PROVE Len(sessions'[g]) <= Len(turns')
    <3>1. sessions'[g] = sessions[g] /\ Len(sessions[g]) <= Len(turns) /\ Len(sessions[g]) \in Nat
      BY <1>1, <1>7, <1>8 DEF CounterStates
    <3> QED BY <1>2, <1>3, <3>1
  <2> QED BY <2>1, <2>2
<1>10. CounterStates'
  <2>1. \A g \in gone' : sessions'[g] = <<>>
    BY <1>1, <1>2, <1>8 DEF CounterStates
  <2>2. turns' \in Seq(TurnOf) /\ Len(turns') <= MaxTurns
    BY <1>2, <1>3, <1>0
  <2>3. restarted' \in BOOLEAN /\ settled' \in BOOLEAN
    BY <1>2
  <2> QED BY <1>1, <1>2, <1>8, <1>9, <2>1, <2>2, <2>3 DEF CounterStates, Codex
<1>11. SeenIsBeginning'
  <2>1. ASSUME NEW b, Beginning(b, s), Len(b) \in Nat PROVE Beginning(b, Append(s, r))
    BY <1>3, <1>6, <2>1 DEF Beginning
  <2>2. ASSUME NEW g \in DOMAIN cache', g \notin gone'
        PROVE  cache'[g].size <= Len(cache'[g].records) /\ Beginning(cache'[g].records, sessions'[g])
    <3>1. /\ cache[g].size <= Len(cache[g].records) /\ Beginning(cache[g].records, sessions[g])
          /\ g \in Sessions /\ cache[g] \in Parsed
      BY <1>1, <1>2, <2>2 DEF SeenIsBeginning, CounterStates
    <3>2. Len(cache[g].records) \in Nat
      BY <3>1 DEF Parsed
    <3>3. CASE g = f
      BY <1>2, <1>8, <2>1, <3>1, <3>2, <3>3 DEF s
    <3>4. CASE g # f
      BY <1>2, <1>8, <3>1, <3>4
    <3> QED BY <3>3, <3>4
  <2>3. ASSUME opened' # NoFile, opened'.file \notin gone'
        PROVE  opened'.size <= Len(sessions'[opened'.file])
    <3>1. /\ opened' = opened /\ opened.size <= Len(sessions[opened.file])
          /\ opened.file \in Sessions /\ opened.size \in Nat
      BY <1>1, <1>2, <2>3 DEF SeenIsBeginning, CounterStates
    <3>2. CASE opened.file = f
      BY <1>3, <1>6, <1>8, <3>1, <3>2 DEF s
    <3>3. CASE opened.file # f
      BY <1>8, <3>1, <3>3
    <3> QED BY <3>2, <3>3
  <2> QED BY <2>2, <2>3 DEF SeenIsBeginning
<1>12. TotalsRise'
  <2> SUFFICES ASSUME ~restarted', NEW g \in Sessions, NEW i \in 2..Len(sessions'[g])
               PROVE  sessions'[g][i].total > sessions'[g][i - 1].total
    BY DEF TotalsRise
  <2>1. ~restarted /\ ~again
    BY <1>2
  <2>2. CASE g # f
    BY <1>1, <1>8, <2>1, <2>2 DEF TotalsRise
  <2>3. CASE g = f /\ i \in 2..Len(s)
    <3>1. i \in 1..Len(s) /\ i - 1 \in 1..Len(s)
      BY <1>3, <2>3
    <3>2. sessions'[f][i] = s[i] /\ sessions'[f][i - 1] = s[i - 1]
      BY <1>6, <1>8, <3>1
    <3> QED BY <1>1, <2>1, <2>3, <3>2 DEF TotalsRise, s
  <2>4. CASE g = f /\ i \notin 2..Len(s)
    <3>1. i = Len(s) + 1 /\ Len(s) \in 1..Len(s) /\ i - 1 = Len(s)
      BY <1>3, <1>6, <1>8, <2>4
    <3>2. sessions'[f][i] = r /\ sessions'[f][i - 1] = s[Len(s)]
      BY <1>6, <1>8, <3>1
    <3>3. s # <<>> /\ last = s[Len(s)].total
      BY <2>1, <3>1 DEF last
    <3>4. last + n > last
      BY <1>3, <1>4
    <3> QED BY <1>5, <2>4, <3>2, <3>3, <3>4
  <2> QED BY <2>2, <2>3, <2>4
<1>13. SettledIsRead'
  BY <1>2 DEF SettledIsRead
<1> QED BY <1>10, <1>11, <1>12, <1>13 DEF CounterInv

LEMMA DeleteKeeps ==
  ASSUME CounterInv, NEW f \in Sessions, DeleteSession(f)
  PROVE  CounterInv'
<1>1. CounterStates /\ SeenIsBeginning /\ TotalsRise
  BY DEF CounterInv
<1>2. /\ sessions' = [sessions EXCEPT ![f] = <<>>] /\ gone' = gone \cup {f} /\ settled' = FALSE
      /\ UNCHANGED <<format, turns, restarted, cache, todo, opened, got, rows>>
  BY DEF DeleteSession, scanState
<1>3. <<>> \in Seq(TurnRecord) /\ Len(<<>>) = 0
  OBVIOUS
<1>4. sessions \in [Sessions -> Seq(TurnRecord)] /\ Len(turns) \in Nat
  BY <1>1 DEF CounterStates
<1>5. /\ sessions' \in [Sessions -> Seq(TurnRecord)] /\ sessions'[f] = <<>>
      /\ \A g \in Sessions \ {f} : sessions'[g] = sessions[g]
  BY <1>2, <1>3, <1>4
<1>6. CounterStates'
  <2>1. \A g \in Sessions : Len(sessions'[g]) <= Len(turns')
    BY <1>1, <1>2, <1>3, <1>4, <1>5 DEF CounterStates
  <2>2. \A g \in gone' : sessions'[g] = <<>>
    BY <1>1, <1>2, <1>5 DEF CounterStates
  <2> QED BY <1>1, <1>2, <1>5, <2>1, <2>2 DEF CounterStates, Codex
<1>7. SeenIsBeginning'
  <2>1. opened' = opened /\ cache' = cache
    BY <1>2
  <2>2. \A g \in Sessions : g \notin gone' => g \notin gone /\ sessions'[g] = sessions[g]
    BY <1>2, <1>5
  <2>3. opened # NoFile => opened.file \in Sessions
    BY <1>1 DEF CounterStates
  <2>4. DOMAIN cache \subseteq Sessions
    BY <1>1 DEF CounterStates
  <2> QED BY <1>1, <2>1, <2>2, <2>3, <2>4 DEF SeenIsBeginning
<1>8. TotalsRise'
  <2> SUFFICES ASSUME ~restarted', NEW g \in Sessions, NEW i \in 2..Len(sessions'[g])
               PROVE  sessions'[g][i].total > sessions'[g][i - 1].total
    BY DEF TotalsRise
  <2>1. g # f
    BY <1>3, <1>5
  <2> QED BY <1>1, <1>2, <1>5, <2>1 DEF TotalsRise
<1>9. SettledIsRead'
  BY <1>2 DEF SettledIsRead
<1> QED BY <1>6, <1>7, <1>8, <1>9 DEF CounterInv

\* The steps of a scan of Codex leave the tools' side alone.
LEMMA CodexScanKeeps ==
  ASSUME CounterInv, SessionBoundsAssumption,
         UNCHANGED <<format, sessions, gone, turns, restarted>>, Codex,
         CounterStates', SeenIsBeginning'
  PROVE  CounterInv'
<1>1. TotalsRise'
  BY DEF CounterInv, TotalsRise
<1>2. SettledIsRead'
  BY DEF SettledIsRead, Codex
<1> QED BY <1>1, <1>2 DEF CounterInv

LEMMA BeginScanKeeps ==
  ASSUME CounterInv, SessionBoundsAssumption, BeginScan
  PROVE  CounterInv'
<1>1. /\ CounterStates /\ SeenIsBeginning /\ Codex
      /\ UNCHANGED <<format, sessions, gone, turns, restarted, opened, rows>>
      /\ todo' = Present /\ got' = <<>> /\ settled' = TRUE
      /\ cache' = [x \in DOMAIN cache \cap Present |-> cache[x]]
  BY DEF CounterInv, BeginScan, Restrict
<1>2. DOMAIN cache' \subseteq DOMAIN cache /\ \A f \in DOMAIN cache' : cache'[f] = cache[f]
  BY <1>1
<1>3. cache' \in [DOMAIN cache' -> Parsed]
  BY <1>1, <1>2 DEF CounterStates, Codex
<1>4. DOMAIN got' = {} /\ got' \in [{} -> Seq(TurnRecord)]
  <2>1. <<>> \in Seq(TurnRecord) /\ DOMAIN <<>> = {}
    OBVIOUS
  <2> QED BY <1>1, <2>1
<1>5. CounterStates'
  BY <1>1, <1>2, <1>3, <1>4 DEF CounterStates, Codex, Present
<1>6. SeenIsBeginning'
  BY <1>1, <1>2 DEF SeenIsBeginning
<1> QED BY <1>1, <1>5, <1>6, CodexScanKeeps

LEMMA PutOne ==
  ASSUME NEW D, NEW T, NEW fun \in [D -> T], NEW f, NEW v \in T
  PROVE  /\ Put(fun, f, v) \in [D \cup {f} -> T]
         /\ Put(fun, f, v)[f] = v
         /\ \A g \in D \ {f} : Put(fun, f, v)[g] = fun[g]
BY DEF Put

LEMMA StatKeeps ==
  ASSUME CounterInv, SessionBoundsAssumption, NEW f \in Sessions, Stat(f)
  PROVE  CounterInv'
<1> DEFINE size == Len(sessions[f])
<1>1. /\ CounterStates /\ SeenIsBeginning /\ Codex /\ todo # Idle /\ opened = NoFile /\ f \in todo
      /\ UNCHANGED <<format, sessions, gone, turns, restarted, cache, rows, settled>>
      /\ todo' = todo \ {f}
  BY DEF CounterInv, Stat
<1>2. size \in Nat /\ size <= Len(turns) /\ Len(turns) \in 0..MaxTurns
  BY <1>1 DEF CounterStates
<1>3. \/ UNCHANGED <<opened, got>>
      \/ f \in DOMAIN cache /\ got' = Put(got, f, cache[f].records) /\ UNCHANGED opened
      \/ size # 0 /\ opened' = [file |-> f, size |-> size] /\ UNCHANGED got
  BY <1>2 DEF Stat
<1>4. todo' = Idle \/ todo' \subseteq Sessions
  BY <1>1 DEF CounterStates
<1>5. DOMAIN got' \subseteq Sessions /\ got' \in [DOMAIN got' -> Seq(TurnRecord)]
  <2>1. CASE UNCHANGED got
    BY <1>1, <2>1 DEF CounterStates
  <2>2. CASE f \in DOMAIN cache /\ got' = Put(got, f, cache[f].records)
    <3>1. cache[f] \in Parsed
      BY <1>1, <2>2 DEF CounterStates
    <3>2. cache[f].records \in Seq(TurnRecord)
      BY <3>1 DEF Parsed
    <3>3. got \in [DOMAIN got -> Seq(TurnRecord)] /\ DOMAIN got \subseteq Sessions
      BY <1>1 DEF CounterStates
    <3>4. got' \in [DOMAIN got \cup {f} -> Seq(TurnRecord)]
      BY <2>2, <3>2, <3>3, PutOne
    <3> QED BY <3>3, <3>4
  <2> QED BY <1>3, <2>1, <2>2
<1>6. /\ opened' = NoFile \/ opened' \in [file : Sessions, size : 1..MaxTurns]
      /\ opened' # NoFile => opened' = [file |-> f, size |-> size]
  <2>1. CASE UNCHANGED opened
    BY <1>1, <2>1
  <2>2. CASE size # 0 /\ opened' = [file |-> f, size |-> size]
    <3>1. size \in 1..MaxTurns
      BY <1>2, <2>2
    <3> HIDE DEF size
    <3> QED BY <2>2, <3>1
  <2> QED BY <1>3, <2>1, <2>2
<1>7. CounterStates'
  BY <1>1, <1>4, <1>5, <1>6 DEF CounterStates, Codex
<1>8. SeenIsBeginning'
  <2>1. opened' # NoFile => opened'.size = size /\ opened'.file = f
    BY <1>6
  <2>2. opened' # NoFile => opened'.size <= Len(sessions'[opened'.file])
    BY <1>1, <1>2, <2>1
  <2> QED BY <1>1, <2>2 DEF SeenIsBeginning
<1> QED BY <1>1, <1>7, <1>8, CodexScanKeeps

LEMMA ReadKeeps ==
  ASSUME CounterInv, SessionBoundsAssumption, NEW ok \in BOOLEAN, Read(ok)
  PROVE  CounterInv'
<1> DEFINE f == opened.file
           s == sessions[f]
<1>1. /\ CounterStates /\ SeenIsBeginning /\ opened # NoFile /\ opened' = NoFile
      /\ UNCHANGED <<format, sessions, gone, turns, restarted, todo, rows>>
  BY DEF CounterInv, Read
<1>0. Codex
  BY <1>1 DEF CounterStates
<1>2. f \in Sessions /\ opened.size \in 1..MaxTurns /\ s \in Seq(TurnRecord) /\ Len(s) \in Nat
  BY <1>1 DEF CounterStates
<1>3. \/ /\ s # <<>> /\ settled' = settled
         /\ cache' = Put(cache, f, [size |-> opened.size, records |-> s])
         /\ got' = Put(got, f, s)
      \/ settled' = FALSE /\ UNCHANGED <<cache, got>>
  BY DEF Read
<1>4. CASE settled' = FALSE /\ UNCHANGED <<cache, got>>
  <2>1. CounterStates'
    BY <1>1, <1>4 DEF CounterStates
  <2>2. SeenIsBeginning'
    BY <1>1, <1>4 DEF SeenIsBeginning
  <2> QED BY <1>0, <1>1, <2>1, <2>2, CodexScanKeeps
<1>5. CASE /\ s # <<>> /\ settled' = settled
           /\ cache' = Put(cache, f, [size |-> opened.size, records |-> s])
           /\ got' = Put(got, f, s)
  <2> DEFINE p == [size |-> opened.size, records |-> s]
  <2>1. p \in Parsed /\ p.size = opened.size /\ p.records = s
    BY <1>2 DEF Parsed
  <2> HIDE DEF p
  <2>2. /\ cache \in [DOMAIN cache -> Parsed] /\ DOMAIN cache \subseteq Sessions
        /\ got \in [DOMAIN got -> Seq(TurnRecord)] /\ DOMAIN got \subseteq Sessions
    BY <1>1 DEF CounterStates
  <2>3. /\ cache' \in [DOMAIN cache \cup {f} -> Parsed] /\ cache'[f] = p
        /\ \A g \in DOMAIN cache \ {f} : cache'[g] = cache[g]
    <3>1. cache' = Put(cache, f, p)
      BY <1>5 DEF p
    <3>2. /\ Put(cache, f, p) \in [DOMAIN cache \cup {f} -> Parsed] /\ Put(cache, f, p)[f] = p
          /\ \A g \in DOMAIN cache \ {f} : Put(cache, f, p)[g] = cache[g]
      BY <2>1, <2>2 DEF Put
    <3> QED BY <3>1, <3>2
  <2>4. got' \in [DOMAIN got \cup {f} -> Seq(TurnRecord)]
    BY <1>2, <1>5, <2>2, PutOne
  <2>5. /\ DOMAIN cache' \subseteq Sessions /\ cache' \in [DOMAIN cache' -> Parsed]
        /\ DOMAIN got' \subseteq Sessions /\ got' \in [DOMAIN got' -> Seq(TurnRecord)]
    BY <1>2, <2>2, <2>3, <2>4
  <2>6. CounterStates'
    BY <1>1, <1>5, <2>5 DEF CounterStates
  <2>7. f \notin gone
    BY <1>1, <1>5 DEF CounterStates
  <2>8. p.size <= Len(p.records) /\ Beginning(p.records, s)
    <3>1. opened.size <= Len(s)
      BY <1>1, <2>7 DEF SeenIsBeginning
    <3> QED BY <1>2, <2>1, <3>1 DEF Beginning
  <2>9. SeenIsBeginning'
    <3>1. ASSUME NEW g \in DOMAIN cache', g \notin gone'
          PROVE  cache'[g].size <= Len(cache'[g].records)
                 /\ Beginning(cache'[g].records, sessions'[g])
      <4>1. CASE g = f
        BY <1>1, <2>3, <2>8, <4>1
      <4>2. CASE g # f
        BY <1>1, <2>3, <3>1, <4>2 DEF SeenIsBeginning
      <4> QED BY <4>1, <4>2
    <3> QED BY <1>1, <3>1 DEF SeenIsBeginning
  <2> QED BY <1>0, <1>1, <2>6, <2>9, CodexScanKeeps
<1> QED BY <1>3, <1>4, <1>5

LEMMA EndScanKeeps ==
  ASSUME CounterInv, SessionBoundsAssumption, EndScan
  PROVE  CounterInv'
<1>1. /\ CounterStates /\ SeenIsBeginning /\ Codex /\ todo' = Idle
      /\ UNCHANGED <<format, sessions, gone, turns, restarted, cache, opened, got, settled>>
  BY DEF CounterInv, EndScan
<1>2. rows' \subseteq Row
  <2>1. UNION {SessionSamples(got[f]) : f \in DOMAIN got} \subseteq Row
    <3> SUFFICES ASSUME NEW f \in DOMAIN got PROVE SessionSamples(got[f]) \subseteq Row
      OBVIOUS
    <3>1. got[f] \in Seq(TurnRecord)
      BY <1>1 DEF CounterStates
    <3> QED BY <1>1, <3>1, SamplesAreRows DEF CounterStates
  <2> QED BY <1>1, <2>1 DEF CounterStates, EndScan
<1>3. CounterStates'
  BY <1>1, <1>2 DEF CounterStates, Codex
<1>4. SeenIsBeginning'
  BY <1>1 DEF SeenIsBeginning
<1> QED BY <1>1, <1>3, <1>4, CodexScanKeeps

LEMMA ScanGeminiKeeps ==
  ASSUME CounterInv, SessionBoundsAssumption, NEW unread \in SUBSET Sessions, ScanGemini(unread)
  PROVE  CounterInv'
<1> DEFINE took == Transcripts(Present \ unread)
<1>1. /\ CounterStates /\ SeenIsBeginning /\ TotalsRise /\ format = "gemini"
      /\ UNCHANGED <<format, sessions, gone, turns, restarted, cache, todo, opened, got>>
      /\ rows' = rows \cup took /\ settled' = (took = UNION {FileSamples(f) : f \in Present})
  BY DEF CounterInv, ScanGemini, scanState
<1>2. took \subseteq Row
  <2>1. took \subseteq UNION {FileSamples(f) : f \in Present}
    BY DEF Transcripts
  <2>2. ASSUME NEW f \in Present PROVE FileSamples(f) \subseteq Row
    <3>1. sessions[f] \in Seq(TurnRecord)
      BY <1>1 DEF CounterStates, Present
    <3>2. Tail_(sessions[f]) \in Seq(TurnRecord)
      BY <3>1, TailOfFile DEF SessionBoundsAssumption
    <3> QED BY <1>1, <3>2, SamplesAreRows DEF FileSamples, CounterStates
  <2> QED BY <2>1, <2>2
<1>3. CounterStates'
  BY <1>1, <1>2 DEF CounterStates, Codex
<1>4. SeenIsBeginning'
  BY <1>1 DEF SeenIsBeginning
<1>5. TotalsRise'
  BY <1>1 DEF TotalsRise
<1>6. SettledIsRead'
  <2>1. Present' = Present /\ \A f \in Present : FileSamples(f)' = FileSamples(f)
    BY <1>1 DEF Present, FileSamples, SessionSamples, Usage, Codex, Tail_
  <2> SUFFICES ASSUME settled', NEW f \in Present PROVE FileSamples(f)' \subseteq rows'
    BY <2>1 DEF SettledIsRead
  <2>2. FileSamples(f) \subseteq took
    BY <1>1
  <2> QED BY <1>1, <2>1, <2>2
<1> QED BY <1>3, <1>4, <1>5, <1>6 DEF CounterInv

LEMMA CounterInvInitially == CounterInit => CounterInv
<1> SUFFICES ASSUME CounterInit PROVE CounterInv
  OBVIOUS
<1>1. <<>> \in Seq(TurnRecord) /\ Len(<<>>) = 0 /\ DOMAIN <<>> = {}
  OBVIOUS
<1>2. /\ sessions \in [Sessions -> Seq(TurnRecord)]
      /\ \A f \in Sessions : sessions[f] = <<>> /\ Len(sessions[f]) = 0
  BY <1>1 DEF CounterInit
<1>3. /\ DOMAIN cache = {} /\ cache \in [{} -> Parsed]
      /\ DOMAIN got = {} /\ got \in [{} -> Seq(TurnRecord)]
  BY <1>1 DEF CounterInit
<1>4. CounterStates
  <2>1. MaxTurns \in Nat
    BY SessionBoundsAssumption DEF SessionBoundsAssumption
  <2>2. /\ format \in Formats /\ gone = {} /\ turns = <<>> /\ restarted = FALSE
        /\ settled = FALSE /\ todo = Idle /\ opened = NoFile /\ rows = {}
    BY DEF CounterInit
  <2>3. \A f \in Sessions : Len(sessions[f]) <= Len(turns)
    BY <1>2, <2>2
  <2>4. turns \in Seq(TurnOf) /\ Len(turns) <= MaxTurns
    BY <2>1, <2>2
  <2> QED BY <1>2, <1>3, <2>2, <2>3, <2>4 DEF CounterStates
<1>5. SeenIsBeginning
  BY <1>3 DEF CounterInit, SeenIsBeginning
<1>6. TotalsRise
  BY <1>2 DEF TotalsRise
<1>7. SettledIsRead
  BY DEF CounterInit, SettledIsRead
<1> QED BY <1>4, <1>5, <1>6, <1>7 DEF CounterInv

LEMMA CounterInvIsInductive ==
  ASSUME CounterInv, CounterNext \/ UNCHANGED counterVars
  PROVE  CounterInv'
<1> USE SessionBoundsAssumption
<1>1. CASE \E f \in Sessions : \E n \in TurnTokens, again \in BOOLEAN : WriteTurn(f, n, again)
  BY <1>1, WriteKeeps
<1>2. CASE \E f \in Sessions : DeleteSession(f)
  BY <1>2, DeleteKeeps
<1>3. CASE \E f \in Sessions : Stat(f)
  BY <1>3, StatKeeps
<1>4. CASE BeginScan
  BY <1>4, BeginScanKeeps
<1>5. CASE EndScan
  BY <1>5, EndScanKeeps
<1>6. CASE \E ok \in BOOLEAN : Read(ok)
  BY <1>6, ReadKeeps
<1>7. CASE \E unread \in SUBSET Sessions : ScanGemini(unread)
  BY <1>7, ScanGeminiKeeps
<1>8. CASE UNCHANGED counterVars
  <2>1. UNCHANGED <<format, sessions, gone, turns, restarted, cache, todo, opened, got, rows, settled>>
    BY <1>8 DEF counterVars, scanState
  <2>2. CounterStates' /\ SeenIsBeginning' /\ TotalsRise'
    BY <2>1 DEF CounterInv, CounterStates, SeenIsBeginning, TotalsRise, Codex
  <2>3. SettledIsRead'
    BY <2>1 DEF CounterInv, SettledIsRead, Present, FileSamples, SessionSamples, Usage, Codex
  <2> QED BY <2>2, <2>3 DEF CounterInv
<1> QED BY <1>1, <1>2, <1>3, <1>4, <1>5, <1>6, <1>7, <1>8 DEF CounterNext

LEMMA CounterInvHolds == CounterSpec => []CounterInv
<1>1. CounterInv /\ [CounterNext]_counterVars => CounterInv'
  BY CounterInvIsInductive
<1> QED BY <1>1, CounterInvInitially, PTL DEF CounterSpec

\* The files, the cache and the rows of Codex and Gemini stay within their types.
THEOREM CounterTypes == CounterSpec => []CounterTypeOK
<1>1. CounterInv => CounterTypeOK
  <2> SUFFICES ASSUME CounterStates PROVE CounterTypeOK
    BY DEF CounterInv
  <2>1. ASSUME NEW f \in Sessions, NEW i \in DOMAIN sessions[f]
        PROVE  sessions[f][i] \in TurnRecord
    BY DEF CounterStates
  <2>2. \A t \in DOMAIN turns : turns[t] \in TurnOf
    BY DEF CounterStates
  <2> QED BY <2>1, <2>2 DEF CounterStates, CounterTypeOK, Row, TurnOf
<1> QED BY <1>1, CounterInvHolds, PTL

\* "An unchanged (size, mtime) is a sound freshness check": although Codex looks at
\* the size first and at the content later, and the tool writes in between, a
\* cached session of the file's size is the file (scan_token_records).
THEOREM CacheIsSound == CounterSpec => []CacheIsTheFile
<1>1. CounterInv => CacheIsTheFile
  <2> SUFFICES ASSUME CounterStates, SeenIsBeginning, NEW f \in DOMAIN cache \cap Present,
                      cache[f].size = Len(sessions[f])
               PROVE  cache[f].records = sessions[f]
    BY DEF CounterInv, CacheIsTheFile
  <2>1. f \in Sessions /\ f \notin gone /\ cache[f] \in Parsed /\ sessions[f] \in Seq(TurnRecord)
    BY DEF CounterStates, Present
  <2> DEFINE r == cache[f].records
             s == sessions[f]
  <2>2. r \in Seq(TurnRecord) /\ Len(s) <= Len(r) /\ Beginning(r, s)
    BY <2>1 DEF Parsed, SeenIsBeginning
  <2> HIDE DEF r, s
  <2>3. s \in Seq(TurnRecord)
    BY <2>1 DEF s
  <2>4. Len(r) = Len(s) /\ \A i \in 1..Len(s) : r[i] = s[i]
    BY <2>2, <2>3 DEF Beginning
  <2>5. r = s
    BY <2>2, <2>3, <2>4
  <2> QED BY <2>5 DEF r, s
<1> QED BY <1>1, CounterInvHolds, PTL

\* After a scan that saw everything, Gemini has counted every message but the
\* first of what it read of each session (scan_transcripts, process_message).
THEOREM GeminiIsComplete == CounterSpec => []GeminiMissesNoTurn
<1>1. CounterInv => GeminiMissesNoTurn
  <2> SUFFICES ASSUME CounterInv, format = "gemini", settled, ~restarted, NEW f \in Present,
                      NEW i \in 2..Len(Tail_(sessions[f]))
               PROVE  \E e \in rows : e.at = Tail_(sessions[f])[i].at
    BY DEF GeminiMissesNoTurn
  <2> DEFINE s == sessions[f]
             t == Tail_(s)
  <2>1. CounterStates /\ TotalsRise /\ SettledIsRead
    BY DEF CounterInv
  <2>2. f \in Sessions /\ s \in Seq(TurnRecord)
    BY <2>1 DEF CounterStates, Present
  <2>3. t \in Seq(TurnRecord) /\ Len(t) \in Nat
    BY <2>2, TailOfFile, SessionBoundsAssumption DEF SessionBoundsAssumption
  <2>4. PICK k \in Nat : Len(t) + k = Len(s) /\ \A j \in 1..Len(t) : t[j] = s[j + k]
    BY <2>2, TailOfFile, SessionBoundsAssumption DEF SessionBoundsAssumption
  <2>5. i \in 1..Len(t) /\ i - 1 \in 1..Len(t) /\ i + k \in 2..Len(s) /\ (i - 1) + k = (i + k) - 1
    BY <2>3, <2>4
  <2>6. t[i].total > t[i - 1].total
    <3>1. s[i + k].total > s[(i + k) - 1].total
      BY <2>1, <2>2, <2>5 DEF TotalsRise
    <3> QED BY <2>4, <2>5, <3>1
  <2> HIDE DEF t, s
  <2>7. t[i].total \in Nat /\ t[i - 1].total \in Nat
    <3>1. t[i] \in TurnRecord /\ t[i - 1] \in TurnRecord
      BY <2>3, <2>5
    <3> QED BY <3>1 DEF TurnRecord
  <2>8. Usage(t, i) > 0
    <3>1. i # 1
      BY <2>3
    <3>2. Usage(t, i) = t[i].total - t[i - 1].total
      BY <2>6, <2>7, <3>1 DEF Usage, Codex, MessageDelta, DeltaFromZero
    <3> QED BY <2>6, <2>7, <3>2
  <2>9. [at |-> t[i].at, n |-> Usage(t, i)] \in SessionSamples(t)
    BY <2>3, <2>5, <2>8 DEF SessionSamples
  <2>10. [at |-> t[i].at, n |-> Usage(t, i)] \in rows
    BY <2>1, <2>9 DEF SettledIsRead, FileSamples, t, s
  <2> QED BY <2>10 DEF t, s
<1> QED BY <1>1, CounterInvHolds, PTL

-----------------------------------------------------------------------------
(* Session counters: what is counted *)

\* Record i of what was seen of a file is the turn that was taken at its time, in
\* its place; its total is the one before and the turn, or the turn alone where
\* the totals begin.
IsTurn(f, s, i) ==
  /\ s[i].at \in 1..Len(turns)
  /\ turns[s[i].at].file = f /\ turns[s[i].at].place = i
  /\ s[i].turn = IF format = "codex" THEN turns[s[i].at].n ELSE 0
  /\ \/ s[i].total = turns[s[i].at].n /\ (i = 1 \/ restarted)
     \/ i > 1 /\ s[i].total = s[i - 1].total + turns[s[i].at].n
AreTurns(f, s) == \A i \in 1..Len(s) : IsTurn(f, s, i)

SeenAreTurns ==
  /\ \A f \in Sessions : AreTurns(f, sessions[f])
  /\ \A f \in DOMAIN cache : AreTurns(f, cache[f].records)
  /\ \A f \in DOMAIN got : AreTurns(f, got[f])

\* A file that was not deleted has all its turns.
TurnsAreThere ==
  \A t \in 1..Len(turns) : turns[t].file \notin gone =>
    /\ turns[t].place \in 1..Len(sessions[turns[t].file])
    /\ sessions[turns[t].file][turns[t].place].at = t

\* A row is what its turn adds to the totals of its file, wherever the part that was
\* read begins.
RowsAreTurns ==
  /\ \A e \in rows : e.at \in 1..Len(turns)
  /\ TurnsAreCountedOnce
  /\ format = "gemini" => \A e \in rows : turns[e.at].file \notin gone =>
       e.n = MessageDelta(sessions[turns[e.at].file], turns[e.at].place)

\* As long as nothing is written, a scan has the files it has looked at as they are.
Small == {f \in Present : Len(sessions[f]) <= MaxSize}
ScanSoFar ==
  /\ Codex \/ todo = Idle
  /\ todo = Idle => opened = NoFile
  /\ settled /\ todo # Idle =>
       /\ \A f \in DOMAIN got : f \in Small /\ got[f] = sessions[f]
       /\ \A f \in Small \ todo : f \in DOMAIN got \/ opened.file = f
       /\ opened # NoFile => opened.file \in Small

LiveSamples == UNION {SessionSamples(sessions[f]) : f \in Small}
SettledRows == Codex /\ settled /\ todo = Idle => LiveSamples = {} \/ rows = LiveSamples

CountInv == SeenAreTurns /\ TurnsAreThere /\ RowsAreTurns /\ ScanSoFar /\ SettledRows

LEMMA NeverIdle ==
  ASSUME SessionBoundsAssumption, NEW T \in SUBSET Sessions
  PROVE  T # Idle
<1>1. 0 \notin Sessions
  BY DEF Sessions, SessionBoundsAssumption
<1> QED BY <1>1 DEF Idle

LEMMA NumbersOf ==
  ASSUME SessionBoundsAssumption, CounterStates, NEW s \in Seq(TurnRecord), NEW i \in 1..Len(s)
  PROVE  /\ s[i].total \in Nat /\ (i # 1 => s[i - 1].total \in Nat)
         /\ \A f : IsTurn(f, s, i) =>
              turns[s[i].at] \in TurnOf /\ turns[s[i].at].n \in Nat /\ turns[s[i].at].n > 0
<1>1. s[i].total \in Nat
  <2>1. s[i] \in TurnRecord
    OBVIOUS
  <2> QED BY <2>1 DEF TurnRecord
<1>2. ASSUME i # 1 PROVE s[i - 1].total \in Nat
  <2>1. i - 1 \in 1..Len(s)
    BY <1>2
  <2>2. s[i - 1] \in TurnRecord
    BY <2>1
  <2> QED BY <2>2 DEF TurnRecord
<1>3. ASSUME NEW f, IsTurn(f, s, i)
      PROVE turns[s[i].at] \in TurnOf /\ turns[s[i].at].n \in Nat /\ turns[s[i].at].n > 0
  <2>1. s[i].at \in 1..Len(turns) /\ turns \in Seq(TurnOf)
    BY <1>3 DEF IsTurn, CounterStates
  <2>2. turns[s[i].at] \in TurnOf
    BY <2>1
  <2>3. turns[s[i].at].n \in TurnTokens /\ TurnTokens \subseteq Nat \ {0}
    BY <2>2 DEF TurnOf, SessionBoundsAssumption
  <2>4. turns[s[i].at].n \in Nat \ {0}
    BY <2>3
  <2> QED BY <2>2, <2>4
<1> QED BY <1>1, <1>2, <1>3

\* A difference of totals is at most the turn, and is the turn unless totals began
\* again.
LEMMA DeltaOfTurn ==
  ASSUME SessionBoundsAssumption, CounterStates, NEW s \in Seq(TurnRecord), NEW i \in 1..Len(s),
         NEW f, IsTurn(f, s, i)
  PROVE  /\ DeltaFromZero(s, i) <= turns[s[i].at].n
         /\ MessageDelta(s, i) <= turns[s[i].at].n
         /\ TurnUsage(s, i) <= turns[s[i].at].n
         /\ ~restarted => TurnUsage(s, i) = turns[s[i].at].n
<1> DEFINE n == turns[s[i].at].n
<1>1. /\ s[i].total \in Nat /\ (i # 1 => s[i - 1].total \in Nat) /\ n \in Nat /\ n > 0
  BY NumbersOf
<1>2. /\ s[i].turn = IF format = "codex" THEN n ELSE 0
      /\ \/ s[i].total = n /\ (i = 1 \/ restarted)
         \/ i > 1 /\ s[i].total = s[i - 1].total + n
  BY DEF IsTurn
<1> HIDE DEF n
<1>3. DeltaFromZero(s, i) <= n /\ (~restarted => DeltaFromZero(s, i) = n)
  BY <1>1, <1>2 DEF DeltaFromZero
<1>4. MessageDelta(s, i) <= n
  BY <1>1, <1>3 DEF MessageDelta
<1>5. TurnUsage(s, i) <= n /\ (~restarted => TurnUsage(s, i) = n)
  BY <1>1, <1>2, <1>3 DEF TurnUsage, CumulativeDelta
<1> QED BY <1>3, <1>4, <1>5 DEF n

\* What Codex takes of a file is of the file's turns, each once.
LEMMA SamplesOfTurns ==
  ASSUME SessionBoundsAssumption, CounterStates, Codex, NEW f, NEW s \in Seq(TurnRecord),
         AreTurns(f, s), NEW e \in SessionSamples(s)
  PROVE  /\ e.at \in 1..Len(turns) /\ turns[e.at].file = f /\ e.n <= turns[e.at].n
         /\ turns[e.at].place \in 1..Len(s)
         /\ e = [at |-> s[turns[e.at].place].at, n |-> Usage(s, turns[e.at].place)]
<1>1. PICK i \in 1..Len(s) : e = [at |-> s[i].at, n |-> Usage(s, i)]
  BY DEF SessionSamples
<1>2. IsTurn(f, s, i)
  BY DEF AreTurns
<1>3. e.at \in 1..Len(turns) /\ turns[e.at].file = f /\ turns[e.at].place = i
  BY <1>1, <1>2 DEF IsTurn
<1>4. e.n <= turns[e.at].n
  BY <1>1, <1>2, DeltaOfTurn DEF Usage
<1> QED BY <1>1, <1>3, <1>4

\* What Gemini takes of the end of a file, too.
LEMMA SamplesOfTail ==
  ASSUME SessionBoundsAssumption, CounterStates, SeenAreTurns, format = "gemini",
         NEW f \in Sessions, NEW e \in FileSamples(f)
  PROVE  /\ e = [at |-> e.at, n |-> e.n]
         /\ e.at \in 1..Len(turns) /\ turns[e.at].file = f /\ e.n <= turns[e.at].n
         /\ e.n = MessageDelta(sessions[f], turns[e.at].place)
<1> DEFINE s == sessions[f]
           t == Tail_(s)
<1>1. s \in Seq(TurnRecord) /\ AreTurns(f, s) /\ MaxSize \in Nat
  BY DEF CounterStates, SeenAreTurns, SessionBoundsAssumption
<1>2. t \in Seq(TurnRecord) /\ Len(t) \in Nat
  BY <1>1, TailOfFile
<1>3. PICK k \in Nat : Len(t) + k = Len(s) /\ \A i \in 1..Len(t) : t[i] = s[i + k]
  BY <1>1, TailOfFile
<1>4. PICK j \in 1..Len(t) : e = [at |-> t[j].at, n |-> Usage(t, j)] /\ Usage(t, j) > 0
  BY <1>2 DEF FileSamples, SessionSamples
<1> HIDE DEF t, s
<1>5. Usage(t, j) = MessageDelta(t, j)
  BY DEF Usage, Codex
<1>6. j # 1
  BY <1>4, <1>5 DEF MessageDelta
<1>7. /\ j + k \in 1..Len(s) /\ j + k # 1 /\ j - 1 \in 1..Len(t)
      /\ (j - 1) + k = (j + k) - 1 /\ t[j] = s[j + k] /\ t[j - 1] = s[(j + k) - 1]
  <2>1. j + k \in 1..Len(s) /\ j + k # 1 /\ j - 1 \in 1..Len(t) /\ (j - 1) + k = (j + k) - 1
    BY <1>1, <1>2, <1>3, <1>6
  <2> QED BY <1>3, <2>1
<1>8. MessageDelta(t, j) = MessageDelta(s, j + k)
  BY <1>6, <1>7 DEF MessageDelta, DeltaFromZero
<1>9. IsTurn(f, s, j + k)
  BY <1>1, <1>7 DEF AreTurns
<1>10. e.at = s[j + k].at /\ e.n = MessageDelta(s, j + k)
  BY <1>4, <1>5, <1>7, <1>8
<1>11. e.at \in 1..Len(turns) /\ turns[e.at].file = f /\ turns[e.at].place = j + k
  BY <1>9, <1>10 DEF IsTurn
<1>12. e.n <= turns[e.at].n
  BY <1>1, <1>7, <1>9, <1>10, DeltaOfTurn
<1>13. e = [at |-> e.at, n |-> e.n]
  BY <1>4
<1> QED BY <1>10, <1>11, <1>12, <1>13 DEF s

\* What was seen stays what it is while turns are added.
LEMMA TurnsStay ==
  ASSUME NEW f, NEW s, AreTurns(f, s), Len(turns) \in Nat, Len(turns') \in Nat,
         Len(turns) <= Len(turns'), \A t \in 1..Len(turns) : turns'[t] = turns[t],
         restarted => restarted', format' = format
  PROVE  (AreTurns(f, s))'
<1> SUFFICES ASSUME NEW i \in 1..Len(s) PROVE (IsTurn(f, s, i))'
  BY DEF AreTurns
<1>1. IsTurn(f, s, i)
  BY DEF AreTurns
<1>2. s[i].at \in 1..Len(turns) /\ s[i].at \in 1..Len(turns') /\ turns'[s[i].at] = turns[s[i].at]
  BY <1>1 DEF IsTurn
<1> QED BY <1>1, <1>2 DEF IsTurn

LEMMA WriteCounts ==
  ASSUME CounterStates, CountInv, SessionBoundsAssumption,
         NEW f \in Sessions, NEW n \in TurnTokens, NEW again \in BOOLEAN, WriteTurn(f, n, again)
  PROVE  CountInv'
<1> DEFINE s == sessions[f]
           last == IF s = <<>> \/ again THEN 0 ELSE s[Len(s)].total
           r == [at |-> Len(turns) + 1, total |-> last + n, turn |-> IF format = "codex" THEN n ELSE 0]
           w == [n |-> n, file |-> f, place |-> Len(s) + 1]
           new == Append(s, r)
           N == Len(turns)
<1>1. SeenAreTurns /\ TurnsAreThere /\ RowsAreTurns /\ ScanSoFar
  BY DEF CountInv
<1>2. /\ f \notin gone /\ sessions' = [sessions EXCEPT ![f] = Append(s, r)]
      /\ turns' = Append(turns, w) /\ restarted' = (restarted \/ again) /\ settled' = FALSE
      /\ UNCHANGED <<format, gone, cache, todo, opened, got, rows>>
  BY DEF WriteTurn, scanState
<1>3. s \in Seq(TurnRecord) /\ Len(s) \in Nat /\ turns \in Seq(TurnOf) /\ N \in Nat
      /\ restarted \in BOOLEAN /\ sessions \in [Sessions -> Seq(TurnRecord)]
  BY DEF CounterStates
<1>4. /\ Len(turns') = N + 1 /\ turns'[N + 1] = w /\ w.n = n /\ w.file = f /\ w.place = Len(s) + 1
      /\ \A t \in 1..N : turns'[t] = turns[t]
  BY <1>2, <1>3
<1>5. r.at = N + 1 /\ r.total = last + n /\ r.turn = IF format = "codex" THEN n ELSE 0
  OBVIOUS
<1> HIDE DEF w, r
<1>6. /\ Len(new) = Len(s) + 1 /\ new[Len(s) + 1] = r
      /\ \A i \in 1..Len(s) : new[i] = s[i]
  BY <1>3
<1>7. sessions'[f] = new /\ \A g \in Sessions \ {f} : sessions'[g] = sessions[g]
  BY <1>2, <1>3
<1> HIDE DEF new
<1>8. ASSUME NEW g, NEW b, AreTurns(g, b) PROVE (AreTurns(g, b))'
  <2>1. Len(turns') \in Nat /\ Len(turns) <= Len(turns')
    BY <1>3, <1>4
  <2>2. restarted => restarted'
    BY <1>2
  <2> QED BY <1>2, <1>3, <1>4, <1>8, <2>1, <2>2, TurnsStay
<1>9. ASSUME NEW b, b = new PROVE (AreTurns(f, b))'
  <2> SUFFICES ASSUME NEW i \in 1..Len(b) PROVE (IsTurn(f, b, i))'
    BY DEF AreTurns
  <2>0. /\ Len(b) = Len(s) + 1 /\ b[Len(s) + 1] = r
        /\ \A j \in 1..Len(s) : b[j] = s[j]
    BY <1>6, <1>9
  <2>1. CASE i # Len(s) + 1
    <3>1. i \in 1..Len(s) /\ b[i] = s[i] /\ (i > 1 => b[i - 1] = s[i - 1])
      BY <1>3, <2>0, <2>1
    <3>2. AreTurns(f, s)
      BY <1>1 DEF SeenAreTurns
    <3>3. IsTurn(f, s, i)
      BY <3>1, <3>2 DEF AreTurns
    <3>4. s[i].at \in 1..N /\ s[i].at \in 1..Len(turns') /\ turns'[s[i].at] = turns[s[i].at]
      BY <1>3, <1>4, <3>3 DEF IsTurn
    <3> QED BY <1>2, <3>1, <3>3, <3>4 DEF IsTurn
  <2>2. CASE i = Len(s) + 1
    <3>1. b[i] = r /\ r.at \in 1..Len(turns') /\ turns'[r.at] = w
      BY <1>3, <1>4, <1>5, <2>0, <2>2
    <3>0. n \in Nat
      BY DEF SessionBoundsAssumption
    <3>2. \/ r.total = n /\ (i = 1 \/ restarted')
          \/ i > 1 /\ r.total = b[i - 1].total + n
      <4>1. CASE s = <<>>
        <5>1. last = 0 /\ Len(s) = 0
          BY <4>1
        <5>2. i = 1 /\ last + n = n
          BY <2>2, <3>0, <5>1
        <5> QED BY <1>5, <5>2
      <4>2. CASE again
        <5>1. last = 0 /\ restarted'
          BY <1>2, <4>2
        <5>2. last + n = n
          BY <3>0, <5>1
        <5> QED BY <1>5, <5>1, <5>2
      <4>3. CASE s # <<>> /\ ~again
        <5>1. last = s[Len(s)].total /\ i > 1 /\ i - 1 = Len(s) /\ Len(s) \in 1..Len(s)
          BY <1>3, <2>2, <4>3 DEF last
        <5>2. b[i - 1] = s[Len(s)]
          BY <2>0, <5>1
        <5> QED BY <1>5, <5>1, <5>2
      <4> QED BY <4>1, <4>2, <4>3
    <3> QED BY <1>2, <1>4, <1>5, <2>2, <3>1, <3>2 DEF IsTurn
  <2> QED BY <2>1, <2>2
<1>10. SeenAreTurns'
  <2>1. \A g \in Sessions \ {f} : (AreTurns(g, sessions[g]))'
    BY <1>1, <1>7, <1>8 DEF SeenAreTurns
  <2>2. (AreTurns(f, sessions[f]))'
    BY <1>7, <1>9
  <2>3. \A g \in DOMAIN cache' : (AreTurns(g, cache[g].records))'
    BY <1>1, <1>2, <1>8 DEF SeenAreTurns
  <2>4. \A g \in DOMAIN got' : (AreTurns(g, got[g]))'
    BY <1>1, <1>2, <1>8 DEF SeenAreTurns
  <2> QED BY <2>1, <2>2, <2>3, <2>4 DEF SeenAreTurns
<1> HIDE DEF s, last
<1>a. ASSUME NEW i \in 1..Len(s) PROVE i \in 1..Len(new) /\ new[i].at = s[i].at
                                       /\ MessageDelta(new, i) = MessageDelta(s, i)
  <2>1. i \in 1..Len(new) /\ new[i] = s[i] /\ (i # 1 => new[i - 1] = s[i - 1])
    BY <1>3, <1>6
  <2> QED BY <2>1 DEF MessageDelta, DeltaFromZero
<1>b. ASSUME NEW t \in 1..N, turns[t].file \notin gone
      PROVE  LET g == turns[t].file
                 i == turns[t].place
             IN /\ i \in 1..Len(sessions'[g]) /\ sessions'[g][i].at = t
                /\ MessageDelta(sessions'[g], i) = MessageDelta(sessions[g], i)
  <2> DEFINE g == turns[t].file
             i == turns[t].place
  <2>1. i \in 1..Len(sessions[g]) /\ sessions[g][i].at = t /\ g \in Sessions
    <3>1. turns[t] \in TurnOf
      BY <1>3
    <3> QED BY <1>1, <1>b, <3>1 DEF TurnsAreThere, TurnOf
  <2>2. ASSUME g = f
        PROVE  /\ i \in 1..Len(sessions'[g]) /\ sessions'[g][i].at = t
               /\ MessageDelta(sessions'[g], i) = MessageDelta(sessions[g], i)
    <3>1. i \in 1..Len(s) /\ s[i].at = t /\ sessions'[g] = new /\ sessions[g] = s
      BY <1>7, <2>1, <2>2 DEF s
    <3> QED BY <1>a, <3>1
  <2>3. ASSUME g # f
        PROVE  /\ i \in 1..Len(sessions'[g]) /\ sessions'[g][i].at = t
               /\ MessageDelta(sessions'[g], i) = MessageDelta(sessions[g], i)
    <3>1. sessions'[g] = sessions[g]
      BY <1>7, <2>1, <2>3
    <3> HIDE DEF g, i
    <3> QED BY <2>1, <3>1
  <2> QED BY <2>2, <2>3
<1>11. TurnsAreThere'
  <2> SUFFICES ASSUME NEW t \in 1..(N + 1), turns'[t].file \notin gone
               PROVE  /\ turns'[t].place \in 1..Len(sessions'[turns'[t].file])
                      /\ sessions'[turns'[t].file][turns'[t].place].at = t
    BY <1>2, <1>4 DEF TurnsAreThere
  <2>1. CASE t = N + 1
    <3>1. turns'[t].file = f /\ turns'[t].place = Len(s) + 1
      BY <1>4, <2>1
    <3>2. Len(s) + 1 \in 1..Len(new) /\ new[Len(s) + 1].at = t
      BY <1>3, <1>5, <1>6, <2>1
    <3> QED BY <1>7, <3>1, <3>2
  <2>2. CASE t # N + 1
    <3>1. t \in 1..N /\ turns'[t] = turns[t]
      BY <1>3, <1>4, <2>2
    <3> QED BY <1>b, <3>1
  <2> QED BY <2>1, <2>2
<1>12. RowsAreTurns'
  <2>1. ASSUME NEW e \in rows
        PROVE /\ e.at \in 1..N /\ e.at \in 1..Len(turns') /\ turns'[e.at] = turns[e.at]
    <3>1. e.at \in 1..N
      BY <1>1 DEF RowsAreTurns
    <3> QED BY <1>3, <1>4, <3>1
  <2>2. \A e \in rows : e.n <= turns'[e.at].n
    BY <1>1, <2>1 DEF RowsAreTurns, TurnsAreCountedOnce
  <2>3. ASSUME format = "gemini", NEW e \in rows, turns'[e.at].file \notin gone
        PROVE  e.n = MessageDelta(sessions'[turns'[e.at].file], turns'[e.at].place)
    <3>1. e.n = MessageDelta(sessions[turns[e.at].file], turns[e.at].place)
      BY <1>1, <2>1, <2>3 DEF RowsAreTurns
    <3> QED BY <1>b, <2>1, <2>3, <3>1
  <2>4. TurnsAreCountedOnce'
    BY <1>1, <1>2, <2>2 DEF RowsAreTurns, TurnsAreCountedOnce
  <2> QED BY <1>2, <2>1, <2>3, <2>4 DEF RowsAreTurns
<1>13. ScanSoFar' /\ SettledRows'
  BY <1>1, <1>2 DEF ScanSoFar, SettledRows, Codex
<1> QED BY <1>10, <1>11, <1>12, <1>13 DEF CountInv

LEMMA DeleteCounts ==
  ASSUME CounterStates, CountInv, NEW f \in Sessions, DeleteSession(f)
  PROVE  CountInv'
<1>1. SeenAreTurns /\ TurnsAreThere /\ RowsAreTurns /\ ScanSoFar
  BY DEF CountInv
<1>2. /\ sessions' = [sessions EXCEPT ![f] = <<>>] /\ gone' = gone \cup {f} /\ settled' = FALSE
      /\ UNCHANGED <<format, turns, restarted, cache, todo, opened, got, rows>>
  BY DEF DeleteSession, scanState
<1>3. sessions \in [Sessions -> Seq(TurnRecord)] /\ turns \in Seq(TurnOf)
  BY DEF CounterStates
<1>4. sessions'[f] = <<>> /\ \A g \in Sessions \ {f} : sessions'[g] = sessions[g]
  BY <1>2, <1>3
<1>5. ASSUME NEW g, NEW b, AreTurns(g, b) PROVE (AreTurns(g, b))'
  BY <1>2, <1>5 DEF AreTurns, IsTurn
<1>6. SeenAreTurns'
  <2>1. AreTurns(f, <<>>)
    BY DEF AreTurns
  <2>2. \A g \in Sessions : (AreTurns(g, sessions[g]))'
    BY <1>1, <1>4, <1>5, <2>1 DEF SeenAreTurns
  <2>3. \A g \in DOMAIN cache' : (AreTurns(g, cache[g].records))'
    BY <1>1, <1>2, <1>5 DEF SeenAreTurns
  <2>4. \A g \in DOMAIN got' : (AreTurns(g, got[g]))'
    BY <1>1, <1>2, <1>5 DEF SeenAreTurns
  <2> QED BY <2>2, <2>3, <2>4 DEF SeenAreTurns
<1>7. ASSUME NEW t \in 1..Len(turns), turns[t].file \notin gone'
      PROVE  turns[t].file \notin gone /\ sessions'[turns[t].file] = sessions[turns[t].file]
  <2>1. turns[t] \in TurnOf
    BY <1>3
  <2>2. turns[t].file \in Sessions \ {f}
    BY <1>2, <1>7, <2>1 DEF TurnOf
  <2> QED BY <1>2, <1>4, <1>7, <2>2
<1>8. TurnsAreThere'
  BY <1>1, <1>2, <1>7 DEF TurnsAreThere
<1>9. RowsAreTurns'
  <2>1. \A e \in rows : e.at \in 1..Len(turns)
    BY <1>1 DEF RowsAreTurns
  <2>2. TurnsAreCountedOnce'
    BY <1>1, <1>2 DEF RowsAreTurns, TurnsAreCountedOnce
  <2> QED BY <1>1, <1>2, <1>7, <2>1, <2>2 DEF RowsAreTurns
<1>10. ScanSoFar' /\ SettledRows'
  BY <1>1, <1>2 DEF ScanSoFar, SettledRows, Codex
<1> QED BY <1>6, <1>8, <1>9, <1>10 DEF CountInv

\* The scans leave the files and their turns alone.
LEMMA FilesStay ==
  ASSUME SeenAreTurns, TurnsAreThere, UNCHANGED <<format, sessions, gone, turns, restarted>>
  PROVE  /\ \A f, s : AreTurns(f, s) => (AreTurns(f, s))'
         /\ \A f \in Sessions : (AreTurns(f, sessions[f]))'
         /\ TurnsAreThere' /\ Present' = Present /\ Small' = Small
<1>1. \A f, s : AreTurns(f, s) => (AreTurns(f, s))'
  BY DEF AreTurns, IsTurn
<1>2. \A f \in Sessions : (AreTurns(f, sessions[f]))'
  BY <1>1 DEF SeenAreTurns
<1> QED BY <1>1, <1>2 DEF TurnsAreThere, Present, Small

LEMMA RowsStay ==
  ASSUME RowsAreTurns, UNCHANGED <<format, sessions, gone, turns, restarted, rows>>
  PROVE  RowsAreTurns'
BY DEF RowsAreTurns, TurnsAreCountedOnce

LEMMA BeginCounts ==
  ASSUME CounterStates, CountInv, SessionBoundsAssumption, BeginScan
  PROVE  CountInv'
<1>1. SeenAreTurns /\ TurnsAreThere /\ RowsAreTurns /\ ScanSoFar
  BY DEF CountInv
<1>2. /\ todo = Idle /\ todo' = Present /\ got' = <<>>
      /\ cache' = [x \in DOMAIN cache \cap Present |-> cache[x]]
      /\ UNCHANGED <<format, sessions, gone, turns, restarted, opened, rows>>
  BY DEF BeginScan, Restrict
<1>3. DOMAIN got' = {} /\ todo' # Idle
  <2>1. Present \in SUBSET Sessions
    BY DEF Present
  <2> QED BY <1>2, <2>1, NeverIdle
<1>4. SeenAreTurns'
  <2>1. \A g \in DOMAIN cache' : (AreTurns(g, cache[g].records))'
    <3> SUFFICES ASSUME NEW g \in DOMAIN cache' PROVE (AreTurns(g, cache[g].records))'
      OBVIOUS
    <3>1. g \in DOMAIN cache /\ cache'[g] = cache[g]
      BY <1>2
    <3> QED BY <1>1, <1>2, <3>1, FilesStay DEF SeenAreTurns
  <2>2. \A g \in Sessions : (AreTurns(g, sessions[g]))'
    BY <1>1, <1>2, FilesStay
  <2> QED BY <1>3, <2>1, <2>2 DEF SeenAreTurns
<1>5. TurnsAreThere' /\ RowsAreTurns' /\ Small' = Small /\ Present' = Present
  BY <1>1, <1>2, FilesStay, RowsStay
<1>6. ScanSoFar' /\ SettledRows'
  <2>1. opened' = NoFile
    BY <1>1, <1>2 DEF ScanSoFar
  <2>2. Small \ todo' = {}
    BY <1>2 DEF Small
  <2>3. Codex'
    BY <1>2 DEF BeginScan, Codex
  <2> QED BY <1>3, <1>5, <2>1, <2>2, <2>3 DEF ScanSoFar, SettledRows
<1> QED BY <1>4, <1>5, <1>6 DEF CountInv

LEMMA StatCounts ==
  ASSUME CounterStates, CacheIsTheFile, CountInv, SessionBoundsAssumption,
         NEW f \in Sessions, Stat(f)
  PROVE  CountInv'
<1> DEFINE size == Len(sessions[f])
<1>1. SeenAreTurns /\ TurnsAreThere /\ RowsAreTurns /\ ScanSoFar
  BY DEF CountInv
<1>2. /\ todo # Idle /\ opened = NoFile /\ f \in todo /\ todo' = todo \ {f}
      /\ UNCHANGED <<format, sessions, gone, turns, restarted, cache, rows, settled>>
  BY DEF Stat
<1>3. sessions[f] \in Seq(TurnRecord) /\ size \in Nat /\ MaxSize \in Nat
      /\ DOMAIN cache \subseteq Sessions /\ DOMAIN got \subseteq Sessions
  BY DEF CounterStates, SessionBoundsAssumption
<1>4. \/ ~(f \in Small) /\ UNCHANGED <<opened, got>>
      \/ /\ f \in Small /\ f \in DOMAIN cache /\ cache[f].records = sessions[f]
         /\ got' = Put(got, f, cache[f].records) /\ UNCHANGED opened
      \/ f \in Small /\ opened' = [file |-> f, size |-> size] /\ UNCHANGED got
  <2>1. f \in Small <=> ~(size = 0 \/ size > MaxSize)
    <3>1. size = 0 <=> sessions[f] = <<>>
      BY <1>3
    <3>2. size <= MaxSize <=> ~(size > MaxSize)
      BY <1>3
    <3> QED BY <3>1, <3>2 DEF Small, Present
  <2>2. CASE size = 0 \/ size > MaxSize
    BY <2>1, <2>2 DEF Stat
  <2>3. CASE ~(size = 0 \/ size > MaxSize) /\ f \in DOMAIN cache /\ cache[f].size = size /\ size \in 1..MaxSize
    <3>1. f \in Present
      BY <2>1, <2>3 DEF Small
    <3>2. cache[f].records = sessions[f]
      BY <2>3, <3>1 DEF CacheIsTheFile
    <3> QED BY <2>1, <2>3, <3>2 DEF Stat
  <2>4. CASE ~(size = 0 \/ size > MaxSize)
             /\ ~(f \in DOMAIN cache /\ cache[f].size = size /\ size \in 1..MaxSize)
    <3>1. opened' = [file |-> f, size |-> size] /\ UNCHANGED got
      BY <2>4 DEF Stat
    <3> QED BY <2>1, <2>4, <3>1
  <2> QED BY <2>2, <2>3, <2>4
<1> HIDE DEF size
<1>5. \/ got' = got
      \/ /\ f \in Small /\ DOMAIN got' = DOMAIN got \cup {f} /\ got'[f] = sessions[f]
         /\ \A g \in DOMAIN got \ {f} : got'[g] = got[g]
  BY <1>4 DEF Put
<1>6. SeenAreTurns'
  <2>1. ASSUME NEW g \in DOMAIN got' PROVE (AreTurns(g, got[g]))'
    <3>1. CASE got'[g] = sessions[g]
      <4>1. g \in Sessions
        BY <1>3, <1>5, <2>1
      <4> QED BY <1>1, <1>2, <3>1, <4>1, FilesStay DEF SeenAreTurns
    <3>2. CASE got'[g] = got[g] /\ g \in DOMAIN got
      BY <1>1, <1>2, <3>2, FilesStay DEF SeenAreTurns
    <3> QED BY <1>5, <2>1, <3>1, <3>2
  <2>2. \A g \in Sessions : (AreTurns(g, sessions[g]))'
    BY <1>1, <1>2, FilesStay
  <2>3. \A g \in DOMAIN cache' : (AreTurns(g, cache[g].records))'
    BY <1>1, <1>2, FilesStay DEF SeenAreTurns
  <2> QED BY <2>1, <2>2, <2>3 DEF SeenAreTurns
<1>7. TurnsAreThere' /\ RowsAreTurns' /\ Small' = Small
  BY <1>1, <1>2, FilesStay, RowsStay
<1>8. todo' # Idle
  <2>1. todo' \in SUBSET Sessions
    BY <1>2 DEF CounterStates
  <2> QED BY <2>1, NeverIdle
<1>9. ScanSoFar'
  <2> SUFFICES ASSUME settled'
               PROVE  /\ \A g \in DOMAIN got' : g \in Small /\ got'[g] = sessions[g]
                      /\ \A g \in Small \ todo' : g \in DOMAIN got' \/ opened'.file = g
                      /\ opened' # NoFile => opened'.file \in Small
    <3>1. Codex'
      BY <1>2 DEF Stat, Codex
    <3> QED BY <1>2, <1>7, <1>8, <3>1 DEF ScanSoFar
  <2>1. /\ \A g \in DOMAIN got : g \in Small /\ got[g] = sessions[g]
        /\ \A g \in Small \ todo : g \in DOMAIN got
    <3>1. ASSUME NEW g \in Small PROVE opened.file # g
      <4>1. g \in Nat \ {0} /\ opened.file = 0
        BY <1>2 DEF Small, Present, Sessions, SessionBoundsAssumption, NoFile
      <4> QED BY <4>1
    <3> QED BY <1>1, <1>2, <3>1 DEF ScanSoFar
  <2>2. \A g \in DOMAIN got' : g \in Small /\ got'[g] = sessions[g]
    BY <1>5, <2>1
  <2>3. ASSUME NEW g \in Small \ todo' PROVE g \in DOMAIN got' \/ opened'.file = g
    <3>1. CASE g # f
      BY <1>2, <1>5, <2>1, <2>3, <3>1
    <3>2. CASE g = f
      BY <1>4, <1>5, <2>3, <3>2 DEF Put
    <3> QED BY <3>1, <3>2
  <2>4. opened' # NoFile => opened'.file \in Small
    BY <1>2, <1>4
  <2> QED BY <2>2, <2>3, <2>4
<1>10. SettledRows'
  BY <1>8 DEF SettledRows
<1> QED BY <1>6, <1>7, <1>9, <1>10 DEF CountInv

LEMMA ReadCounts ==
  ASSUME CounterStates, CountInv, SessionBoundsAssumption, NEW ok \in BOOLEAN, Read(ok)
  PROVE  CountInv'
<1> DEFINE f == opened.file
<1>1. SeenAreTurns /\ TurnsAreThere /\ RowsAreTurns /\ ScanSoFar
  BY DEF CountInv
<1>2. /\ opened # NoFile /\ opened' = NoFile
      /\ UNCHANGED <<format, sessions, gone, turns, restarted, todo, rows>>
  BY DEF Read
<1>3. f \in Sessions /\ todo # Idle /\ DOMAIN got \subseteq Sessions
  BY <1>1, <1>2 DEF CounterStates, ScanSoFar
<1>4. \/ settled' = FALSE /\ UNCHANGED <<cache, got>>
      \/ /\ settled' = settled
         /\ cache' = Put(cache, f, [size |-> opened.size, records |-> sessions[f]])
         /\ got' = Put(got, f, sessions[f])
  BY DEF Read
<1> HIDE DEF f
<1>5. \/ settled' = FALSE /\ UNCHANGED <<cache, got>>
      \/ /\ settled' = settled
         /\ DOMAIN cache' = DOMAIN cache \cup {f} /\ cache'[f].records = sessions[f]
         /\ \A g \in DOMAIN cache \ {f} : cache'[g] = cache[g]
         /\ DOMAIN got' = DOMAIN got \cup {f} /\ got'[f] = sessions[f]
         /\ \A g \in DOMAIN got \ {f} : got'[g] = got[g]
  BY <1>4 DEF Put
<1>6. AreTurns(f, sessions[f])
  BY <1>1, <1>3 DEF SeenAreTurns
<1>7. SeenAreTurns'
  <2>1. ASSUME NEW g \in DOMAIN got' PROVE (AreTurns(g, got[g]))'
    <3>1. \/ g = f /\ got'[g] = sessions[f]
          \/ g \in DOMAIN got /\ got'[g] = got[g]
      BY <1>5, <2>1
    <3>2. AreTurns(g, got'[g])
      BY <1>1, <1>6, <3>1 DEF SeenAreTurns
    <3> QED BY <1>1, <1>2, <3>2, FilesStay
  <2>2. ASSUME NEW g \in DOMAIN cache' PROVE (AreTurns(g, cache[g].records))'
    <3>1. \/ g = f /\ cache'[g].records = sessions[f]
          \/ g \in DOMAIN cache /\ cache'[g] = cache[g]
      BY <1>5, <2>2
    <3>2. AreTurns(g, cache'[g].records)
      BY <1>1, <1>6, <3>1 DEF SeenAreTurns
    <3> QED BY <1>1, <1>2, <3>2, FilesStay
  <2>3. \A g \in Sessions : (AreTurns(g, sessions[g]))'
    BY <1>1, <1>2, FilesStay
  <2> QED BY <2>1, <2>2, <2>3 DEF SeenAreTurns
<1>8. TurnsAreThere' /\ RowsAreTurns' /\ Small' = Small
  BY <1>1, <1>2, FilesStay, RowsStay
<1>9. ScanSoFar'
  <2> SUFFICES ASSUME settled'
               PROVE  /\ \A g \in DOMAIN got' : g \in Small /\ got'[g] = sessions[g]
                      /\ \A g \in Small \ todo : g \in DOMAIN got'
    <3>1. Codex'
      BY <1>1, <1>2, <1>3 DEF ScanSoFar, Codex
    <3> QED BY <1>2, <1>8, <3>1 DEF ScanSoFar
  <2>1. settled /\ f \in Small /\ (\A g \in DOMAIN got : g \in Small /\ got[g] = sessions[g])
        /\ \A g \in Small \ todo : g \in DOMAIN got \/ f = g
    BY <1>1, <1>2, <1>3, <1>5 DEF ScanSoFar, f
  <2> QED BY <1>5, <2>1
<1>10. SettledRows'
  BY <1>2, <1>3 DEF SettledRows
<1> QED BY <1>7, <1>8, <1>9, <1>10 DEF CountInv

\* What two looks at the turns of files say of one time is one row.
LEMMA EndCounts ==
  ASSUME CounterStates, CountInv, SessionBoundsAssumption, EndScan
  PROVE  CountInv'
<1> DEFINE samples == UNION {SessionSamples(got[f]) : f \in DOMAIN got}
<1>1. SeenAreTurns /\ TurnsAreThere /\ RowsAreTurns /\ ScanSoFar
  BY DEF CountInv
<1>2. /\ Codex /\ todo = {} /\ opened = NoFile /\ todo' = Idle
      /\ rows' = IF samples = {} THEN rows ELSE samples
      /\ UNCHANGED <<format, sessions, gone, turns, restarted, cache, opened, got, settled>>
  BY DEF EndScan
<1>3. todo # Idle
  BY <1>2 DEF Idle
<1>4. SeenAreTurns'
  BY <1>1, <1>2, FilesStay DEF SeenAreTurns
<1>5. TurnsAreThere' /\ Small' = Small
  BY <1>1, <1>2, FilesStay
<1>6. ASSUME NEW e \in samples
      PROVE  /\ e.at \in 1..Len(turns) /\ e.n <= turns[e.at].n
             /\ turns[e.at].file \in DOMAIN got
             /\ LET s == got[turns[e.at].file]
                    i == turns[e.at].place
                IN e = [at |-> s[i].at, n |-> Usage(s, i)]
  <2>1. PICK f \in DOMAIN got : e \in SessionSamples(got[f])
    OBVIOUS
  <2>2. got[f] \in Seq(TurnRecord) /\ AreTurns(f, got[f])
    BY <1>1 DEF CounterStates, SeenAreTurns
  <2> QED BY <1>2, <2>1, <2>2, SamplesOfTurns
<1>7. \A d, e \in samples : d.at = e.at => d = e
  <2> SUFFICES ASSUME NEW d \in samples, NEW e \in samples, d.at = e.at PROVE d = e
    OBVIOUS
  <2> DEFINE s == got[turns[e.at].file]
             i == turns[e.at].place
  <2>1. e = [at |-> s[i].at, n |-> Usage(s, i)]
    BY <1>6
  <2>2. d = [at |-> got[turns[d.at].file][turns[d.at].place].at,
             n |-> Usage(got[turns[d.at].file], turns[d.at].place)]
    BY <1>6
  <2>3. d = [at |-> s[i].at, n |-> Usage(s, i)]
    BY <2>2
  <2> QED BY <2>1, <2>3
<1>8. RowsAreTurns'
  <2>1. CASE samples = {}
    BY <1>1, <1>2, <2>1, RowsStay
  <2>2. CASE samples # {}
    <3>1. rows' = samples
      BY <1>2, <2>2
    <3>2. TurnsAreCountedOnce'
      BY <1>2, <1>6, <1>7, <3>1 DEF TurnsAreCountedOnce
    <3>3. \A e \in rows' : e.at \in 1..Len(turns')
      BY <1>2, <1>6, <3>1
    <3>4. ~(format' = "gemini")
      BY <1>2 DEF Codex
    <3> QED BY <3>2, <3>3, <3>4 DEF RowsAreTurns
  <2> QED BY <2>1, <2>2
<1>9. ScanSoFar'
  BY <1>2 DEF ScanSoFar, Codex
<1>10. SettledRows'
  <2>0. \A s : (SessionSamples(s))' = SessionSamples(s)
    BY <1>2 DEF SessionSamples, Usage, Codex
  <2>1. LiveSamples' = LiveSamples
    BY <1>2, <1>5, <2>0 DEF LiveSamples
  <2> SUFFICES ASSUME settled PROVE LiveSamples = {} \/ rows' = LiveSamples
    BY <1>2, <2>1 DEF SettledRows
  <2>2. /\ \A f \in DOMAIN got : f \in Small /\ got[f] = sessions[f]
        /\ \A f \in Small \ todo : f \in DOMAIN got \/ opened.file = f
    BY <1>1, <1>3 DEF ScanSoFar
  <2>3. \A f \in Small : opened.file # f
    <3> SUFFICES ASSUME NEW f \in Small PROVE opened.file # f
      OBVIOUS
    <3>1. f \in Nat \ {0} /\ opened.file = 0
      BY <1>2 DEF Small, Present, Sessions, SessionBoundsAssumption, NoFile
    <3> QED BY <3>1
  <2>4. DOMAIN got = Small
    BY <1>2, <2>2, <2>3
  <2>5. samples = LiveSamples
    BY <2>2, <2>4 DEF LiveSamples
  <2> HIDE DEF samples
  <2> QED BY <1>2, <2>5
<1> QED BY <1>4, <1>5, <1>8, <1>9, <1>10 DEF CountInv

LEMMA GeminiCounts ==
  ASSUME CounterStates, CountInv, SessionBoundsAssumption,
         NEW unread \in SUBSET Sessions, ScanGemini(unread)
  PROVE  CountInv'
<1> DEFINE took == Transcripts(Present \ unread)
<1>1. SeenAreTurns /\ TurnsAreThere /\ RowsAreTurns /\ ScanSoFar
  BY DEF CountInv
<1>2. /\ format = "gemini" /\ rows' = rows \cup took
      /\ UNCHANGED <<format, sessions, gone, turns, restarted, cache, todo, opened, got>>
  BY DEF ScanGemini, scanState
<1>3. ASSUME NEW e \in took
      PROVE  /\ e = [at |-> e.at, n |-> e.n]
             /\ e.at \in 1..Len(turns) /\ e.n <= turns[e.at].n
             /\ turns[e.at].file \notin gone
             /\ e.n = MessageDelta(sessions[turns[e.at].file], turns[e.at].place)
  <2>1. PICK f \in Present : e \in FileSamples(f)
    BY DEF Transcripts
  <2>2. f \in Sessions /\ f \notin gone
    BY DEF Present, CounterStates
  <2> QED BY <1>1, <1>2, <2>1, <2>2, SamplesOfTail
<1>4. ASSUME NEW e \in rows' PROVE e \in Row \/ e \in took
  BY <1>2, <1>4 DEF CounterStates
<1>5. ASSUME NEW e \in rows'
      PROVE  /\ e = [at |-> e.at, n |-> e.n]
             /\ e.at \in 1..Len(turns) /\ e.n <= turns[e.at].n
             /\ turns[e.at].file \notin gone =>
                  e.n = MessageDelta(sessions[turns[e.at].file], turns[e.at].place)
  <2>1. CASE e \in took
    BY <1>3, <2>1
  <2>2. CASE e \in rows
    <3>1. e \in Row
      BY <2>2 DEF CounterStates
    <3>2. e = [at |-> e.at, n |-> e.n]
      BY <3>1 DEF Row
    <3> QED BY <1>1, <1>2, <2>2, <3>2 DEF RowsAreTurns, TurnsAreCountedOnce
  <2> HIDE DEF took
  <2> QED BY <1>2, <1>5, <2>1, <2>2
<1> HIDE DEF took
<1>6. ASSUME NEW d \in rows', NEW e \in rows', d.at = e.at PROVE d = e
  <2>1. CASE d \in took \/ e \in took
    <3>1. turns[d.at].file \notin gone /\ turns[e.at].file \notin gone
      BY <1>3, <1>6, <2>1
    <3>2. d.n = e.n
      BY <1>5, <1>6, <3>1
    <3>3. d = [at |-> d.at, n |-> d.n] /\ e = [at |-> e.at, n |-> e.n]
      BY <1>5
    <3> QED BY <1>6, <3>2, <3>3
  <2>2. CASE d \in rows /\ e \in rows
    BY <1>1, <1>6, <2>2 DEF RowsAreTurns, TurnsAreCountedOnce
  <2> QED BY <1>2, <1>6, <2>1, <2>2
<1>7. RowsAreTurns'
  <2>1. TurnsAreCountedOnce'
    BY <1>2, <1>5, <1>6 DEF TurnsAreCountedOnce
  <2>2. \A e \in rows' : e.at \in 1..Len(turns')
    BY <1>2, <1>5
  <2>3. \A e \in rows' : turns'[e.at].file \notin gone' =>
          e.n = MessageDelta(sessions'[turns'[e.at].file], turns'[e.at].place)
    BY <1>2, <1>5
  <2> QED BY <2>1, <2>2, <2>3 DEF RowsAreTurns
<1>8. SeenAreTurns' /\ TurnsAreThere'
  BY <1>1, <1>2, FilesStay DEF SeenAreTurns
<1>9. ScanSoFar' /\ SettledRows'
  BY <1>1, <1>2 DEF ScanSoFar, SettledRows, Codex
<1> QED BY <1>7, <1>8, <1>9 DEF CountInv

LEMMA CountInvInitially == CounterInit => CountInv
<1> SUFFICES ASSUME CounterInit PROVE CountInv
  OBVIOUS
<1>1. /\ \A f \in Sessions : sessions[f] = <<>>
      /\ DOMAIN cache = {} /\ DOMAIN got = {} /\ Len(turns) = 0
      /\ rows = {} /\ todo = Idle /\ opened = NoFile /\ settled = FALSE
  BY DEF CounterInit
<1>2. SeenAreTurns
  BY <1>1 DEF SeenAreTurns, AreTurns
<1>3. TurnsAreThere /\ RowsAreTurns
  BY <1>1 DEF TurnsAreThere, RowsAreTurns, TurnsAreCountedOnce
<1>4. ScanSoFar /\ SettledRows
  BY <1>1 DEF ScanSoFar, SettledRows
<1> QED BY <1>2, <1>3, <1>4 DEF CountInv

LEMMA CountInvIsInductive ==
  ASSUME CounterInv, CacheIsTheFile, CountInv, CounterNext \/ UNCHANGED counterVars
  PROVE  CountInv'
<1> USE SessionBoundsAssumption
<1>0. CounterStates
  BY DEF CounterInv
<1>1. CASE \E f \in Sessions : \E n \in TurnTokens, again \in BOOLEAN : WriteTurn(f, n, again)
  BY <1>0, <1>1, WriteCounts
<1>2. CASE \E f \in Sessions : DeleteSession(f)
  BY <1>0, <1>2, DeleteCounts
<1>3. CASE \E f \in Sessions : Stat(f)
  BY <1>0, <1>3, StatCounts
<1>4. CASE BeginScan
  BY <1>0, <1>4, BeginCounts
<1>5. CASE EndScan
  BY <1>0, <1>5, EndCounts
<1>6. CASE \E ok \in BOOLEAN : Read(ok)
  BY <1>0, <1>6, ReadCounts
<1>7. CASE \E unread \in SUBSET Sessions : ScanGemini(unread)
  BY <1>0, <1>7, GeminiCounts
<1>8. CASE UNCHANGED counterVars
  <2>1. UNCHANGED <<format, sessions, gone, turns, restarted, cache, todo, opened, got, rows, settled>>
    BY <1>8 DEF counterVars, scanState
  <2>2. SeenAreTurns' /\ TurnsAreThere' /\ RowsAreTurns' /\ Small' = Small
    BY <2>1, FilesStay, RowsStay DEF CountInv, SeenAreTurns
  <2>3. \A s : (SessionSamples(s))' = SessionSamples(s)
    BY <2>1 DEF SessionSamples, Usage, Codex
  <2>4. ScanSoFar' /\ SettledRows'
    BY <2>1, <2>2, <2>3 DEF CountInv, ScanSoFar, SettledRows, LiveSamples, Codex
  <2> QED BY <2>2, <2>4 DEF CountInv
<1> QED BY <1>1, <1>2, <1>3, <1>4, <1>5, <1>6, <1>7, <1>8 DEF CounterNext

LEMMA CountInvHolds == CounterSpec => []CountInv
<1>1. CounterInv /\ CacheIsTheFile /\ CountInv /\ [CounterNext]_counterVars => CountInv'
  BY CountInvIsInductive
<1> QED BY <1>1, CounterInvHolds, CacheIsSound, CountInvInitially, PTL DEF CounterSpec

\* Whatever is read when, with tails that move, totals that begin again and rows
\* that stay, no total is counted as a turn and no turn twice (MessageDelta of
\* gemini/transcript.rs, scan_usage_samples of Codex).
THEOREM NoTurnTwice == CounterSpec => []TurnsAreCountedOnce
BY CountInvHolds, PTL DEF CountInv, RowsAreTurns

\* After a scan that saw everything, Codex has counted exactly the turns of the
\* files that are there (scan_token_records, replace_provider_batch).
THEOREM CodexCountsExactly == CounterSpec => []CodexIsExact
<1>1. CounterInv /\ CountInv => CodexIsExact
  <2> SUFFICES ASSUME CounterInv, CountInv, Codex, settled, todo = Idle, ~restarted
               PROVE  LiveTurns # {} => rows = LiveTurns
    BY DEF CodexIsExact
  <2> USE SessionBoundsAssumption
  <2>1. CounterStates /\ SeenAreTurns /\ TurnsAreThere
    BY DEF CounterInv, CountInv
  <2>2. ASSUME NEW f \in Small, NEW i \in 1..Len(sessions[f])
        PROVE  LET s == sessions[f]
                   t == s[i].at
               IN /\ t \in 1..Len(turns) /\ turns[t].file = f /\ turns[t].place = i
                  /\ Usage(s, i) = turns[t].n /\ Usage(s, i) > 0
    <3> DEFINE s == sessions[f]
    <3>1. f \in Sessions /\ s \in Seq(TurnRecord)
      BY <2>1 DEF CounterStates, Small, Present
    <3> HIDE DEF s
    <3>2. IsTurn(f, s, i) /\ i \in 1..Len(s)
      BY <2>1, <3>1 DEF SeenAreTurns, AreTurns, s
    <3>3. Usage(s, i) = turns[s[i].at].n
      BY <2>1, <3>1, <3>2, DeltaOfTurn DEF Usage
    <3>4. turns[s[i].at].n \in Nat /\ turns[s[i].at].n > 0
      BY <2>1, <3>1, <3>2, NumbersOf
    <3>5. s[i].at \in 1..Len(turns) /\ turns[s[i].at].file = f /\ turns[s[i].at].place = i
      BY <3>2 DEF IsTurn
    <3> QED BY <3>3, <3>4, <3>5 DEF s
  <2>3. \A f \in Small : sessions[f] \in Seq(TurnRecord) /\ DOMAIN sessions[f] = 1..Len(sessions[f])
    BY <2>1 DEF CounterStates, Small, Present
  <2>4. LiveSamples \subseteq LiveTurns
    <3> SUFFICES ASSUME NEW f \in Small, NEW e \in SessionSamples(sessions[f])
                 PROVE  e \in LiveTurns
      BY DEF LiveSamples
    <3>1. PICK i \in 1..Len(sessions[f]) : e = [at |-> sessions[f][i].at, n |-> Usage(sessions[f], i)]
      BY <2>3 DEF SessionSamples
    <3>2. e.at \in 1..Len(turns) /\ turns[e.at].file = f /\ e = [at |-> e.at, n |-> turns[e.at].n]
      BY <2>2, <3>1
    <3>3. DOMAIN turns = 1..Len(turns)
      BY <2>1 DEF CounterStates
    <3> QED BY <3>2, <3>3 DEF LiveTurns, Small
  <2>5. LiveTurns \subseteq LiveSamples
    <3> SUFFICES ASSUME NEW t \in DOMAIN turns, turns[t].file \in Small
                 PROVE  [at |-> t, n |-> turns[t].n] \in LiveSamples
      BY DEF LiveTurns, Small
    <3> DEFINE f == turns[t].file
               i == turns[t].place
    <3>1. t \in 1..Len(turns) /\ f \notin gone
      BY <2>1 DEF CounterStates, Small, Present
    <3>2. i \in 1..Len(sessions[f]) /\ sessions[f][i].at = t
      BY <2>1, <3>1 DEF TurnsAreThere
    <3>3. Usage(sessions[f], i) = turns[t].n /\ Usage(sessions[f], i) > 0
      BY <2>2, <3>2
    <3>4. [at |-> t, n |-> turns[t].n] \in SessionSamples(sessions[f])
      BY <2>3, <3>2, <3>3 DEF SessionSamples
    <3> QED BY <3>4 DEF LiveSamples
  <2>6. LiveSamples = LiveTurns
    BY <2>4, <2>5
  <2> QED BY <2>6 DEF CountInv, SettledRows
<1> QED BY <1>1, CounterInvHolds, CountInvHolds, PTL

\* However the tools and the scans interleave, running totals become turns that are
\* counted once, completely, and from files as they are.
THEOREM TotalsBecomeTurns == CounterSpec => []SessionsCountRight
BY CacheIsSound, NoTurnTwice, CodexCountsExactly, GeminiIsComplete, PTL DEF SessionsCountRight

-----------------------------------------------------------------------------
(* Local scans: the adapters and their sources *)

Reads == {"tree", "tasks", "wire", "messages", "glm", "sessions"}

LEMMA FactsOfAdapters ==
  ASSUME adapter \in LocalAdapters
  PROVE  /\ fact.reads \in Reads
         /\ fact.turns = "own" => fact.reads \in {"messages", "glm"}
         /\ fact.reads = "glm" => fact.turns = "own"
         /\ fact.detects \in {"samples", "recent", "table"}
         /\ fact.detects = "recent" => fact.reads = "tree"
         /\ fact.label = "task" => fact.reads = "tasks"
<1> USE DEF fact, Facts, Reads, Tree, Table
<1>1. adapter \in DOMAIN Facts
  BY AdaptersAssumption
<1>2. CASE adapter = "pi_agent"         BY <1>2 DEF PiAgent
<1>3. CASE adapter = "omp"              BY <1>3 DEF Omp
<1>4. CASE adapter = "codebuddy"        BY <1>4 DEF CodeBuddy
<1>5. CASE adapter = "workbuddy"        BY <1>5 DEF WorkBuddy
<1>6. CASE adapter = "github_copilot"   BY <1>6 DEF Copilot
<1>7. CASE adapter = "anthropic_claude" BY <1>7 DEF Claude
<1>8. CASE adapter = "kilo_code"        BY <1>8 DEF KiloCode
<1>9. CASE adapter = "roo_code"         BY <1>9 DEF Roo, KiloCode
<1>10. CASE adapter = "kimi_code"       BY <1>10 DEF Kimi
<1>11. CASE adapter = "kilo_cli"        BY <1>11 DEF KiloCli
<1>12. CASE adapter = "mimo_code"       BY <1>12 DEF Mimo
<1>13. CASE adapter = "zcode_ai"        BY <1>13 DEF ZCode
<1>14. CASE adapter = "zai_glm"         BY <1>14 DEF Zai
<1>15. CASE adapter = "hermes"          BY <1>15 DEF Hermes
<1>16. CASE adapter = "opencode"        BY <1>16 DEF OpenCode
<1> QED
  BY <1>1, <1>2, <1>3, <1>4, <1>5, <1>6, <1>7, <1>8, <1>9, <1>10, <1>11, <1>12, <1>13, <1>14,
     <1>15, <1>16

ScanStates ==
  /\ adapter \in LocalAdapters
  /\ root \in {"absent", "present", "locked"}
  /\ files \in [Paths -> Seq(Record)]
  /\ taskModel \in [Paths -> Models]
  /\ time \in 0..MaxTime
  /\ restated \in BOOLEAN /\ upToDate \in BOOLEAN
  /\ counted \subseteq Event

\* A source that is not there has no records, a table has one file and the two
\* sources of Z.AI are the first two; only a shared store has the turns of others.
SourceIsWhole ==
  /\ root = "absent" => \A p \in Paths : files[p] = <<>>
  /\ isTable => \A p \in Paths \ {1} : files[p] = <<>>
  /\ fact.reads = "glm" => \A p \in Paths \ {1, 2} : files[p] = <<>>
  /\ \A p \in Paths : Len(files[p]) <= MaxRecords
  /\ fact.turns # "own" => \A p \in Paths : \A i \in 1..Len(files[p]) : files[p][i].by = "own"

LEMMA BoundsOfScan ==
  /\ SourceFiles \in Nat \ {0} /\ MaxRecords \in Nat \ {0} /\ MaxTokens \in Nat \ {0}
  /\ MaxTime \in Nat \ {0} /\ MaxFiles \in Nat \ {0} /\ MaxFileBytes \in Nat \ {0}
  /\ MaxTotalBytes \in Nat \ {0} /\ 1 \in Paths
<1>1. /\ SourceFiles \in Nat \ {0} /\ MaxRecords \in Nat \ {0} /\ MaxTokens \in Nat \ {0}
      /\ MaxTime \in Nat \ {0} /\ MaxFiles \in Nat \ {0} /\ MaxFileBytes \in Nat \ {0}
      /\ MaxTotalBytes \in Nat \ {0}
  BY ScanBoundsAssumption DEF ScanBoundsAssumption
<1> QED BY <1>1 DEF Paths

-----------------------------------------------------------------------------
(* The records of a source and how many there are *)

LEMMA PlaceIsRecord ==
  ASSUME ScanStates, NEW x \in Places(Paths)
  PROVE  /\ x[1] \in Paths /\ x[2] \in 1..Len(files[x[1]]) /\ At(x) \in Record
         /\ files[x[1]] # <<>>
<1>1. x[1] \in Paths /\ x[2] \in DOMAIN files[x[1]]
  BY DEF Places
<1>2. files[x[1]] \in Seq(Record)
  BY <1>1 DEF ScanStates
<1> QED BY <1>1, <1>2 DEF At

LEMMA PlacesGrow ==
  ASSUME NEW ps, NEW qs, ps \subseteq qs
  PROVE  Places(ps) \subseteq Places(qs)
BY DEF Places

LEMMA BytesGrow ==
  ASSUME NEW qs \in SUBSET Paths, NEW ps \in SUBSET qs
  PROVE  /\ IsFiniteSet(Places(qs)) /\ Bytes(qs) \in Nat
         /\ Bytes(ps) \in Nat /\ Bytes(ps) <= Bytes(qs)
<1>1. IsFiniteSet(Paths \X (1..MaxRecords))
  <2>1. IsFiniteSet(Paths)
    BY BoundsOfScan, FS_Interval DEF Paths
  <2>2. IsFiniteSet(1..MaxRecords)
    BY BoundsOfScan, FS_Interval
  <2> QED BY <2>1, <2>2, FS_Product
<1>2. Places(qs) \subseteq Paths \X (1..MaxRecords)
  BY DEF Places
<1>3. IsFiniteSet(Places(qs))
  BY <1>1, <1>2, FS_Subset
<1>4. Places(ps) \subseteq Places(qs)
  BY PlacesGrow
<1> QED BY <1>3, <1>4, FS_Subset, FS_CardinalityType DEF Bytes

\* A file within the bound is as big as it has records.
LEMMA BytesOfFile ==
  ASSUME ScanStates, NEW p \in Paths, Len(files[p]) <= MaxRecords
  PROVE  Bytes({p}) = Len(files[p]) /\ Len(files[p]) \in Nat
<1> DEFINE n == Len(files[p])
<1>1. n \in Nat /\ DOMAIN files[p] = 1..n /\ MaxRecords \in Nat
  BY BoundsOfScan DEF ScanStates
<1>2. Places({p}) = {p} \X (1..n)
  <2>1. 1..n \subseteq 1..MaxRecords
    BY <1>1
  <2>2. \A x \in {p} \X (1..MaxRecords) : x[1] = p
    OBVIOUS
  <2>3. Places({p}) = {x \in {p} \X (1..MaxRecords) : x[2] \in 1..n}
    BY <1>1, <2>2 DEF Places
  <2> HIDE DEF n
  <2> QED BY <2>1, <2>3
<1>3. IsFiniteSet(1..n) /\ Cardinality(1..n) = n
  BY <1>1, FS_Interval
<1>4. IsFiniteSet({p}) /\ Cardinality({p}) = 1
  BY FS_Singleton
<1>5. Cardinality({p} \X (1..n)) = 1 * n
  BY <1>3, <1>4, FS_Product
<1> HIDE DEF n
<1>6. 1 * n = n
  BY <1>1
<1>7. Bytes({p}) = n
  BY <1>2, <1>5, <1>6 DEF Bytes
<1> QED BY <1>1, <1>7 DEF n

\* Separate files add up.
LEMMA BytesAddUp ==
  ASSUME NEW ps \in SUBSET Paths, NEW p \in Paths, p \notin ps
  PROVE  Bytes(ps) + Bytes({p}) <= Bytes(Paths)
<1> DEFINE A == Places(ps)
           B == Places({p})
<1>1. IsFiniteSet(A) /\ IsFiniteSet(B) /\ IsFiniteSet(Places(Paths)) /\ A \cup B \subseteq Places(Paths)
  BY BytesGrow, PlacesGrow
<1>2. A \cap B = {}
  BY DEF Places
<1> HIDE DEF A, B
<1>3. Cardinality(A \cap B) = 0 /\ Cardinality(A) \in Nat /\ Cardinality(B) \in Nat
  BY <1>1, <1>2, FS_EmptySet, FS_CardinalityType
<1>4. Cardinality(A \cup B) = Cardinality(A) + Cardinality(B) - Cardinality(A \cap B)
  BY <1>1, FS_Union
<1>5. Cardinality(A \cup B) <= Cardinality(Places(Paths))
  BY <1>1, FS_Subset
<1>6. Cardinality(A) + Cardinality(B) = Cardinality(A \cup B)
  BY <1>3, <1>4
<1> QED BY <1>5, <1>6 DEF Bytes, A, B

-----------------------------------------------------------------------------
(* What an adapter reads is of its source, and its own *)

LEMMA ReadMessagesArePlaces ==
  ASSUME ScanStates, SourceIsWhole, NEW p \in Paths
  PROVE  ReadMessages(p) \subseteq Places(Paths)
<1> SUFFICES ASSUME NEW i \in DOMAIN files[p] PROVE <<p, i>> \in Places(Paths)
  BY DEF ReadMessages
<1>1. files[p] \in Seq(Record) /\ Len(files[p]) <= MaxRecords /\ Len(files[p]) \in Nat
  BY DEF ScanStates, SourceIsWhole
<1>2. i \in 1..MaxRecords
  BY <1>1, BoundsOfScan
<1> QED BY <1>1, <1>2 DEF Places

LEMMA SampleOfRecord ==
  ASSUME ScanStates, NEW x \in Places(Paths), Readable(x), NEW model \in Models
  PROVE  /\ Sample(At(x), model) \in Event
         /\ Sample(At(x), model).at = At(x).at /\ Sample(At(x), model).n = At(x).n
         /\ Sample(At(x), model).by = At(x).by
<1>1. At(x) \in Record /\ At(x).n > 0
  BY PlaceIsRecord DEF Readable
<1>2. At(x).at \in 0..MaxTime /\ At(x).n \in 0..MaxTokens /\ At(x).by \in Servers
  BY <1>1 DEF Record
<1>3. At(x).n \in 1..MaxTokens
  BY <1>1, <1>2, BoundsOfScan
<1> QED BY <1>2, <1>3 DEF Sample, Event

\* A place whose record was served by the tool itself, unless its turns are mixed.
LEMMA OwnUnlessMixed ==
  ASSUME ScanStates, SourceIsWhole, NEW x \in Places(Paths), fact.turns # "own"
  PROVE  At(x).by = "own"
BY PlaceIsRecord DEF SourceIsWhole, At

LEMMA SamplesAreOwn ==
  ASSUME ScanStates, SourceIsWhole, NEW ps \in SUBSET Paths
  PROVE  \A e \in Samples(ps) : e \in Event /\ e.by = "own"
<1> DEFINE Fine(e) == e \in Event /\ e.by = "own"
<1>0. \A x \in Places(Paths) : At(x) \in Record /\ At(x).model \in Models
  BY PlaceIsRecord DEF Record
<1>1. ASSUME NEW x \in Places(Paths), Readable(x), NEW model \in Models, At(x).by = "own"
      PROVE  Fine(Sample(At(x), model))
  BY <1>1, SampleOfRecord
<1>2. fact.reads \in Reads /\ (fact.turns = "own" => fact.reads \in {"messages", "glm"})
      /\ (fact.reads = "glm" => fact.turns = "own")
  BY FactsOfAdapters DEF ScanStates
<1>3. ASSUME NEW qs \in SUBSET Paths, fact.turns # "own" PROVE \A e \in Walk(qs) : Fine(e)
  <2>1. Places(qs) \subseteq Places(Paths)
    BY PlacesGrow
  <2> QED BY <1>0, <1>1, <1>3, <2>1, OwnUnlessMixed DEF Walk
<1>4. ASSUME NEW p \in Paths PROVE \A e \in MessageSamples(p) : Fine(e)
  <2> SUFFICES ASSUME NEW x \in ReadMessages(p), Readable(x), fact.turns = "own" => At(x).by = "own"
               PROVE  Fine(Sample(At(x), At(x).model))
    BY DEF MessageSamples
  <2>1. x \in Places(Paths)
    BY ReadMessagesArePlaces
  <2>2. At(x).by = "own"
    BY <2>1, OwnUnlessMixed
  <2> QED BY <1>0, <1>1, <2>1, <2>2
<1>5. CASE fact.reads = "tree"
  <2>1. ScanDirectory(ps) \subseteq Paths
    BY DEF ScanDirectory
  <2> QED BY <1>2, <1>3, <1>5, <2>1 DEF Samples
<1>6. CASE fact.reads = "tasks"
  <2> SUFFICES ASSUME NEW x \in Places({p \in ps : Fits(p)}), Readable(x)
               PROVE  Fine(Sample(At(x), IF fact.label = "task" THEN taskModel[x[1]] ELSE At(x).model))
    BY <1>6 DEF Samples, UiSamples
  <2>1. x \in Places(Paths)
    <3>1. {p \in ps : Fits(p)} \subseteq Paths
      OBVIOUS
    <3> QED BY <3>1, PlacesGrow
  <2>2. taskModel[x[1]] \in Models /\ At(x).model \in Models
    BY <1>0, <2>1, PlaceIsRecord DEF ScanStates
  <2>3. (IF fact.label = "task" THEN taskModel[x[1]] ELSE At(x).model) \in Models
    BY <2>2
  <2>4. At(x).by = "own"
    BY <1>2, <1>6, <2>1, OwnUnlessMixed
  <2> QED BY <1>1, <2>1, <2>3, <2>4
<1>7. CASE fact.reads = "wire"
  <2>1. KimiFiles(ps) \subseteq Paths
    BY DEF KimiFiles
  <2> QED BY <1>2, <1>3, <1>7, <2>1 DEF Samples
<1>8. CASE fact.reads = "messages"
  BY <1>4, <1>8, BoundsOfScan DEF Samples
<1>9. CASE fact.reads = "sessions"
  <2>1. {1} \subseteq Paths
    BY BoundsOfScan
  <2> QED BY <1>2, <1>3, <1>9, <2>1 DEF Samples, SessionRows
<1>10. CASE fact.reads = "glm"
  <2>1. ScanDirectory(ps \cap {1}) \subseteq Paths
    BY DEF ScanDirectory
  <2>2. Places(ScanDirectory(ps \cap {1})) \subseteq Places(Paths)
    BY <2>1, PlacesGrow
  <2>3. \A x \in Places(ScanDirectory(ps \cap {1})) :
          Readable(x) /\ At(x).by = "own" => Fine(Sample(At(x), At(x).model))
    BY <1>0, <1>1, <2>2
  <2>4. \A p \in ps \cap {2} : \A e \in MessageSamples(p) : Fine(e)
    BY <1>4
  <2> HIDE DEF Fine
  <2>5. \A e \in GlmSamples(ps) : Fine(e)
    BY <2>3, <2>4 DEF GlmSamples
  <2> QED BY <1>10, <2>5 DEF Samples, Fine
<1> QED BY <1>2, <1>5, <1>6, <1>7, <1>8, <1>9, <1>10 DEF Reads

-----------------------------------------------------------------------------
(* A whole source is read *)

LEMMA PlaceOfFile ==
  ASSUME ScanStates, NEW x \in Places(Paths), NEW qs, x[1] \in qs
  PROVE  x = <<x[1], x[2]>> /\ x \in Places(qs)
BY DEF Places

LEMMA WalkTakesRecord ==
  ASSUME ScanStates, NEW x \in Places(Paths), Readable(x), NEW qs, x[1] \in qs
  PROVE  \E e \in Walk(qs) : e.at = At(x).at /\ e.n = At(x).n
<1>1. Sample(At(x), At(x).model) \in Walk(qs)
  BY PlaceOfFile DEF Walk
<1>2. /\ Sample(At(x), At(x).model).at = At(x).at
      /\ Sample(At(x), At(x).model).n = At(x).n
  BY DEF Sample
<1> QED BY <1>1, <1>2

\* The limit on the rows of a query spares a row of a table that is within it.
LEMMA QueryTakesRecord ==
  ASSUME ScanStates, NEW x \in Places(Paths), Readable(x), At(x).by = "own",
         Len(files[x[1]]) <= MaxFiles
  PROVE  \E e \in MessageSamples(x[1]) : e.at = At(x).at /\ e.n = At(x).n
<1> DEFINE p == x[1]
           k == x[2]
           n == Len(files[p])
           valid == {i \in DOMAIN files[p] : files[p][i].ok}
           before == {j \in valid : Earlier(files[p], j, k)}
<1>1. p \in Paths /\ k \in 1..n /\ files[p] \in Seq(Record) /\ At(x) \in Record
  BY PlaceIsRecord DEF ScanStates
<1>2. n \in Nat /\ DOMAIN files[p] = 1..n /\ MaxFiles \in Nat
  BY <1>1, BoundsOfScan
<1>3. k \in valid
  BY <1>1, <1>2 DEF Readable, At
<1>4. ~Earlier(files[p], k, k)
  <2>1. At(x).at \in 0..MaxTime
    BY <1>1 DEF Record
  <2>2. At(x).at \in Nat
    BY <2>1, BoundsOfScan
  <2>3. files[p][k].at < files[p][k].at <=> FALSE
    BY <2>2 DEF At
  <2>4. k < k <=> FALSE
    BY <1>1, <1>2
  <2> QED BY <2>3, <2>4 DEF Earlier
<1>5. before \subseteq (1..n) \ {k}
  BY <1>2, <1>4
<1>6. IsFiniteSet(1..n) /\ Cardinality(1..n) = n
  BY <1>2, FS_Interval
<1>7. IsFiniteSet((1..n) \ {k}) /\ Cardinality((1..n) \ {k}) = n - 1
  BY <1>1, <1>6, FS_RemoveElement
<1>8. Cardinality(before) \in Nat /\ Cardinality(before) <= n - 1
  <2> HIDE DEF before
  <2>1. IsFiniteSet(before) /\ Cardinality(before) <= Cardinality((1..n) \ {k})
    BY <1>5, <1>7, FS_Subset
  <2> QED BY <1>7, <2>1, FS_CardinalityType
<1>9. Cardinality(before) < MaxFiles
  <2> HIDE DEF before
  <2> QED BY <1>2, <1>8
<1>10. <<p, k>> \in ReadMessages(p)
  BY <1>3, <1>9 DEF ReadMessages
<1>11. x = <<p, k>>
  BY <1>1, PlaceOfFile
<1>12. Sample(At(x), At(x).model) \in MessageSamples(p)
  BY <1>10, <1>11 DEF MessageSamples
<1>13. /\ Sample(At(x), At(x).model).at = At(x).at
       /\ Sample(At(x), At(x).model).n = At(x).n
  BY DEF Sample
<1> QED BY <1>12, <1>13

LEMMA DirectoryIsScanned ==
  ASSUME ScanStates, WithinBounds, NEW qs \in SUBSET Paths
  PROVE  ScanDirectory(qs) = qs
<1> SUFFICES ASSUME NEW p \in qs PROVE p \in ScanDirectory(qs)
  BY DEF ScanDirectory
<1>1. \A o \in Paths : Fits(o)
  BY DEF WithinBounds
<1>2. ASSUME NEW q \in qs PROVE Bytes({o \in qs : o <= q /\ Fits(o)}) <= MaxTotalBytes
  <2> DEFINE upTo == {o \in qs : o <= q /\ Fits(o)}
  <2>1. upTo \in SUBSET Paths
    OBVIOUS
  <2> HIDE DEF upTo
  <2>2. Bytes(upTo) \in Nat /\ Bytes(Paths) \in Nat /\ Bytes(upTo) <= Bytes(Paths)
    BY <2>1, BytesGrow
  <2>3. Bytes(Paths) <= MaxTotalBytes /\ MaxTotalBytes \in Nat
    BY BoundsOfScan DEF WithinBounds
  <2>4. Bytes(upTo) <= MaxTotalBytes
    BY <2>2, <2>3
  <2> QED BY <2>4 DEF upTo
<1> QED BY <1>1, <1>2 DEF ScanDirectory

LEMMA KimiTakesEveryFile ==
  ASSUME ScanStates, SourceIsWhole, WithinBounds, NEW ps \in SUBSET Paths
  PROVE  ps \subseteq KimiFiles(ps)
<1>1. ASSUME NEW p \in ps
      PROVE  Fits(p) /\ Bytes({q \in ps : q < p}) + Len(files[p]) <= MaxTotalBytes
  <2> DEFINE taken == {q \in ps : q < p}
  <2>0. p \in Paths
    OBVIOUS
  <2>a. ~(p < p)
    BY <2>0 DEF Paths
  <2>1. taken \in SUBSET Paths /\ p \notin taken /\ p \in Paths
    BY <2>0, <2>a
  <2> HIDE DEF taken
  <2>2. Bytes({p}) = Len(files[p])
    BY <2>1, BytesOfFile DEF SourceIsWhole
  <2>3. Bytes(taken) + Bytes({p}) <= Bytes(Paths)
    BY <2>1, BytesAddUp
  <2>4. Bytes(taken) \in Nat /\ Bytes({p}) \in Nat /\ Bytes(Paths) \in Nat
    BY <2>1, BytesGrow
  <2>5. Fits(p) /\ Bytes(Paths) <= MaxTotalBytes /\ MaxTotalBytes \in Nat
    BY <2>1, BoundsOfScan DEF WithinBounds
  <2>6. Bytes(taken) + Len(files[p]) <= MaxTotalBytes
    BY <2>2, <2>3, <2>4, <2>5
  <2> QED BY <2>5, <2>6 DEF taken
<1> QED BY <1>1 DEF KimiFiles

LEMMA CollectedArePaths ==
  ASSUME NEW ps \in CollectFiles
  PROVE  ps \in SUBSET Paths
<1>1. \A written \in SUBSET Paths : \A k : kSubset(k, written) \subseteq SUBSET written
  BY DEF kSubset
<1>2. {p \in Paths : files[p] # <<>>} \in SUBSET Paths
  OBVIOUS
<1> QED BY <1>1, <1>2 DEF CollectFiles

LEMMA EveryFileIsCollected ==
  ASSUME WithinBounds, NEW ps \in CollectFiles
  PROVE  ps = {p \in Paths : files[p] # <<>>}
BY DEF CollectFiles, WithinBounds

\* Whatever the adapter, a source within its bounds is read to the last record
\* that can be read.
LEMMA WholeSourceIsRead ==
  ASSUME ScanStates, SourceIsWhole, WithinBounds, NEW ps \in CollectFiles,
         NEW x \in Places(Paths), Readable(x), At(x).by = "own"
  PROVE  \E e \in Samples(ps) : e.at = At(x).at /\ e.n = At(x).n
<1>1. ps \in SUBSET Paths /\ x[1] \in ps /\ x[1] \in Paths /\ files[x[1]] # <<>>
  BY EveryFileIsCollected, PlaceIsRecord
<1>2. fact.reads \in Reads
  BY FactsOfAdapters DEF ScanStates
<1>3. CASE fact.reads = "tree"
  <2>1. x[1] \in ScanDirectory(ps)
    BY <1>1, DirectoryIsScanned
  <2> QED BY <1>3, <2>1, WalkTakesRecord DEF Samples
<1>4. CASE fact.reads = "tasks"
  <2>1. x \in Places({p \in ps : Fits(p)})
    <3>1. x[1] \in {p \in ps : Fits(p)}
      BY <1>1 DEF WithinBounds
    <3> QED BY <3>1, PlaceOfFile
  <2> DEFINE e == Sample(At(x), IF fact.label = "task" THEN taskModel[x[1]] ELSE At(x).model)
  <2>2. e \in UiSamples(ps)
    BY <2>1 DEF UiSamples
  <2>3. e.at = At(x).at /\ e.n = At(x).n
    BY DEF Sample
  <2> HIDE DEF e
  <2> QED BY <1>4, <2>2, <2>3 DEF Samples
<1>5. CASE fact.reads = "wire"
  <2>1. x[1] \in KimiFiles(ps)
    BY <1>1, KimiTakesEveryFile
  <2> QED BY <1>5, <2>1, WalkTakesRecord DEF Samples
<1>6. CASE fact.reads = "messages"
  <2>1. x[1] = 1
    BY <1>1, <1>6 DEF SourceIsWhole, isTable
  <2>2. Len(files[x[1]]) <= MaxFiles
    BY <1>1, <1>6 DEF WithinBounds
  <2> QED BY <1>6, <2>1, <2>2, QueryTakesRecord DEF Samples
<1>7. CASE fact.reads = "sessions"
  <2>1. x[1] \in {1}
    BY <1>1, <1>7 DEF SourceIsWhole, isTable
  <2> QED BY <1>7, <2>1, WalkTakesRecord DEF Samples, SessionRows
<1>8. CASE fact.reads = "glm"
  <2>1. x[1] \in {1, 2}
    BY <1>1, <1>8 DEF SourceIsWhole
  <2>2. CASE x[1] = 1
    <3>1. ps \cap {1} \in SUBSET Paths /\ x[1] \in ps \cap {1}
      BY <1>1, <2>2
    <3>2. x[1] \in ScanDirectory(ps \cap {1})
      BY <3>1, DirectoryIsScanned
    <3>3. x \in Places(ScanDirectory(ps \cap {1}))
      BY <3>2, PlaceOfFile
    <3>4. Sample(At(x), At(x).model) \in GlmSamples(ps)
      BY <3>3 DEF GlmSamples
    <3>5. /\ Sample(At(x), At(x).model).at = At(x).at
          /\ Sample(At(x), At(x).model).n = At(x).n
      BY DEF Sample
    <3> QED BY <1>8, <3>4, <3>5 DEF Samples
  <2>3. CASE x[1] = 2
    <3>1. Len(files[x[1]]) <= MaxFiles
      BY <1>1, <1>8 DEF WithinBounds
    <3>2. PICK e \in MessageSamples(2) : e.at = At(x).at /\ e.n = At(x).n
      BY <2>3, <3>1, QueryTakesRecord
    <3>3. 2 \in ps \cap {2}
      BY <1>1, <2>3
    <3>4. e \in GlmSamples(ps)
      BY <3>2, <3>3 DEF GlmSamples
    <3> QED BY <1>8, <3>2, <3>4 DEF Samples
  <2> QED BY <2>1, <2>2, <2>3
<1> QED BY <1>2, <1>3, <1>4, <1>5, <1>6, <1>7, <1>8 DEF Reads

-----------------------------------------------------------------------------
(* The inductive invariant of a scan *)

ScanInv ==
  /\ ScanStates
  /\ SourceIsWhole
  /\ OwnTurnsOnly
  /\ ReadableIsCounted

LEMMA ScanInvInitially == ScanInit => ScanInv
<1> SUFFICES ASSUME ScanInit PROVE ScanInv
  OBVIOUS
<1>1. <<>> \in Seq(Record) /\ Len(<<>>) = 0
  OBVIOUS
<1>2. files \in [Paths -> Seq(Record)] /\ \A p \in Paths : files[p] = <<>> /\ Len(files[p]) = 0
  BY <1>1 DEF ScanInit
<1>3. ScanStates
  <2>1. 0 \in 0..MaxTime
    BY BoundsOfScan
  <2>2. taskModel \in [Paths -> Models]
    BY DEF ScanInit, Models
  <2> QED BY <1>2, <2>1, <2>2 DEF ScanInit, ScanStates
<1>4. SourceIsWhole
  <2>1. \A p \in Paths : Len(files[p]) <= MaxRecords
    BY <1>2, BoundsOfScan
  <2>2. \A p \in Paths : 1..Len(files[p]) = {}
    BY <1>2
  <2> QED BY <1>2, <2>1, <2>2 DEF SourceIsWhole
<1>5. OwnTurnsOnly /\ ReadableIsCounted
  BY DEF ScanInit, OwnTurnsOnly, ReadableIsCounted
<1> QED BY <1>3, <1>4, <1>5 DEF ScanInv

LEMMA AdapterStays ==
  ASSUME adapter' = adapter
  PROVE  fact' = fact /\ isTable' = isTable
BY DEF fact, isTable

\* What the records say depends on the files alone.
LEMMA RecordsStay ==
  ASSUME adapter' = adapter, files' = files
  PROVE  /\ WithinBounds' <=> WithinBounds
         /\ Places(Paths)' = Places(Paths)
         /\ \A x : (At(x))' = At(x) /\ ((Readable(x))' <=> Readable(x))
<1>1. Places(Paths)' = Places(Paths)
  BY DEF Places
<1>2. \A x : (At(x))' = At(x) /\ ((Readable(x))' <=> Readable(x))
  BY DEF At, Readable
<1>3. \A p : (Fits(p))' <=> Fits(p)
  BY DEF Fits
<1>4. WithinBounds' <=> WithinBounds
  BY <1>1, <1>3, AdapterStays DEF WithinBounds, Bytes
<1> QED BY <1>1, <1>2, <1>4

LEMMA SourceStays ==
  ASSUME SourceIsWhole, adapter' = adapter, files' = files, root' = "absent" => root = "absent"
  PROVE  SourceIsWhole'
BY AdapterStays DEF SourceIsWhole

LEMMA CountedStays ==
  ASSUME OwnTurnsOnly, ReadableIsCounted, adapter' = adapter, files' = files,
         counted' = counted, upToDate' => upToDate
  PROVE  OwnTurnsOnly' /\ ReadableIsCounted'
BY RecordsStay DEF OwnTurnsOnly, ReadableIsCounted

LEMMA QuietStepKeeps ==
  ASSUME ScanInv, Install \/ Lock \/ Tick \/ (\E p \in Paths : SwitchModel(p)) \/ UNCHANGED scanVars
  PROVE  ScanInv'
<1>1. adapter' = adapter /\ files' = files /\ counted' = counted /\ (upToDate' => upToDate)
  BY DEF Install, Lock, Tick, SwitchModel, scanVars, ScanInv, ScanStates
<1>2. root' = "absent" => root = "absent"
  BY DEF Install, Lock, Tick, SwitchModel, scanVars
<1>3. ScanStates'
  <2>1. root' \in {"absent", "present", "locked"}
        /\ restated' \in BOOLEAN /\ upToDate' \in BOOLEAN
    BY DEF Install, Lock, Tick, SwitchModel, scanVars, ScanInv, ScanStates
  <2>2. taskModel' \in [Paths -> Models]
    BY DEF Install, Lock, Tick, SwitchModel, scanVars, ScanInv, ScanStates, Models
  <2>3. time' \in 0..MaxTime
    <3>1. time \in 0..MaxTime /\ MaxTime \in Nat
      BY BoundsOfScan DEF ScanInv, ScanStates
    <3>2. time' = time \/ (time < MaxTime /\ time' = time + 1)
      BY DEF Install, Lock, Tick, SwitchModel, scanVars
    <3> QED BY <3>1, <3>2
  <2> QED BY <1>1, <2>1, <2>2, <2>3 DEF ScanInv, ScanStates
<1> QED BY <1>1, <1>2, <1>3, SourceStays, CountedStays DEF ScanInv

\* A change of one file of a source that is there.
LEMMA FileChangeKeeps ==
  ASSUME ScanInv, NEW p \in Paths, NEW new \in Seq(Record), root # "absent",
         isTable => p = 1, fact.reads = "glm" => p \in {1, 2}, Len(new) <= MaxRecords,
         fact.turns # "own" => \A i \in 1..Len(new) : new[i].by = "own",
         files' = [files EXCEPT ![p] = new],
         restated' \in BOOLEAN, upToDate' = FALSE,
         UNCHANGED <<adapter, root, taskModel, time, counted>>
  PROVE  ScanInv'
<1>1. ScanStates /\ SourceIsWhole /\ OwnTurnsOnly
  BY DEF ScanInv
<1>2. files' \in [Paths -> Seq(Record)] /\ files'[p] = new
      /\ \A q \in Paths \ {p} : files'[q] = files[q]
  BY <1>1 DEF ScanStates
<1>3. ScanStates'
  BY <1>1, <1>2 DEF ScanStates
<1>4. SourceIsWhole'
  <2>1. \A q \in Paths : Len(files'[q]) <= MaxRecords
    BY <1>1, <1>2 DEF SourceIsWhole
  <2>2. isTable => \A q \in Paths \ {1} : files'[q] = <<>>
    BY <1>1, <1>2 DEF SourceIsWhole
  <2>3. fact.reads = "glm" => \A q \in Paths \ {1, 2} : files'[q] = <<>>
    BY <1>1, <1>2 DEF SourceIsWhole
  <2>4. fact.turns # "own" => \A q \in Paths : \A i \in 1..Len(files'[q]) : files'[q][i].by = "own"
    BY <1>1, <1>2 DEF SourceIsWhole
  <2> QED BY <2>1, <2>2, <2>3, <2>4, AdapterStays DEF SourceIsWhole
<1>5. OwnTurnsOnly' /\ ReadableIsCounted'
  BY <1>1 DEF OwnTurnsOnly, ReadableIsCounted
<1> QED BY <1>3, <1>4, <1>5 DEF ScanInv

LEMMA WriteRecordKeeps ==
  ASSUME ScanInv, NEW p \in Paths, NEW n \in 0..MaxTokens, NEW by \in Servers, Write(p, n, by)
  PROVE  ScanInv'
<1> DEFINE r(ok) == [at |-> time, model |-> taskModel[p], n |-> n, by |-> by, ok |-> ok]
<1>1. PICK ok \in BOOLEAN : files' = [files EXCEPT ![p] = Append(@, r(ok))]
  BY DEF Write
<1>2. ScanStates /\ SourceIsWhole
  BY DEF ScanInv
<1>3. n \in Nat /\ files[p] \in Seq(Record)
  BY <1>2, BoundsOfScan DEF ScanStates
<1>4. r(ok) \in Record /\ r(ok).by = by
  BY <1>2 DEF ScanStates, Record
<1> DEFINE new == Append(files[p], r(ok))
<1>5. files' = [files EXCEPT ![p] = new]
  BY <1>1
<1> HIDE DEF r
<1>6. /\ new \in Seq(Record) /\ Len(new) = Len(files[p]) + 1
      /\ \A i \in 1..Len(new) : new[i] = IF i = Len(files[p]) + 1 THEN r(ok) ELSE files[p][i]
  BY <1>3, <1>4
<1>7. Len(new) <= MaxRecords
  <2>1. Bytes({p}) = Len(files[p]) /\ Len(files[p]) \in Nat
    BY <1>2, BytesOfFile DEF SourceIsWhole
  <2>2. Bytes({p}) <= Bytes(Paths) /\ Bytes(Paths) \in Nat
    BY BytesGrow
  <2>3. Bytes(Paths) < MaxRecords /\ MaxRecords \in Nat
    BY BoundsOfScan DEF Write
  <2> HIDE DEF new
  <2> QED BY <1>6, <2>1, <2>2, <2>3
<1>8. fact.turns # "own" => \A i \in 1..Len(new) : new[i].by = "own"
  <2> SUFFICES ASSUME fact.turns # "own", NEW i \in 1..Len(new) PROVE new[i].by = "own"
    OBVIOUS
  <2>1. by = "own"
    BY DEF Write, Turns
  <2>2. CASE i = Len(files[p]) + 1
    BY <1>4, <1>6, <2>1, <2>2
  <2>3. CASE i # Len(files[p]) + 1
    <3> HIDE DEF new
    <3>1. i \in 1..Len(files[p])
      BY <1>3, <1>6, <2>3
    <3>2. new[i] = files[p][i]
      BY <1>6, <2>3
    <3> QED BY <1>2, <3>1, <3>2 DEF SourceIsWhole
  <2> QED BY <2>2, <2>3
<1>9. restated' \in BOOLEAN
  BY <1>2 DEF Write, ScanStates
<1>10. /\ root # "absent" /\ (isTable => p = 1) /\ (fact.reads = "glm" => p \in {1, 2})
       /\ upToDate' = FALSE /\ UNCHANGED <<adapter, root, taskModel, time, counted>>
  <2>1. p \in Nat \ {0}
    BY BoundsOfScan DEF Paths
  <2>2. fact.reads = "glm" => p <= 2
    BY DEF Write
  <2> QED BY <2>1, <2>2 DEF Write
<1> HIDE DEF new
<1> QED BY <1>5, <1>6, <1>7, <1>8, <1>9, <1>10, FileChangeKeeps

LEMMA GoOnKeeps ==
  ASSUME ScanInv, NEW p \in Paths, NEW i \in 1..MaxRecords, NEW n \in 1..MaxTokens, GoOn(p, i, n)
  PROVE  ScanInv'
<1> DEFINE old == files[p][i]
           at == IF fact.reads # "tasks" /\ adapter # "hermes" THEN time ELSE old.at
           r == [old EXCEPT !.n = n, !.at = at]
           new == [files[p] EXCEPT ![i] = r]
<1>1. ScanStates /\ SourceIsWhole
  BY DEF ScanInv
<1>2. files[p] \in Seq(Record) /\ i \in 1..Len(files[p])
  BY <1>1 DEF ScanStates, GoOn
<1>3. old \in Record
  BY <1>2
<1>4. at \in 0..MaxTime
  BY <1>1, <1>3 DEF ScanStates, Record
<1>5. n \in 0..MaxTokens /\ n \in Nat /\ old.n \in Nat /\ n > old.n
  BY <1>3, BoundsOfScan DEF Record, GoOn
<1>6. files' = [files EXCEPT ![p] = new]
  BY <1>1, <1>2 DEF GoOn, ScanStates
<1>7. r \in Record /\ r.by = old.by
  <2> HIDE DEF old, at
  <2> QED BY <1>3, <1>4, <1>5 DEF Record
<1> HIDE DEF r
<1>8. new \in Seq(Record) /\ Len(new) = Len(files[p])
      /\ \A j \in 1..Len(new) : new[j] = IF j = i THEN r ELSE files[p][j]
  BY <1>2, <1>7
<1>9. root # "absent"
  <2>1. files[p] # <<>>
    BY <1>2
  <2> QED BY <1>1, <2>1 DEF SourceIsWhole
<1>10. (isTable => p = 1) /\ (fact.reads = "glm" => p \in {1, 2})
  <2>1. files[p] # <<>>
    BY <1>2
  <2> QED BY <1>1, <2>1 DEF SourceIsWhole
<1>11. Len(new) <= MaxRecords
  BY <1>1, <1>8 DEF SourceIsWhole
<1>12. fact.turns # "own" => \A j \in 1..Len(new) : new[j].by = "own"
  BY <1>1, <1>2, <1>7, <1>8 DEF SourceIsWhole
<1>13. restated' \in BOOLEAN
  BY <1>1 DEF GoOn, ScanStates
<1>14. upToDate' = FALSE /\ UNCHANGED <<adapter, root, taskModel, time, counted>>
  BY DEF GoOn
<1> HIDE DEF new
<1> QED BY <1>6, <1>8, <1>9, <1>10, <1>11, <1>12, <1>13, <1>14, FileChangeKeeps

\* A refresh takes only turns of the tool itself; one that could read all of a
\* source within its bounds takes every record that can be read.
LEMMA RefreshKeepsCount ==
  ASSUME ScanInv, NEW unread \in SUBSET Paths, Refresh(unread)
  PROVE  ScanInv'
<1>1. ScanStates /\ SourceIsWhole /\ OwnTurnsOnly /\ ReadableIsCounted
  BY DEF ScanInv
<1>2. PICK ps \in CollectFiles :
        /\ counted' = IF Unavailable(Samples(ps \ unread)) THEN counted
                      ELSE Ingest(Samples(ps \ unread))
        /\ upToDate' = (unread = {} /\ root # "locked")
  BY DEF Refresh
<1>3. UNCHANGED <<adapter, root, files, taskModel, time, restated>>
  BY DEF Refresh
<1> DEFINE samples == Samples(ps \ unread)
<1>4. ps \in SUBSET Paths
  BY CollectedArePaths
<1>5. \A e \in samples : e \in Event /\ e.by = "own"
  BY <1>1, <1>4, SamplesAreOwn
<1> HIDE DEF samples
<1>6. counted' \subseteq counted \cup samples
  BY <1>2 DEF Ingest, samples
<1>7. ScanStates'
  BY <1>1, <1>2, <1>3, <1>5, <1>6 DEF ScanStates
<1>8. SourceIsWhole'
  BY <1>1, <1>3, SourceStays
<1>9. OwnTurnsOnly'
  BY <1>1, <1>5, <1>6 DEF OwnTurnsOnly
<1>10. ReadableIsCounted'
  <2> SUFFICES ASSUME upToDate', WithinBounds, NEW x \in Places(Paths), Readable(x),
                      At(x).by = "own"
               PROVE  \E e \in counted' : e.at = At(x).at /\ e.n = At(x).n
    BY <1>3, RecordsStay DEF ReadableIsCounted
  <2>1. ps \ unread = ps /\ root # "locked"
    BY <1>2, <1>4
  <2>2. root = "present"
    BY <1>1, <2>1, PlaceIsRecord DEF ScanStates, SourceIsWhole
  <2>3. PICK e \in samples : e.at = At(x).at /\ e.n = At(x).n
    BY <1>1, <2>1, WholeSourceIsRead DEF samples
  <2>4. counted' = Ingest(samples)
    BY <1>2, <2>2, <2>3 DEF Unavailable, samples
  <2>5. e \in counted'
    BY <2>3, <2>4 DEF Ingest
  <2> QED BY <2>3, <2>5
<1> QED BY <1>7, <1>8, <1>9, <1>10 DEF ScanInv

LEMMA ScanInvHolds == ScanSpec => []ScanInv
<1>1. ASSUME ScanInv, [ScanNext]_scanVars PROVE ScanInv'
  BY <1>1, QuietStepKeeps, WriteRecordKeeps, GoOnKeeps, RefreshKeepsCount DEF ScanNext
<1> QED BY <1>1, ScanInvInitially, PTL DEF ScanSpec

\* The source and what was counted of it stay within their types and bounds.
THEOREM ScanTypes == ScanSpec => []ScanTypeOK
<1>1. ScanInv => ScanTypeOK
  <2> SUFFICES ASSUME ScanStates PROVE ScanTypeOK
    BY DEF ScanInv
  <2>1. \A p \in Paths : \A i \in DOMAIN files[p] : files[p][i] \in Record
    BY DEF ScanStates
  <2> QED BY <2>1 DEF ScanStates, ScanTypeOK
<1> QED BY <1>1, ScanInvHolds, PTL

\* Turns of bundled or mirrored agents are left to their own adapters
\* (is_excluded_provider, NATIVE_PROVIDERS).
THEOREM OnlyOwnTurns == ScanSpec => []OwnTurnsOnly
BY ScanInvHolds, PTL DEF ScanInv

\* A corrupt record, an unfinished one or another file hides none of the records
\* that can be read, whatever was read before, by any adapter (scan_directory).
THEOREM NothingIsPassedOver == ScanSpec => []ReadableIsCounted
BY ScanInvHolds, PTL DEF ScanInv

\* An adapter is detected, and healthy, only if a scan of its source would count
\* something, although Claude looks at its files in another way than it scans.
THEOREM DetectionHasSomethingToCount == ScanSpec => []DetectionIsBacked
<1>1. ScanInv => DetectionIsBacked
  <2> SUFFICES ASSUME ScanInv, fact.detects # "table", WithinBounds, NEW ps \in CollectFiles,
                      Health(ps) = "healthy"
               PROVE  root = "present" /\ Samples(ps) # {}
    BY DEF DetectionIsBacked
  <2>1. ScanStates /\ SourceIsWhole
    BY DEF ScanInv
  <2>2. Detected(ps) /\ root = "present"
    BY DEF Health, Detected
  <2>3. fact.detects \in {"samples", "recent"} /\ (fact.detects = "recent" => fact.reads = "tree")
        /\ (fact.turns = "own" => fact.reads \in {"messages", "glm"})
    BY <2>1, FactsOfAdapters DEF ScanStates
  <2>4. CASE fact.detects = "samples"
    BY <2>2, <2>4 DEF Detected
  <2>5. CASE fact.detects = "recent"
    <3>1. PICK x \in Places(ps \cap {1}) : Readable(x)
      BY <2>2, <2>5 DEF Detected
    <3>2. x \in Places(Paths)
      <4>1. ps \cap {1} \subseteq Paths
        BY BoundsOfScan
      <4> QED BY <4>1, PlacesGrow
    <3>3. At(x).by = "own"
      BY <2>1, <2>3, <2>5, <3>2, OwnUnlessMixed
    <3> QED BY <2>1, <2>2, <3>1, <3>2, <3>3, WholeSourceIsRead
  <2> QED BY <2>3, <2>4, <2>5
<1> QED BY <1>1, ScanInvHolds, PTL

-----------------------------------------------------------------------------
(* What is counted has records of its own *)

LabelOf(x) == IF fact.label = "task" THEN taskModel[x[1]] ELSE At(x).model
SampledFrom(e, x) == x \in Places(Paths) /\ Readable(x) /\ e = Sample(At(x), LabelOf(x))

\* As long as no record that was read is changed, a counted event is still what a
\* record says, with the label it has.
AsTheyAre == ~restated => \A e \in counted : \E x : SampledFrom(e, x)

OwnRecords == replaces => EachHasItsRecord

\* Events that are what records say have records of their own: what a record says
\* is one event.
LEMMA SampledHaveRecords ==
  ASSUME ScanStates, NEW S, \A e \in S : \E x : SampledFrom(e, x)
  PROVE  \E of \in Injection(S, Places(Paths)) : \A e \in S : HasRecord(e, of[e])
<1> DEFINE of == [e \in S |-> CHOOSE x : SampledFrom(e, x)]
<1>1. ASSUME NEW e \in S PROVE SampledFrom(e, of[e])
  <2>1. \E x : SampledFrom(e, x)
    OBVIOUS
  <2> QED BY <2>1
<1> HIDE DEF of
<1>2. of \in [S -> Places(Paths)]
  <2>1. DOMAIN of = S /\ of = [e \in S |-> of[e]]
    BY DEF of
  <2>2. \A e \in S : of[e] \in Places(Paths)
    BY <1>1 DEF SampledFrom
  <2> QED BY <2>1, <2>2
<1>3. IsInjective(of)
  <2> SUFFICES ASSUME NEW a \in S, NEW b \in S, of[a] = of[b] PROVE a = b
    BY <1>2 DEF IsInjective
  <2>1. a = Sample(At(of[a]), LabelOf(of[a])) /\ b = Sample(At(of[b]), LabelOf(of[b]))
    BY <1>1 DEF SampledFrom
  <2> QED BY <2>1
<1>4. ASSUME NEW e \in S PROVE HasRecord(e, of[e])
  <2>1. Readable(of[e]) /\ e = Sample(At(of[e]), LabelOf(of[e])) /\ of[e] \in Places(Paths)
    BY <1>1 DEF SampledFrom
  <2>2. e.by = At(of[e]).by /\ e.n = At(of[e]).n
    BY <2>1 DEF Sample
  <2>3. At(of[e]).n \in Nat
    <3>1. At(of[e]) \in Record
      BY <2>1, PlaceIsRecord
    <3> QED BY <3>1, BoundsOfScan DEF Record
  <2> QED BY <2>1, <2>2, <2>3 DEF HasRecord
<1>5. of \in Injection(S, Places(Paths))
  BY <1>2, <1>3 DEF Injection
<1> QED BY <1>4, <1>5

\* What an adapter samples, whatever it can read, is what records say.
LEMMA SamplesAreOfRecords ==
  ASSUME ScanStates, SourceIsWhole, NEW ps \in SUBSET Paths, NEW e \in Samples(ps)
  PROVE  \E x : SampledFrom(e, x)
<1>1. fact.reads \in Reads /\ (fact.label = "task" => fact.reads = "tasks")
  BY FactsOfAdapters DEF ScanStates
<1>2. ASSUME NEW x \in Places(Paths), Readable(x), e = Sample(At(x), LabelOf(x))
      PROVE  \E y : SampledFrom(e, y)
  BY <1>2 DEF SampledFrom
<1>3. ASSUME NEW qs \in SUBSET Paths, e \in Walk(qs), fact.label # "task"
      PROVE  \E x : SampledFrom(e, x)
  <2>1. PICK x \in Places(qs) : Readable(x) /\ e = Sample(At(x), At(x).model)
    BY <1>3 DEF Walk
  <2>2. x \in Places(Paths)
    BY PlacesGrow
  <2> QED BY <1>2, <1>3, <2>1, <2>2 DEF LabelOf
<1>4. ASSUME NEW p \in Paths, e \in MessageSamples(p), fact.label # "task"
      PROVE  \E x : SampledFrom(e, x)
  <2>1. PICK x \in ReadMessages(p) : Readable(x) /\ e = Sample(At(x), At(x).model)
    BY <1>4 DEF MessageSamples
  <2>2. x \in Places(Paths)
    BY ReadMessagesArePlaces
  <2> QED BY <1>2, <1>4, <2>1, <2>2 DEF LabelOf
<1>5. CASE fact.reads = "tree"
  <2>1. ScanDirectory(ps) \in SUBSET Paths /\ e \in Walk(ScanDirectory(ps))
    BY <1>5 DEF ScanDirectory, Samples
  <2> QED BY <1>1, <1>3, <1>5, <2>1
<1>6. CASE fact.reads = "tasks"
  <2>1. PICK x \in Places({p \in ps : Fits(p)}) : Readable(x) /\ e = Sample(At(x), LabelOf(x))
    BY <1>6 DEF Samples, UiSamples, LabelOf
  <2>2. x \in Places(Paths)
    <3>1. {p \in ps : Fits(p)} \subseteq Paths
      OBVIOUS
    <3> QED BY <3>1, PlacesGrow
  <2> QED BY <1>2, <2>1, <2>2
<1>7. CASE fact.reads = "wire"
  <2>1. KimiFiles(ps) \in SUBSET Paths /\ e \in Walk(KimiFiles(ps))
    BY <1>7 DEF KimiFiles, Samples
  <2> QED BY <1>1, <1>3, <1>7, <2>1
<1>8. CASE fact.reads = "messages"
  BY <1>1, <1>4, <1>8, BoundsOfScan DEF Samples
<1>9. CASE fact.reads = "sessions"
  <2>1. {1} \in SUBSET Paths /\ e \in Walk({1})
    BY <1>9, BoundsOfScan DEF Samples, SessionRows
  <2> QED BY <1>1, <1>3, <1>9, <2>1
<1>10. CASE fact.reads = "glm"
  <2>1. \/ \E x \in Places(ScanDirectory(ps \cap {1})) : Readable(x) /\ e = Sample(At(x), At(x).model)
        \/ \E p \in ps \cap {2} : e \in MessageSamples(p)
    <3>1. e \in GlmSamples(ps)
      BY <1>10 DEF Samples
    <3> QED BY <3>1 DEF GlmSamples
  <2>2. CASE \E x \in Places(ScanDirectory(ps \cap {1})) : Readable(x) /\ e = Sample(At(x), At(x).model)
    <3>1. PICK x \in Places(ScanDirectory(ps \cap {1})) : Readable(x) /\ e = Sample(At(x), At(x).model)
      BY <2>2
    <3>2. x \in Places(Paths)
      <4>1. ScanDirectory(ps \cap {1}) \subseteq Paths
        BY DEF ScanDirectory
      <4> QED BY <4>1, PlacesGrow
    <3> QED BY <1>1, <1>2, <1>10, <3>1, <3>2 DEF LabelOf
  <2>3. CASE \E p \in ps \cap {2} : e \in MessageSamples(p)
    BY <1>1, <1>4, <1>10, <2>3
  <2> QED BY <2>1, <2>2, <2>3
<1> QED BY <1>1, <1>5, <1>6, <1>7, <1>8, <1>9, <1>10 DEF Reads

LEMMA OwnInitially == ScanInit => AsTheyAre /\ OwnRecords
<1> SUFFICES ASSUME ScanInit PROVE AsTheyAre /\ OwnRecords
  OBVIOUS
<1>1. counted = {}
  BY DEF ScanInit
<1>2. EachHasItsRecord
  BY <1>1, SampledHaveRecords, ScanInvInitially DEF EachHasItsRecord, ScanInv
<1> QED BY <1>1, <1>2 DEF AsTheyAre, OwnRecords

\* A step that keeps the records that can be read, or adds to them, keeps what is
\* counted in line with them.
LEMMA OwnKept ==
  ASSUME ScanStates, ScanStates', AsTheyAre, OwnRecords,
         adapter' = adapter, counted' = counted, restated => restated',
         \A x \in Places(Paths) : Readable(x) =>
           /\ x \in Places(Paths)' /\ (Readable(x))'
           /\ (At(x))'.by = At(x).by /\ At(x).n <= (At(x))'.n
           /\ restated' \/ ((At(x))' = At(x) /\ (LabelOf(x))' = LabelOf(x))
  PROVE  AsTheyAre' /\ OwnRecords'
<1>1. AsTheyAre'
  <2> SUFFICES ASSUME ~restated', NEW e \in counted PROVE (\E x : SampledFrom(e, x))'
    BY DEF AsTheyAre
  <2>1. PICK x : SampledFrom(e, x)
    BY DEF AsTheyAre
  <2>2. (SampledFrom(e, x))'
    BY <2>1 DEF SampledFrom, Sample
  <2> QED BY <2>2
<1>2. OwnRecords'
  <2> SUFFICES ASSUME replaces PROVE EachHasItsRecord'
    BY DEF OwnRecords, replaces
  <2>1. PICK of \in Injection(counted, Places(Paths)) : \A e \in counted : HasRecord(e, of[e])
    BY DEF OwnRecords, EachHasItsRecord
  <2>2. of \in [counted -> Places(Paths)] /\ IsInjective(of)
    BY <2>1 DEF Injection
  <2>3. ASSUME NEW e \in counted PROVE of[e] \in Places(Paths)' /\ (HasRecord(e, of[e]))'
    <3>1. of[e] \in Places(Paths) /\ HasRecord(e, of[e])
      BY <2>1, <2>2
    <3> DEFINE x == of[e]
    <3> HIDE DEF x
    <3>2. Readable(x) /\ At(x).by = e.by /\ e.n <= At(x).n /\ x \in Places(Paths)
      BY <3>1 DEF HasRecord, x
    <3>3. /\ x \in Places(Paths)' /\ (Readable(x))'
          /\ (At(x))'.by = At(x).by /\ At(x).n <= (At(x))'.n
      BY <3>2
    <3>4. e.n \in Nat
      BY BoundsOfScan DEF ScanStates, Event
    <3>5. At(x).n \in Nat
      <4>1. At(x) \in Record
        BY <3>2, PlaceIsRecord
      <4> QED BY <4>1, BoundsOfScan DEF Record
    <3>6. (At(x))'.n \in Nat
      <4>1. (At(x))' \in Record
        <5>1. x[1] \in Paths /\ x[2] \in DOMAIN files'[x[1]]
          BY <3>3 DEF Places
        <5>2. files'[x[1]] \in Seq(Record)
          BY <5>1 DEF ScanStates
        <5> QED BY <5>1, <5>2 DEF At
      <4> QED BY <4>1, BoundsOfScan DEF Record
    <3>7. e.n <= (At(x))'.n
      BY <3>2, <3>3, <3>4, <3>5, <3>6
    <3>8. (HasRecord(e, x))'
      BY <3>2, <3>3, <3>7 DEF HasRecord
    <3> QED BY <3>3, <3>8 DEF x
  <2>4. of \in Injection(counted, Places(Paths))'
    <3>1. of \in [counted' -> Places(Paths)']
      BY <2>2, <2>3
    <3> QED BY <2>2, <3>1 DEF Injection
  <2> QED BY <2>3, <2>4 DEF EachHasItsRecord
<1> QED BY <1>1, <1>2

LEMMA QuietStepKeepsOwn ==
  ASSUME ScanInv, ScanInv', AsTheyAre, OwnRecords,
         Install \/ Lock \/ Tick \/ (\E p \in Paths : SwitchModel(p)) \/ UNCHANGED scanVars
  PROVE  AsTheyAre' /\ OwnRecords'
<1>1. adapter' = adapter /\ files' = files /\ counted' = counted /\ (restated => restated')
  <2>1. CASE \E p \in Paths : SwitchModel(p)
    BY <2>1 DEF SwitchModel
  <2>2. CASE Install \/ Lock \/ Tick \/ UNCHANGED scanVars
    <3>1. adapter' = adapter /\ files' = files /\ counted' = counted /\ restated' = restated
      BY <2>2 DEF Install, Lock, Tick, scanVars
    <3> QED BY <3>1
  <2> QED BY <2>1, <2>2
<1>2. ScanStates /\ ScanStates'
  BY DEF ScanInv
<1>3. ASSUME NEW x \in Places(Paths), Readable(x)
      PROVE  restated' \/ (LabelOf(x))' = LabelOf(x)
  <2>1. CASE taskModel' = taskModel
    BY <1>1, <2>1 DEF LabelOf, At, fact
  <2>2. CASE \E p \in Paths : SwitchModel(p)
    <3>1. PICK p \in Paths : SwitchModel(p)
      BY <2>2
    <3>2. CASE x[1] = p /\ fact.label = "task"
      <4>1. x[2] \in DOMAIN files[p] /\ files[p][x[2]].n > 0
        BY <1>3, <3>2 DEF Places, Readable, At
      <4> QED BY <3>1, <3>2, <4>1 DEF SwitchModel
    <3>3. CASE x[1] # p \/ fact.label # "task"
      <4>1. taskModel'[x[1]] = taskModel[x[1]] \/ fact.label # "task"
        BY <1>2, <3>1, <3>3 DEF SwitchModel, ScanStates
      <4> QED BY <1>1, <4>1 DEF LabelOf, At, fact
    <3> QED BY <3>2, <3>3
  <2> QED BY <2>1, <2>2 DEF Install, Lock, Tick, scanVars
<1>4. ASSUME NEW x \in Places(Paths), Readable(x)
      PROVE  /\ x \in Places(Paths)' /\ (Readable(x))' /\ (At(x))' = At(x)
             /\ At(x).n <= (At(x))'.n
  <2>1. At(x).n \in Nat
    <3>1. At(x) \in Record
      BY <1>2, PlaceIsRecord
    <3> QED BY <3>1, BoundsOfScan DEF Record
  <2> QED BY <1>1, <1>4, <2>1, RecordsStay
<1> QED BY <1>1, <1>2, <1>3, <1>4, OwnKept

LEMMA WriteRecordKeepsOwn ==
  ASSUME ScanInv, ScanInv', AsTheyAre, OwnRecords,
         NEW p \in Paths, NEW n \in 0..MaxTokens, NEW by \in Servers, Write(p, n, by)
  PROVE  AsTheyAre' /\ OwnRecords'
<1>1. ScanStates /\ ScanStates'
  BY DEF ScanInv
<1>2. PICK r : files' = [files EXCEPT ![p] = Append(files[p], r)]
  BY DEF Write
<1>3. UNCHANGED <<adapter, taskModel, counted, restated>>
  BY DEF Write
<1>4. ASSUME NEW x \in Places(Paths), Readable(x)
      PROVE  /\ x \in Places(Paths)' /\ (At(x))' = At(x) /\ At(x).n \in Nat
  <2>1. x[1] \in Paths /\ x[2] \in 1..Len(files[x[1]]) /\ At(x) \in Record
    BY <1>1, PlaceIsRecord
  <2>2. /\ x[2] \in DOMAIN files'[x[1]] /\ files'[x[1]][x[2]] = files[x[1]][x[2]]
    <3>1. CASE x[1] = p
      <4>1. files[p] \in Seq(Record) /\ files'[p] = Append(files[p], r)
        BY <1>1, <1>2 DEF ScanStates
      <4> QED BY <2>1, <3>1, <4>1
    <3>2. CASE x[1] # p
      <4>1. files'[x[1]] = files[x[1]] /\ files[x[1]] \in Seq(Record)
        BY <1>1, <1>2, <2>1, <3>2 DEF ScanStates
      <4> QED BY <2>1, <4>1
    <3> QED BY <3>1, <3>2
  <2>3. x \in Places(Paths)'
    BY <2>2 DEF Places
  <2>4. At(x).n \in Nat
    BY <2>1, BoundsOfScan DEF Record
  <2> QED BY <2>2, <2>3, <2>4 DEF At
<1>5. \A x \in Places(Paths) : Readable(x) =>
        /\ x \in Places(Paths)' /\ (Readable(x))'
        /\ (At(x))'.by = At(x).by /\ At(x).n <= (At(x))'.n
        /\ (At(x))' = At(x) /\ (LabelOf(x))' = LabelOf(x)
  BY <1>3, <1>4 DEF Readable, LabelOf, fact
<1> QED BY <1>1, <1>3, <1>5, OwnKept

LEMMA GoOnKeepsOwn ==
  ASSUME ScanInv, ScanInv', AsTheyAre, OwnRecords,
         NEW p \in Paths, NEW i \in 1..MaxRecords, NEW n \in 1..MaxTokens, GoOn(p, i, n)
  PROVE  AsTheyAre' /\ OwnRecords'
<1>1. ScanStates /\ ScanStates'
  BY DEF ScanInv
<1> DEFINE at == IF fact.reads # "tasks" /\ adapter # "hermes" THEN time ELSE files[p][i].at
           r == [files[p][i] EXCEPT !.n = n, !.at = at]
<1>2. /\ files[p] \in Seq(Record) /\ i \in DOMAIN files[p] /\ n > files[p][i].n
      /\ files' = [files EXCEPT ![p] = [files[p] EXCEPT ![i] = r]]
      /\ restated' = (restated \/ files[p][i].n > 0)
      /\ UNCHANGED <<adapter, taskModel, counted>>
  BY <1>1 DEF GoOn, ScanStates
<1>3. files[p][i] \in Record /\ n \in Nat
  BY <1>2, BoundsOfScan
<1>4. r.n = n /\ r.by = files[p][i].by /\ r.ok = files[p][i].ok
  <2> HIDE DEF at
  <2> QED BY <1>3 DEF Record
<1> HIDE DEF r
<1>5. ASSUME NEW x \in Places(Paths), Readable(x)
      PROVE  /\ x \in Places(Paths)' /\ (Readable(x))'
             /\ (At(x))'.by = At(x).by /\ At(x).n <= (At(x))'.n
             /\ restated' \/ ((At(x))' = At(x) /\ (LabelOf(x))' = LabelOf(x))
  <2>1. x[1] \in Paths /\ x[2] \in 1..Len(files[x[1]]) /\ At(x) \in Record
    BY <1>1, PlaceIsRecord
  <2>2. At(x).n \in Nat /\ At(x).ok /\ At(x).n > 0
    BY <1>5, <2>1, BoundsOfScan DEF Record, Readable
  <2>3. files'[x[1]] \in Seq(Record) /\ Len(files'[x[1]]) = Len(files[x[1]])
    BY <1>1, <1>2, <2>1 DEF ScanStates
  <2>4. x \in Places(Paths)'
    BY <2>1, <2>3 DEF Places
  <2>5. CASE x[1] = p /\ x[2] = i
    <3>1. At(x) = files[p][i] /\ (At(x))' = r
      BY <1>1, <1>2, <2>5 DEF At, ScanStates
    <3>2. (At(x))'.n = n /\ (At(x))'.by = At(x).by /\ (At(x))'.ok /\ n > At(x).n /\ restated'
      BY <1>2, <1>4, <2>2, <3>1
    <3>3. (At(x))'.n > 0 /\ At(x).n <= (At(x))'.n
      BY <1>3, <2>2, <3>2
    <3> QED BY <2>4, <3>2, <3>3 DEF Readable
  <2>6. CASE ~(x[1] = p /\ x[2] = i)
    <3>1. (At(x))' = At(x)
      BY <1>1, <1>2, <2>1, <2>6 DEF At, ScanStates
    <3>2. (LabelOf(x))' = LabelOf(x)
      BY <1>2, <3>1 DEF LabelOf, fact
    <3> QED BY <2>2, <2>4, <3>1, <3>2 DEF Readable
  <2> QED BY <2>5, <2>6
<1>6. restated => restated'
  BY <1>2
<1> QED BY <1>1, <1>2, <1>5, <1>6, OwnKept

\* A refresh adds what records say; the full scan of OpenCode has nothing else.
LEMMA RefreshKeepsOwn ==
  ASSUME ScanInv, ScanInv', AsTheyAre, OwnRecords, NEW unread \in SUBSET Paths, Refresh(unread)
  PROVE  AsTheyAre' /\ OwnRecords'
<1>1. ScanStates /\ SourceIsWhole
  BY DEF ScanInv
<1>2. PICK ps \in CollectFiles :
        counted' = IF Unavailable(Samples(ps \ unread)) THEN counted
                   ELSE Ingest(Samples(ps \ unread))
  BY DEF Refresh
<1>3. UNCHANGED <<adapter, root, files, taskModel, time, restated>>
  BY DEF Refresh
<1> DEFINE samples == Samples(ps \ unread)
<1>4. ps \ unread \in SUBSET Paths
  BY CollectedArePaths
<1>5. \A e \in samples : \E x : SampledFrom(e, x)
  BY <1>1, <1>4, SamplesAreOfRecords
<1> HIDE DEF samples
<1>6. \/ counted' = counted
      \/ replaces /\ samples # {} /\ counted' = samples
      \/ ~replaces /\ counted' = counted \cup samples
  BY <1>2 DEF Ingest, samples
<1>7. \A e, x : (SampledFrom(e, x))' <=> SampledFrom(e, x)
  BY <1>3 DEF SampledFrom, Places, Readable, At, Sample, LabelOf, fact
<1>8. AsTheyAre'
  <2> SUFFICES ASSUME ~restated, NEW e \in counted' PROVE \E x : SampledFrom(e, x)
    BY <1>3, <1>7 DEF AsTheyAre
  <2>1. CASE e \in samples
    BY <1>5, <2>1
  <2>2. CASE e \in counted
    BY <2>2 DEF AsTheyAre
  <2> QED BY <1>6, <2>1, <2>2
<1>9. OwnRecords'
  <2> SUFFICES ASSUME replaces PROVE EachHasItsRecord'
    BY <1>3 DEF OwnRecords, replaces
  <2>1. \E of \in Injection(counted', Places(Paths)) : \A e \in counted' : HasRecord(e, of[e])
    <3>1. CASE counted' = counted
      BY <3>1 DEF OwnRecords, EachHasItsRecord
    <3>2. CASE counted' = samples
      BY <1>1, <1>5, <3>2, SampledHaveRecords
    <3> QED BY <1>6, <3>1, <3>2
  <2>2. /\ Places(Paths)' = Places(Paths)
        /\ \A e, x : (HasRecord(e, x))' <=> HasRecord(e, x)
    BY <1>3 DEF Places, HasRecord, Readable, At
  <2> QED BY <2>1, <2>2 DEF EachHasItsRecord
<1> QED BY <1>8, <1>9

LEMMA OwnHolds == ScanSpec => [](AsTheyAre /\ OwnRecords)
<1>1. ASSUME ScanInv, ScanInv', AsTheyAre, OwnRecords, [ScanNext]_scanVars
      PROVE  AsTheyAre' /\ OwnRecords'
  BY <1>1, QuietStepKeepsOwn, WriteRecordKeepsOwn, GoOnKeepsOwn, RefreshKeepsOwn DEF ScanNext
<1> QED BY <1>1, OwnInitially, ScanInvHolds, PTL DEF ScanSpec

\* "The same local record ingested twice is recognised as a duplicate instead of
\* being counted again" (fnv1a, usage_events): every counted event has a record of
\* its own with at least its tokens, unless records were changed that had been read;
\* for OpenCode, whose scan replaces, even then.
THEOREM NothingIsCountedTwice == ScanSpec => []NeverOvercounts
<1>1. ScanInv /\ AsTheyAre /\ OwnRecords => NeverOvercounts
  BY SampledHaveRecords DEF ScanInv, AsTheyAre, OwnRecords, NeverOvercounts, EachHasItsRecord
<1> QED BY <1>1, ScanInvHolds, OwnHolds, PTL

\* After every refresh the usage of a source is what its records say: nothing twice,
\* nothing of others, nothing passed over, and detection knows of it.
THEOREM ScansCountRight == ScanSpec => []ScanCountsRight
BY NothingIsCountedTwice, OnlyOwnTurns, NothingIsPassedOver, DetectionHasSomethingToCount, PTL
   DEF ScanCountsRight

-----------------------------------------------------------------------------
(* Quota windows: the constructors and the gauges *)

\* What the slot p may say of a period k in which u of a were used.
SlotSays(p, k, u, a) ==
  /\ p.kind = k
  /\ p.used \in {Absent, u}
  /\ p.limit \in {Absent, a}
  /\ p.remaining \in {Absent, IF u > a THEN 0 ELSE a - u}
  /\ p.percent \in Nat \cup {Absent}
  /\ p.percent \in {Absent, Share(u, a), Share(u, a) - 1}

\* A window of the period k, or none.
SoundWindow(w, k) == w = None \/ (w.key = k /\ Consistent(w))

\* It shows the share t, or one that the provider has rounded.
Near(w, t) == w.percent # Absent => w.percent \in (t - 1)..t

LEMMA ShareIsNumber ==
  ASSUME NEW u \in Nat, NEW l \in Nat \ {0}
  PROVE  Share(u, l) \in Nat
BY DEF Share, All

LEMMA ClampIsPercentage ==
  ASSUME NEW p \in Int
  PROVE  Clamp(p) \in 0..All /\ Clamp(p) \in Nat /\ (p \in 0..All => Clamp(p) = p)
         /\ \A q \in Int : q = p - 1 /\ q >= 0 => Clamp(q) \in (Clamp(p) - 1)..Clamp(p)
BY DEF Clamp, All

LEMMA LimitWindow ==
  ASSUME NEW k, NEW u \in Nat, NEW l \in Nat \ {0}
  PROVE  /\ SoundWindow(WithLimit(k, u, l), k)
         /\ WithLimit(k, u, l).percent = Clamp(Share(u, l))
<1> DEFINE percent == Clamp(Share(u, l))
           w == WithLimit(k, u, l)
<1>1. percent \in 0..All
  BY ShareIsNumber, ClampIsPercentage
<1>2. w = [key |-> k, used |-> u, limit |-> l, remaining |-> IF u > l THEN 0 ELSE l - u,
           percent |-> percent, left |-> All - percent, unlimited |-> FALSE]
  BY DEF WithLimit, Window, Share
<1> HIDE DEF percent, w
<1>3. /\ w.key = k /\ w.used = u /\ w.limit = l /\ w.remaining = IF u > l THEN 0 ELSE l - u
      /\ w.percent = percent /\ w.left = All - percent /\ w.unlimited = FALSE
  BY <1>2
<1>4. Consistent(w)
  BY <1>1, <1>3 DEF Consistent, Absent, All
<1> QED BY <1>3, <1>4 DEF SoundWindow, percent, w

LEMMA PercentWindow ==
  ASSUME NEW k, NEW p \in Int
  PROVE  /\ SoundWindow(FromPercent(k, p), k)
         /\ FromPercent(k, p).percent = Clamp(p) /\ FromPercent(k, p).left = All - Clamp(p)
         /\ FromPercent(k, p).limit = Absent /\ FromPercent(k, p).remaining = Absent
<1> DEFINE percent == Clamp(p)
           w == FromPercent(k, p)
<1>1. percent \in 0..All
  BY ClampIsPercentage
<1>2. w = [key |-> k, used |-> 0, limit |-> Absent, remaining |-> Absent,
           percent |-> percent, left |-> All - percent, unlimited |-> FALSE]
  BY DEF FromPercent, Window
<1> HIDE DEF percent, w
<1>3. /\ w.key = k /\ w.limit = Absent /\ w.remaining = Absent
      /\ w.percent = percent /\ w.left = All - percent /\ w.unlimited = FALSE
  BY <1>2
<1>4. Consistent(w)
  BY <1>1, <1>3 DEF Consistent, Absent, All
<1> QED BY <1>3, <1>4 DEF SoundWindow, percent, w

LEMMA UseWindow ==
  ASSUME NEW k, NEW u
  PROVE  SoundWindow(UsageOnly(k, u), k) /\ UsageOnly(k, u).percent = Absent
BY DEF UsageOnly, Window, SoundWindow, Consistent

LEMMA NoWindow ==
  /\ \A k : SoundWindow(None, k)
  /\ None.percent = Absent
BY DEF SoundWindow, None, Window

\* The amounts of a slot, whichever were published, give the share that was used.
LEMMA AmountsAgree ==
  ASSUME NEW u \in Nat, NEW a \in 1..400
  PROVE  /\ a \in Nat \ {0}
         /\ LET r == IF u > a THEN 0 ELSE a - u
            IN r \in 0..a /\ Clamp(Share(a - r, a)) = Clamp(Share(u, a))
         /\ LET m == IF u > a THEN a ELSE u
            IN m \in Nat /\ Clamp(Share(m, a)) = Clamp(Share(u, a))
<1>1. a \in 1..400
  OBVIOUS
<1>2. CASE u <= a
  <2>1. a - (a - u) = u
    BY <1>1, <1>2
  <2> QED BY <1>1, <1>2, <2>1
<1>3. CASE u > a
  <2>1. (a * 200) \div a = 200
    BY <1>1
  <2>2. (u * 200) \div a >= 200 /\ (u * 200) \div a \in Nat
    BY <1>1, <1>3
  <2>3. Clamp(Share(a, a)) = 200 /\ Clamp(Share(u, a)) = 200
    BY <2>1, <2>2 DEF Clamp, Share, All
  <2> QED BY <1>1, <1>3, <2>3
<1> QED BY <1>1, <1>2, <1>3

\* A published percentage is within a half point of the share.
LEMMA RoundedIsNear ==
  ASSUME NEW u \in Nat, NEW a \in Nat \ {0}, NEW k, NEW p, SlotSays(p, k, u, a), p.percent # Absent
  PROVE  p.percent \in Nat /\ Clamp(p.percent) \in (Clamp(Share(u, a)) - 1)..Clamp(Share(u, a))
<1> DEFINE s == Share(u, a)
<1>1. s \in Nat
  BY ShareIsNumber
<1>2. p.percent \in Nat /\ p.percent \in {s, s - 1}
  BY DEF SlotSays
<1> HIDE DEF s
<1>3. Clamp(s) \in Nat
  BY <1>1, ClampIsPercentage
<1>4. Clamp(p.percent) \in (Clamp(s) - 1)..Clamp(s)
  BY <1>1, <1>2, <1>3, ClampIsPercentage
<1> QED BY <1>2, <1>4 DEF s

-----------------------------------------------------------------------------
(* Every gauge is sound, and near unless its parser guesses *)

LEMMA WhatASlotHas ==
  ASSUME NEW p
  PROVE  /\ Has(p, {"percent"}) <=> p.percent # Absent
         /\ Has(p, {"used"}) <=> p.used # Absent
         /\ Has(p, {"limit"}) <=> p.limit # Absent
         /\ Has(p, {"remaining"}) <=> p.remaining # Absent
         /\ Has(p, {"used", "limit"}) <=> p.used # Absent /\ p.limit # Absent
         /\ Has(p, {"limit", "used"}) <=> p.used # Absent /\ p.limit # Absent
         /\ Has(p, {"limit", "remaining"}) <=> p.limit # Absent /\ p.remaining # Absent
         /\ Has(p, {"used", "remaining"}) <=> p.used # Absent /\ p.remaining # Absent
BY DEF Has

\* The gauges of percentages and of amounts, which the others are made of.
LEMMA BasicGauges ==
  ASSUME NEW u \in Nat, NEW a \in 1..400, NEW k, NEW p, SlotSays(p, k, u, a)
  PROVE  LET t == Clamp(Share(u, a))
             good(w) == SoundWindow(w, k) /\ Near(w, t)
         IN /\ p.kind = k /\ p.used \in {Absent, u} /\ p.limit \in {Absent, a}
            /\ a \in Nat \ {0} /\ t \in Nat /\ good(None)
            /\ p.percent # Absent => good(FromPercent(p.kind, p.percent))
            /\ p.used # Absent /\ p.limit # Absent =>
                 good(FromPercent(p.kind, Share(p.used, p.limit)))
                 /\ good(WithLimit(p.kind, p.used, p.limit))
            /\ p.limit # Absent /\ p.remaining # Absent =>
                 good(FromPercent(p.kind, Share(p.limit - p.remaining, p.limit)))
<1> DEFINE t == Clamp(Share(u, a))
<1>1. /\ p.kind = k /\ p.used \in {Absent, u} /\ p.limit \in {Absent, a}
      /\ p.remaining \in {Absent, IF u > a THEN 0 ELSE a - u}
  BY DEF SlotSays
<1>2. a \in Nat \ {0} /\ Share(u, a) \in Nat /\ t \in Nat /\ t \in (t - 1)..t
  <2>1. a \in Nat \ {0}
    OBVIOUS
  <2>2. Share(u, a) \in Nat
    BY <2>1, ShareIsNumber
  <2>3. t \in Nat
    BY <2>2, ClampIsPercentage
  <2> HIDE DEF t
  <2> QED BY <2>1, <2>2, <2>3
<1>3. SoundWindow(None, k) /\ Near(None, t)
  BY NoWindow DEF Near
<1>4. ASSUME p.percent # Absent
      PROVE  SoundWindow(FromPercent(k, p.percent), k) /\ Near(FromPercent(k, p.percent), t)
  <2>1. p.percent \in Nat /\ Clamp(p.percent) \in (t - 1)..t
    BY <1>2, <1>4, RoundedIsNear
  <2> HIDE DEF t
  <2>2. SoundWindow(FromPercent(k, p.percent), k) /\ FromPercent(k, p.percent).percent = Clamp(p.percent)
    BY <2>1, PercentWindow
  <2> QED BY <2>1, <2>2 DEF Near
<1>5. /\ SoundWindow(FromPercent(k, Share(u, a)), k) /\ Near(FromPercent(k, Share(u, a)), t)
      /\ SoundWindow(WithLimit(k, u, a), k) /\ Near(WithLimit(k, u, a), t)
  <2>1. /\ SoundWindow(FromPercent(k, Share(u, a)), k) /\ FromPercent(k, Share(u, a)).percent = t
    BY <1>2, PercentWindow
  <2>2. SoundWindow(WithLimit(k, u, a), k) /\ WithLimit(k, u, a).percent = t
    BY <1>2, LimitWindow
  <2> HIDE DEF t
  <2> QED BY <1>2, <2>1, <2>2 DEF Near
<1>6. LET r == IF u > a THEN 0 ELSE a - u
      IN SoundWindow(FromPercent(k, Share(a - r, a)), k) /\ Near(FromPercent(k, Share(a - r, a)), t)
  <2> DEFINE r == IF u > a THEN 0 ELSE a - u
  <2>1. r \in 0..a /\ Clamp(Share(a - r, a)) = t
    BY AmountsAgree
  <2> HIDE DEF r, t
  <2>2. a - r \in Nat
    BY <1>2, <2>1
  <2>3. Share(a - r, a) \in Nat
    BY <1>2, <2>2, ShareIsNumber
  <2>4. SoundWindow(FromPercent(k, Share(a - r, a)), k) /\ FromPercent(k, Share(a - r, a)).percent = t
    BY <2>1, <2>3, PercentWindow
  <2>5. SoundWindow(FromPercent(k, Share(a - r, a)), k) /\ Near(FromPercent(k, Share(a - r, a)), t)
    BY <1>2, <2>4 DEF Near
  <2> QED BY <2>5 DEF r, t
<1> HIDE DEF t
<1>7. ASSUME p.used # Absent, p.limit # Absent PROVE p.used = u /\ p.limit = a
  BY <1>1, <1>7
<1>8. ASSUME p.limit # Absent, p.remaining # Absent
      PROVE  p.limit = a /\ p.remaining = IF u > a THEN 0 ELSE a - u
  BY <1>1, <1>8
<1> QED BY <1>1, <1>2, <1>3, <1>4, <1>5, <1>6, <1>7, <1>8 DEF t

\* The gauges of the parsers that do not guess.
LEMMA FairGauges ==
  ASSUME NEW u \in Nat, NEW a \in 1..400, NEW k, NEW p, SlotSays(p, k, u, a)
  PROVE  LET t == Clamp(Share(u, a))
             good(w) == SoundWindow(w, k) /\ Near(w, t)
         IN /\ good(PercentGauge(p)) /\ good(CodexCredits(p)) /\ good(CopilotGauge(p))
            /\ good(OpenRouterGauge(p)) /\ good(CommandCodeGauge(p)) /\ good(ArkGauge(p))
            /\ good(FractionGauge(p)) /\ (RowTotal(p) = p.limit => good(ZCodeGauge(p)))
            /\ good(BalanceGauge(p)) /\ good(QoderGauge(p))
<1> DEFINE t == Clamp(Share(u, a))
           good(w) == SoundWindow(w, k) /\ Near(w, t)
<1>1. /\ p.kind = k /\ p.used \in {Absent, u} /\ p.limit \in {Absent, a}
      /\ a \in Nat \ {0} /\ t \in Nat /\ good(None)
      /\ p.percent # Absent => good(FromPercent(p.kind, p.percent))
      /\ p.used # Absent /\ p.limit # Absent =>
           good(FromPercent(p.kind, Share(p.used, p.limit)))
           /\ good(WithLimit(p.kind, p.used, p.limit))
      /\ p.limit # Absent /\ p.remaining # Absent =>
           good(FromPercent(p.kind, Share(p.limit - p.remaining, p.limit)))
  BY BasicGauges
<1>2. good(UsageOnly(p.kind, p.used))
  BY <1>1, UseWindow DEF Near
<1>3. p.used # Absent /\ p.limit # Absent =>
        good(WithLimit(p.kind, IF p.used > p.limit THEN p.limit ELSE p.used, p.limit))
  <2> SUFFICES ASSUME p.used # Absent, p.limit # Absent
               PROVE  good(WithLimit(k, IF u > a THEN a ELSE u, a))
    BY <1>1
  <2> DEFINE m == IF u > a THEN a ELSE u
  <2>1. m \in Nat /\ Clamp(Share(m, a)) = t
    BY AmountsAgree
  <2> HIDE DEF m, t
  <2>2. SoundWindow(WithLimit(k, m, a), k) /\ WithLimit(k, m, a).percent = t
    BY <1>1, <2>1, LimitWindow
  <2> QED BY <1>1, <2>2 DEF Near, m
<1>4. p.percent \in 0..All => p.percent # Absent
  BY DEF Absent, All
<1> HIDE DEF good
<1>5. good(PercentGauge(p))
  BY <1>1, WhatASlotHas DEF PercentGauge
<1>6. good(CommandCodeGauge(p))
  BY <1>1, WhatASlotHas DEF CommandCodeGauge
<1> QED
  <2>1. good(CodexCredits(p))
    BY <1>1, <1>5, WhatASlotHas DEF CodexCredits
  <2>2. good(CopilotGauge(p))
    <3>1. p.limit > 0 => p.limit # Absent
      BY DEF Absent
    <3> QED BY <1>1, <3>1, WhatASlotHas DEF CopilotGauge
  <2>4. good(OpenRouterGauge(p))
    BY <1>1, <1>2, WhatASlotHas DEF OpenRouterGauge
  <2>5. good(ArkGauge(p))
    BY <1>1, <1>6, WhatASlotHas DEF ArkGauge
  <2>6. good(FractionGauge(p))
    BY <1>1, <1>4 DEF FractionGauge
  <2>7. RowTotal(p) = p.limit => good(ZCodeGauge(p))
    BY <1>1, WhatASlotHas DEF ZCodeGauge
  <2>8. good(BalanceGauge(p))
    BY <1>1, WhatASlotHas DEF BalanceGauge
  <2>9. good(QoderGauge(p))
    BY <1>1, <1>3, WhatASlotHas DEF QoderGauge
  <2> QED BY <1>5, <1>6, <2>1, <2>2, <2>4, <2>5, <2>6, <2>7, <2>8, <2>9 DEF good

\* The gauges of the parsers that take one number for another show the share too
\* when the number they need is there.
LEMMA GuessingGauges ==
  ASSUME NEW u \in Nat, NEW a \in 1..400, NEW k, NEW p, SlotSays(p, k, u, a)
  PROVE  LET t == Clamp(Share(u, a))
             good(w) == SoundWindow(w, k) /\ Near(w, t)
         IN /\ SoundWindow(OpenRouterRate(p), k) /\ SoundWindow(ZCodeGauge(p), k)
            /\ SoundWindow(KimiGauge(p), k)
            /\ (Has(p, {"limit"}) /\ ~Has(p, {"used"}) /\ ~Has(p, {"remaining"})) \/ good(KimiGauge(p))
            /\ SoundWindow(DevinGauge(p), k)
            /\ ~Has(p, {"percent"}) \/ good(DevinGauge(p))
            /\ SoundWindow(GrokGauge(p), k)
            /\ (~Has(p, {"percent"}) /\ ~Has(p, {"used", "limit"})) \/ good(GrokGauge(p))
            /\ SoundWindow(GrokHeaders(p), k)
            /\ ~Has(p, {"remaining"}) \/ good(GrokHeaders(p))
            /\ SoundWindow(OpenCodeGauge(p), k)
            /\ p.percent = 1 \/ good(OpenCodeGauge(p))
            /\ Has(p, {"percent"}) => good(ZCodeGauge(p))
<1> DEFINE t == Clamp(Share(u, a))
           good(w) == SoundWindow(w, k) /\ Near(w, t)
           r == IF u > a THEN 0 ELSE a - u
<1>1. /\ p.kind = k /\ p.used \in {Absent, u} /\ p.limit \in {Absent, a}
      /\ p.remaining \in {Absent, r}
      /\ p.percent \in Nat \cup {Absent}
  BY DEF SlotSays
<1>2. a \in Nat \ {0} /\ u \in Nat /\ r \in 0..a /\ Clamp(Share(a - r, a)) = t
  BY AmountsAgree
<1>3. /\ good(None) /\ t \in Nat
      /\ p.percent # Absent => good(FromPercent(k, p.percent))
      /\ p.used # Absent /\ p.limit # Absent =>
           good(FromPercent(k, Share(p.used, p.limit))) /\ good(WithLimit(k, p.used, p.limit))
  <2>1. /\ good(None) /\ t \in Nat
        /\ p.percent # Absent => good(FromPercent(p.kind, p.percent))
        /\ p.used # Absent /\ p.limit # Absent =>
             good(FromPercent(p.kind, Share(p.used, p.limit)))
             /\ good(WithLimit(p.kind, p.used, p.limit))
    BY BasicGauges
  <2> HIDE DEF good, t
  <2> QED BY <1>1, <2>1
<1> HIDE DEF r, t
<1>4. ASSUME NEW v \in Nat, NEW l \in Nat \ {0} PROVE SoundWindow(WithLimit(k, v, l), k)
  BY LimitWindow
<1>5. ASSUME NEW v \in Int PROVE SoundWindow(FromPercent(k, v), k)
  BY PercentWindow
<1>6. good(WithLimit(k, a - r, a))
  <2>1. a - r \in Nat
    BY <1>2
  <2>2. SoundWindow(WithLimit(k, a - r, a), k) /\ WithLimit(k, a - r, a).percent = t
    BY <1>2, <2>1, LimitWindow
  <2> QED BY <1>3, <2>2 DEF Near
<1>7. 0 \in Nat /\ 0 \in Int /\ All \in Int
  BY DEF All
<1>8. SoundWindow(OpenRouterRate(p), k)
  BY <1>1, <1>2, <1>3, <1>4, <1>7, WhatASlotHas DEF OpenRouterRate
<1>9. SoundWindow(ZCodeGauge(p), k) /\ (Has(p, {"percent"}) => good(ZCodeGauge(p)))
  <2> DEFINE total == RowTotal(p)
  <2>1. total \in {Absent} \cup (Nat \ {0})
    BY <1>1, <1>2 DEF RowTotal, SessionHours
  <2> HIDE DEF total
  <2>2. ASSUME total # Absent, p.used # Absent PROVE SoundWindow(FromPercent(k, Share(p.used, total)), k)
    <3>1. Share(p.used, total) \in Int
      BY <1>1, <1>2, <2>1, <2>2, ShareIsNumber
    <3> QED BY <1>5, <3>1
  <2>3. ASSUME total # Absent, p.remaining # Absent, p.remaining <= total
        PROVE  SoundWindow(FromPercent(k, Share(total - p.remaining, total)), k)
    <3>1. total - p.remaining \in Nat /\ total \in Nat \ {0}
      BY <1>1, <1>2, <2>1, <2>3
    <3>2. Share(total - p.remaining, total) \in Int
      BY <3>1, ShareIsNumber
    <3> QED BY <1>5, <3>2
  <2> HIDE DEF good
  <2>4. good(None) => SoundWindow(None, k)
    BY DEF good
  <2>5. p.percent # Absent => SoundWindow(FromPercent(k, p.percent), k)
    BY <1>3 DEF good
  <2> QED BY <1>1, <1>3, <2>2, <2>3, <2>4, <2>5, WhatASlotHas DEF ZCodeGauge, total
<1>10. /\ SoundWindow(KimiGauge(p), k)
       /\ (Has(p, {"limit"}) /\ ~Has(p, {"used"}) /\ ~Has(p, {"remaining"})) \/ good(KimiGauge(p))
  <2>1. CASE p.limit # Absent
    <3>1. p.limit = a
      BY <1>1, <2>1
    <3>2. CASE p.used # Absent
      <4>1. KimiGauge(p) = WithLimit(k, p.used, p.limit)
        BY <1>1, <2>1, <3>2, WhatASlotHas DEF KimiGauge
      <4> QED BY <1>3, <2>1, <3>2, <4>1
    <3>3. CASE p.used = Absent /\ p.remaining # Absent
      <4>1. KimiGauge(p) = WithLimit(k, a - r, a)
        BY <1>1, <2>1, <3>1, <3>3, WhatASlotHas DEF KimiGauge
      <4> QED BY <1>6, <4>1
    <3>4. CASE p.used = Absent /\ p.remaining = Absent
      <4>1. KimiGauge(p) \in {WithLimit(k, 0, a), None}
        BY <1>1, <2>1, <3>1, <3>4, WhatASlotHas DEF KimiGauge
      <4>2. SoundWindow(KimiGauge(p), k)
        BY <1>2, <1>3, <1>4, <1>7, <4>1
      <4> QED BY <2>1, <3>4, <4>2, WhatASlotHas
    <3> QED BY <3>2, <3>3, <3>4
  <2>2. CASE p.limit = Absent
    <3>1. ASSUME p.used # Absent, p.remaining # Absent
          PROVE  p.used + p.remaining > 0 /\ good(WithLimit(k, p.used, p.used + p.remaining))
      <4>1. p.used = u /\ p.remaining = r
        BY <1>1, <3>1
      <4>2. u + r \in Nat \ {0} /\ Clamp(Share(u, u + r)) = t
        <5>1. CASE u <= a
          BY <1>2, <5>1 DEF r, t
        <5>2. CASE u > a
          <6>1. r = 0 /\ u + r = u /\ u \in Nat \ {0}
            BY <1>2, <5>2 DEF r
          <6>2. (u * 200) \div u = 200
            <7>1. u * 200 = u * 200 + 0 /\ u > 0 /\ u \in Int
              BY <6>1
            <7> QED BY <6>1
          <6>3. (u * 200) \div a >= 200 /\ (u * 200) \div a \in Nat
            BY <1>2, <5>2
          <6>4. Clamp(Share(u, u)) = 200 /\ Clamp(Share(u, a)) = 200
            BY <6>2, <6>3 DEF Clamp, Share, All
          <6> QED BY <6>1, <6>4 DEF t
        <5> QED BY <1>2, <5>1, <5>2
      <4>3. SoundWindow(WithLimit(k, u, u + r), k) /\ WithLimit(k, u, u + r).percent = t
        BY <1>2, <4>2, LimitWindow
      <4> QED BY <1>2, <1>3, <4>1, <4>2, <4>3 DEF Near
    <3>2. p.percent \in 0..All => p.percent # Absent
      BY DEF All, Absent
    <3>3. CASE p.used # Absent /\ p.remaining # Absent
      <4>1. KimiGauge(p) = WithLimit(k, p.used, p.used + p.remaining)
        BY <1>1, <2>2, <3>1, <3>3, WhatASlotHas DEF KimiGauge
      <4> QED BY <3>1, <3>3, <4>1
    <3>4. CASE ~(p.used # Absent /\ p.remaining # Absent)
      <4>1. (KimiGauge(p) = FromPercent(k, p.percent) /\ p.percent # Absent) \/ KimiGauge(p) = None
        BY <1>1, <2>2, <3>2, <3>4, WhatASlotHas DEF KimiGauge
      <4> QED BY <1>3, <4>1
    <3> QED BY <3>3, <3>4
  <2> QED BY <2>1, <2>2
<1>11. SoundWindow(DevinGauge(p), k) /\ (~Has(p, {"percent"}) \/ good(DevinGauge(p)))
  <2>1. (IF Has(p, {"percent"}) THEN p.percent ELSE All) \in Int
    BY <1>1, <1>7, WhatASlotHas
  <2>2. SoundWindow(DevinGauge(p), k)
    BY <1>1, <1>5, <2>1 DEF DevinGauge
  <2>3. p.percent # Absent => DevinGauge(p) = FromPercent(k, p.percent)
    BY <1>1, WhatASlotHas DEF DevinGauge
  <2> QED BY <1>3, <2>2, <2>3, WhatASlotHas
<1>12. /\ SoundWindow(GrokGauge(p), k)
       /\ (~Has(p, {"percent"}) /\ ~Has(p, {"used", "limit"})) \/ good(GrokGauge(p))
  <2>1. CASE p.percent # Absent
    BY <1>1, <1>3, <2>1, WhatASlotHas DEF GrokGauge
  <2>2. CASE p.percent = Absent /\ p.used # Absent /\ p.limit # Absent
    BY <1>1, <1>3, <2>2, WhatASlotHas DEF GrokGauge
  <2>3. CASE p.percent = Absent /\ ~(p.used # Absent /\ p.limit # Absent)
    <3>1. GrokGauge(p) = FromPercent(k, 0)
      BY <1>1, <2>3, WhatASlotHas DEF GrokGauge
    <3> QED BY <1>5, <1>7, <2>3, <3>1, WhatASlotHas
  <2> QED BY <2>1, <2>2, <2>3
<1>13. SoundWindow(GrokHeaders(p), k) /\ (~Has(p, {"remaining"}) \/ good(GrokHeaders(p)))
  <2>1. CASE p.limit = Absent
    BY <1>3, <2>1, WhatASlotHas DEF GrokHeaders
  <2>2. CASE p.limit # Absent /\ p.remaining # Absent
    <3>1. p.limit = a /\ p.remaining = r
      BY <1>1, <2>2
    <3>2. GrokHeaders(p) = WithLimit(k, a - r, a)
      BY <1>1, <1>2, <2>2, <3>1, WhatASlotHas DEF GrokHeaders
    <3> QED BY <1>6, <3>2
  <2>3. CASE p.limit # Absent /\ p.remaining = Absent
    <3>1. GrokHeaders(p) = WithLimit(k, a - 0, a)
      BY <1>1, <2>3, WhatASlotHas DEF GrokHeaders
    <3>2. a - 0 \in Nat
      BY <1>2
    <3> QED BY <1>2, <1>4, <2>3, <3>1, <3>2, WhatASlotHas
  <2> QED BY <2>1, <2>2, <2>3
<1>14. SoundWindow(OpenCodeGauge(p), k) /\ (p.percent = 1 \/ good(OpenCodeGauge(p)))
  <2>1. NormalizedPercent(p.percent) \in 0..All => NormalizedPercent(p.percent) \in Int
    OBVIOUS
  <2>2. SoundWindow(OpenCodeGauge(p), k)
    BY <1>1, <1>3, <1>5, <2>1 DEF OpenCodeGauge
  <2>3. p.percent # 1 => NormalizedPercent(p.percent) = p.percent
    BY DEF NormalizedPercent
  <2>4. p.percent \in 0..All => p.percent # Absent
    BY DEF All, Absent
  <2>5. p.percent # 1 => OpenCodeGauge(p) \in {FromPercent(k, p.percent), None}
                         /\ (p.percent = Absent => OpenCodeGauge(p) = None)
    BY <1>1, <2>3, <2>4 DEF OpenCodeGauge
  <2> QED BY <1>3, <2>2, <2>5
<1> QED BY <1>8, <1>9, <1>10, <1>11, <1>12, <1>13, <1>14 DEF t

-----------------------------------------------------------------------------
(* The windows of a report *)

WindowStates ==
  /\ parser \in Parsers
  /\ allowance \in Allowances
  /\ use \in [Kinds -> 0..MaxUse]

\* The slots of a report say what the account has used.
SlotsOf(slots) ==
  /\ DOMAIN slots \subseteq {1, 2}
  /\ \A i \in DOMAIN slots :
       /\ slots[i].kind \in Kinds
       /\ SlotSays(slots[i], slots[i].kind, UseOf(slots[i].kind), AllowanceOf(slots[i].kind))

\* The windows ws of the slots are consistent, and near unless their slot is misread.
ReportOf(ws, slots) ==
  /\ DOMAIN ws \subseteq {1, 2}
  /\ \A i \in DOMAIN ws :
       /\ ws[i].key \in Kinds
       /\ Consistent(ws[i])
       /\ ~Misread(slots[i]) => Near(ws[i], TrueShare(ws[i].key))

\* What an account may have used of what.
LEMMA AmountsOf ==
  ASSUME WindowStates, NEW k \in Kinds \cup {"plan"}
  PROVE  UseOf(k) \in Nat /\ AllowanceOf(k) \in 1..400
<1>1. allowance \in 1..200
  BY AllowancesAssumption DEF WindowStates, AllowancesAssumption, All
<1>2. \A j \in Kinds : use[j] \in Nat
  BY MaxUseAssumption DEF WindowStates, MaxUseAssumption
<1>3. use["session"] \in Nat /\ use["weekly"] \in Nat
  BY <1>2 DEF Kinds
<1> QED BY <1>1, <1>2, <1>3 DEF UseOf, AllowanceOf

LEMMA SlotIsSlot ==
  ASSUME WindowStates, NEW k \in Kinds \cup {"plan"}, NEW fields, NEW whole \in BOOLEAN
  PROVE  /\ Slot(k, fields, whole).kind = k
         /\ SlotSays(Slot(k, fields, whole), k, UseOf(k), AllowanceOf(k))
<1> DEFINE u == UseOf(k)
           a == AllowanceOf(k)
           s == Share(u, a)
           p == Slot(k, fields, whole)
           shown_ == IF "percent" \notin fields THEN Absent ELSE IF whole THEN s - (s % 2) ELSE s
           left == IF u > a THEN 0 ELSE a - u
<1>1. u \in Nat /\ a \in 1..400 /\ a \in Nat \ {0}
  BY AmountsOf
<1>2. s \in Nat
  BY <1>1, ShareIsNumber
<1>3. p = [kind |-> k, used |-> IF "used" \in fields THEN u ELSE Absent,
           limit |-> IF "limit" \in fields THEN a ELSE Absent,
           remaining |-> IF "remaining" \notin fields THEN Absent ELSE left, percent |-> shown_]
  BY DEF Slot
<1> HIDE DEF u, a, s, p
<1>4. s % 2 \in {0, 1} /\ (s % 2 = 1 => s >= 1)
  BY <1>2
<1>5. shown_ \in Nat \cup {Absent} /\ shown_ \in {Absent, s, s - 1}
  BY <1>2, <1>4 DEF Absent
<1> HIDE DEF shown_, left
<1>6. /\ p.kind = k /\ p.used \in {Absent, u} /\ p.limit \in {Absent, a}
      /\ p.remaining \in {Absent, left} /\ p.percent = shown_
  BY <1>3
<1> QED BY <1>5, <1>6 DEF SlotSays, s, p, left, u, a

LEMMA GaugeOfSlot ==
  ASSUME parser \in KnownParsers \ {"ollama", "cursor", "qoder"},
         NEW u \in Nat, NEW a \in 1..400, NEW k, NEW p, SlotSays(p, k, u, a)
  PROVE  SoundWindow(Gauge(p), k) /\ (~Misread(p) => Near(Gauge(p), Clamp(Share(u, a))))
<1> DEFINE t == Clamp(Share(u, a))
           fair(w) == SoundWindow(w, k) /\ Near(w, t)
<1>1. /\ fair(PercentGauge(p)) /\ fair(CodexCredits(p)) /\ fair(CopilotGauge(p))
      /\ fair(OpenRouterGauge(p)) /\ fair(CommandCodeGauge(p)) /\ fair(ArkGauge(p))
      /\ fair(FractionGauge(p)) /\ (RowTotal(p) = p.limit => fair(ZCodeGauge(p)))
      /\ fair(BalanceGauge(p)) /\ fair(QoderGauge(p))
  BY FairGauges
<1>2. /\ SoundWindow(OpenRouterRate(p), k) /\ SoundWindow(ZCodeGauge(p), k)
      /\ SoundWindow(KimiGauge(p), k)
      /\ (Has(p, {"limit"}) /\ ~Has(p, {"used"}) /\ ~Has(p, {"remaining"})) \/ fair(KimiGauge(p))
      /\ SoundWindow(DevinGauge(p), k)
      /\ ~Has(p, {"percent"}) \/ fair(DevinGauge(p))
      /\ SoundWindow(GrokGauge(p), k)
      /\ (~Has(p, {"percent"}) /\ ~Has(p, {"used", "limit"})) \/ fair(GrokGauge(p))
      /\ SoundWindow(GrokHeaders(p), k)
      /\ ~Has(p, {"remaining"}) \/ fair(GrokHeaders(p))
      /\ SoundWindow(OpenCodeGauge(p), k)
      /\ p.percent = 1 \/ fair(OpenCodeGauge(p))
      /\ Has(p, {"percent"}) => fair(ZCodeGauge(p))
  BY GuessingGauges
<1> HIDE DEF fair
<1> SUFFICES fair(Gauge(p)) \/ (Misread(p) /\ SoundWindow(Gauge(p), k))
  BY DEF fair
<1>3. CASE parser \in {"codex", "claude", "claude limits"} BY <1>1, <1>3 DEF Gauge
<1>4. CASE parser = "codex credits"             BY <1>1, <1>4 DEF Gauge
<1>5. CASE parser = "copilot"                   BY <1>1, <1>5 DEF Gauge
<1>6. CASE parser = "openrouter"                BY <1>1, <1>6 DEF Gauge
<1>7. CASE parser = "openrouter rate"           BY <1>2, <1>7 DEF Gauge, Misread
<1>8. CASE parser = "kimi"                      BY <1>2, <1>8 DEF Gauge, Misread
<1>9. CASE parser \in {"command code", "grok on demand"} BY <1>1, <1>9 DEF Gauge
<1>10. CASE parser = "devin"                    BY <1>2, <1>10 DEF Gauge, Misread
<1>11. CASE parser = "ark"                      BY <1>1, <1>11 DEF Gauge
<1>12. CASE parser \in {"gemini", "antigravity"} BY <1>1, <1>12 DEF Gauge
<1>13. CASE parser \in {"zcode", "zcode rows"}
  <2>1. Gauge(p) = ZCodeGauge(p)
    BY <1>13 DEF Gauge
  <2>2. RowTotal(p) = p.limit \/ (parser = "zcode" /\ p.kind = "session")
    BY DEF RowTotal
  <2> QED BY <1>1, <1>2, <2>1, <2>2 DEF Misread
<1>14. CASE parser = "zcode balance"            BY <1>1, <1>14 DEF Gauge
<1>15. CASE parser = "grok"                     BY <1>2, <1>15 DEF Gauge, Misread
<1>16. CASE parser = "grok headers"             BY <1>2, <1>16 DEF Gauge, Misread
<1>17. CASE parser = "opencode"                 BY <1>2, <1>17 DEF Gauge, Misread
<1> QED
  BY <1>3, <1>4, <1>5, <1>6, <1>7, <1>8, <1>9, <1>10, <1>11, <1>12, <1>13, <1>14, <1>15, <1>16,
     <1>17 DEF KnownParsers, Named, Lists

LEMMA PublishedIsReport ==
  ASSUME WindowStates, parser \notin {"ollama", "cursor", "qoder"}, NEW slots, SlotsOf(slots)
  PROVE  /\ ReportOf(Published(slots), slots)
         /\ \A i \in DOMAIN Published(slots) :
              /\ i \in DOMAIN slots
              /\ Published(slots)[i] = Gauge(slots[i]) /\ Published(slots)[i].key = slots[i].kind
         /\ \A i \in DOMAIN slots : Gauge(slots[i]) # None => i \in DOMAIN Published(slots)
<1> DEFINE ws == Published(slots)
<1>1. parser \in KnownParsers \ {"ollama", "cursor", "qoder"}
  BY ParsersAssumption DEF WindowStates, ParsersAssumption
<1>2. /\ DOMAIN ws = {j \in DOMAIN slots : Gauge(slots[j]) # None}
      /\ \A i \in DOMAIN ws : ws[i] = Gauge(slots[i])
  BY DEF Published
<1> HIDE DEF ws
<1>3. ASSUME NEW i \in DOMAIN ws
      PROVE  /\ ws[i].key = slots[i].kind /\ slots[i].kind \in Kinds /\ Consistent(ws[i])
             /\ ~Misread(slots[i]) => Near(ws[i], TrueShare(ws[i].key))
  <2> DEFINE k == slots[i].kind
  <2>1. i \in DOMAIN slots /\ ws[i] # None /\ ws[i] = Gauge(slots[i])
    BY <1>2
  <2>2. k \in Kinds /\ SlotSays(slots[i], k, UseOf(k), AllowanceOf(k))
    BY <2>1 DEF SlotsOf
  <2> HIDE DEF k
  <2>3. UseOf(k) \in Nat /\ AllowanceOf(k) \in 1..400
    BY <2>2, AmountsOf
  <2>4. SoundWindow(ws[i], k) /\ (~Misread(slots[i]) => Near(ws[i], TrueShare(k)))
    BY <1>1, <2>1, <2>2, <2>3, GaugeOfSlot DEF TrueShare
  <2>5. ws[i].key = k /\ Consistent(ws[i])
    BY <2>1, <2>4 DEF SoundWindow
  <2> QED BY <2>2, <2>4, <2>5 DEF k
<1> QED BY <1>2, <1>3 DEF ReportOf, SlotsOf, ws

LEMMA KeepFirstKeeps ==
  ASSUME NEW ws, DOMAIN ws \subseteq {1, 2}
  PROVE  LET left == KeepFirst(ws)
         IN /\ DOMAIN left \subseteq DOMAIN ws
            /\ \A i \in DOMAIN left : left[i] = ws[i]
            /\ \A i, j \in DOMAIN left : i # j => left[i].key # left[j].key
            /\ \A i \in DOMAIN ws : \E j \in DOMAIN left : ws[j].key = ws[i].key
<1> DEFINE firsts == {i \in DOMAIN ws : \A j \in DOMAIN ws : j < i => ws[j].key # ws[i].key}
<1>1. KeepFirst(ws) = [i \in firsts |-> ws[i]]
  BY DEF KeepFirst, Restrict
<1>2. ASSUME NEW i \in firsts, NEW j \in firsts, i # j PROVE ws[i].key # ws[j].key
  <2>1. i < j \/ j < i
    BY <1>2
  <2> QED BY <2>1
<1>3. ASSUME NEW i \in DOMAIN ws PROVE \E j \in firsts : ws[j].key = ws[i].key
  <2>1. CASE i \in firsts
    BY <2>1
  <2>2. CASE i \notin firsts
    <3>1. PICK j \in DOMAIN ws : j < i /\ ws[j].key = ws[i].key
      BY <2>2
    <3>2. \A o \in DOMAIN ws : ~(o < j)
      BY <3>1
    <3>3. j \in firsts
      BY <3>1, <3>2
    <3> QED BY <3>1, <3>3
  <2> QED BY <2>1, <2>2
<1> QED BY <1>1, <1>2, <1>3

\* The first window of a key stands for the ones it displaces.
LEMMA KeepFirstReports ==
  ASSUME NEW slots, NEW ws, ReportOf(ws, slots)
  PROVE  /\ ReportOf(KeepFirst(ws), slots)
         /\ \A i, j \in DOMAIN KeepFirst(ws) :
              i # j => KeepFirst(ws)[i].key # KeepFirst(ws)[j].key
BY KeepFirstKeeps DEF ReportOf

\* The largest and the smallest of two numbers.
LEMMA OfTwo ==
  ASSUME NEW x \in Int, NEW y \in Int
  PROVE  /\ Max({x, y}) \in {x, y} /\ Max({x, y}) >= x /\ Max({x, y}) >= y
         /\ Min({x, y}) \in {x, y} /\ Min({x, y}) <= x /\ Min({x, y}) <= y
<1>1. \E z \in {x, y} : \A v \in {x, y} : z >= v
  BY DEF Max
<1>2. Max({x, y}) \in {x, y} /\ \A v \in {x, y} : Max({x, y}) >= v
  BY <1>1 DEF Max
<1>3. \E z \in {x, y} : \A v \in {x, y} : z =< v
  OBVIOUS
<1>4. Min({x, y}) \in {x, y} /\ \A v \in {x, y} : Min({x, y}) =< v
  BY <1>3 DEF Min
<1> QED BY <1>2, <1>4

\* Of the buckets of a model the one with least left.
LEMMA TightestReports ==
  ASSUME WindowStates, parser = "gemini", NEW slots, SlotsOf(slots)
  PROVE  LET ws == TightestBucket(slots)
         IN /\ ReportOf(ws, slots)
            /\ \A i, j \in DOMAIN ws : i # j => ws[i].key # ws[j].key
            /\ \A j \in DOMAIN slots : slots[j].percent \in 0..All =>
                 \E i \in DOMAIN ws : ws[i].key = slots[j].kind /\ ws[i].percent >= slots[j].percent
<1> DEFINE ws == Published(slots)
           same(i) == {j \in DOMAIN ws : ws[j].key = ws[i].key}
           most(i) == Max({ws[j].percent : j \in same(i)})
           least(i) == Min({ws[j].left : j \in same(i)})
           tight == [i \in DOMAIN ws |-> [ws[i] EXCEPT !.percent = most(i), !.left = least(i)]]
<1>1. /\ ReportOf(ws, slots) /\ DOMAIN ws \subseteq {1, 2} /\ \A p : ~Misread(p)
      /\ \A i \in DOMAIN ws : ws[i] = Gauge(slots[i]) /\ ws[i].key = slots[i].kind
      /\ \A i \in DOMAIN slots : Gauge(slots[i]) # None => i \in DOMAIN ws
      /\ \A i \in DOMAIN ws : Gauge(slots[i]) # None
  BY PublishedIsReport DEF ReportOf, Misread, Published
<1>2. TightestBucket(slots) = KeepFirst(tight)
  BY DEF TightestBucket
<1>3. \A i : Gauge(slots[i]) = FractionGauge(slots[i])
  BY DEF Gauge
<1>4. ASSUME NEW i \in DOMAIN slots, slots[i].percent \in 0..All
      PROVE  i \in DOMAIN ws /\ ws[i].percent = slots[i].percent
  <2> DEFINE p == slots[i].percent
  <2>1. Gauge(slots[i]) = FromPercent(slots[i].kind, p)
    BY <1>3, <1>4 DEF FractionGauge
  <2>2. p \in Int /\ Clamp(p) = p
    BY <1>4, ClampIsPercentage
  <2> HIDE DEF p
  <2>3. Gauge(slots[i]).percent = p
    BY <2>1, <2>2, PercentWindow
  <2>4. p # Absent
    BY <1>4 DEF p, Absent, All
  <2>5. Gauge(slots[i]) # None
    BY <2>3, <2>4, NoWindow
  <2> QED BY <1>1, <2>3, <2>5 DEF p
<1>5. ASSUME NEW i \in DOMAIN ws
      PROVE  /\ ws[i].percent \in 0..All /\ ws[i].left = All - ws[i].percent
             /\ ws[i].limit = Absent /\ ws[i].remaining = Absent /\ ws[i].unlimited = FALSE
  <2> DEFINE p == slots[i].percent
  <2>1. ws[i] = FromPercent(slots[i].kind, p) /\ p \in 0..All
    BY <1>1, <1>3 DEF FractionGauge
  <2>2. p \in Int /\ Clamp(p) = p
    BY <2>1, ClampIsPercentage
  <2>3. FromPercent(slots[i].kind, p).unlimited = FALSE
    BY DEF FromPercent, Window
  <2> HIDE DEF p, ws
  <2> QED BY <2>1, <2>2, <2>3, PercentWindow
<1> HIDE DEF ws
<1>6. ASSUME NEW i \in DOMAIN ws
      PROVE  /\ \E j \in same(i) : most(i) = ws[j].percent
             /\ \A j \in same(i) : most(i) >= ws[j].percent
             /\ least(i) = All - most(i)
  <2>1. ASSUME NEW j \in DOMAIN ws, same(i) = {i, j}
        PROVE  /\ \E l \in same(i) : most(i) = ws[l].percent
               /\ \A l \in same(i) : most(i) >= ws[l].percent
               /\ least(i) = All - most(i)
    <3> DEFINE x == ws[i].percent
               y == ws[j].percent
    <3>a. x \in 0..All /\ y \in 0..All /\ ws[i].left = All - x /\ ws[j].left = All - y
      BY <1>5
    <3>b. {ws[l].percent : l \in {i, j}} = {x, y} /\ {ws[l].left : l \in {i, j}} = {All - x, All - y}
      BY <3>a
    <3>2. x \in Int /\ y \in Int /\ All \in Int
      BY <3>a DEF All
    <3>3. most(i) = Max({x, y}) /\ least(i) = Min({All - x, All - y})
      BY <2>1, <3>b
    <3> HIDE DEF x, y
    <3>4. All - x \in Int /\ All - y \in Int
      BY <3>2
    <3>5. /\ Max({x, y}) \in {x, y} /\ Max({x, y}) >= x /\ Max({x, y}) >= y
      BY <3>2, OfTwo
    <3>6. /\ Min({All - x, All - y}) \in {All - x, All - y}
          /\ Min({All - x, All - y}) <= All - x /\ Min({All - x, All - y}) <= All - y
      BY <3>4, OfTwo
    <3>7. Min({All - x, All - y}) = All - Max({x, y})
      BY <3>2, <3>5, <3>6
    <3> HIDE DEF most, least, same
    <3> QED BY <2>1, <3>3, <3>5, <3>7 DEF x, y
  <2>2. \E j \in DOMAIN ws : same(i) = {i, j}
    <3>1. same(i) \subseteq {1, 2} /\ i \in same(i) /\ i \in {1, 2}
      BY <1>1
    <3>2. CASE \E j \in same(i) : j # i
      <4>1. PICK j \in same(i) : j # i
        BY <3>2
      <4>2. same(i) = {i, j} /\ j \in DOMAIN ws
        BY <3>1, <4>1
      <4> QED BY <4>2
    <3>3. CASE \A j \in same(i) : j = i
      <4>1. same(i) = {i, i}
        BY <3>1, <3>3
      <4> QED BY <4>1
    <3> QED BY <3>2, <3>3
  <2> HIDE DEF most, least, same
  <2> QED BY <2>1, <2>2
<1>7. ASSUME NEW i \in DOMAIN ws
      PROVE  /\ tight[i].key = ws[i].key /\ tight[i].percent = most(i) /\ tight[i].left = least(i)
             /\ tight[i].limit = Absent /\ tight[i].remaining = Absent
             /\ tight[i].unlimited = FALSE
  <2>1. ws[i] = FromPercent(slots[i].kind, slots[i].percent)
    BY <1>1, <1>3 DEF FractionGauge
  <2>2. ws[i] = [key |-> ws[i].key, used |-> ws[i].used, limit |-> ws[i].limit,
                 remaining |-> ws[i].remaining, percent |-> ws[i].percent, left |-> ws[i].left,
                 unlimited |-> ws[i].unlimited]
    BY <2>1 DEF FromPercent, Window
  <2>3. tight[i] = [ws[i] EXCEPT !.percent = most(i), !.left = least(i)]
    OBVIOUS
  <2> HIDE DEF most, least, tight
  <2>4. tight[i] = [key |-> ws[i].key, used |-> ws[i].used, limit |-> ws[i].limit,
                    remaining |-> ws[i].remaining, percent |-> most(i), left |-> least(i),
                    unlimited |-> ws[i].unlimited]
    BY <2>2, <2>3
  <2> DEFINE w == tight[i]
  <2> HIDE DEF w
  <2>5. /\ w.key = ws[i].key /\ w.percent = most(i) /\ w.left = least(i)
        /\ w.limit = ws[i].limit /\ w.remaining = ws[i].remaining
        /\ w.unlimited = ws[i].unlimited
    BY <2>4 DEF w
  <2> QED BY <1>5, <2>5 DEF w
<1>8. DOMAIN tight = DOMAIN ws
  OBVIOUS
<1>9. \A i \in DOMAIN ws : \A j \in same(i) : j \in DOMAIN ws /\ ws[j].key = ws[i].key
  OBVIOUS
<1>10. \A i, j \in DOMAIN ws : ws[j].key = ws[i].key => j \in same(i)
  OBVIOUS
<1> HIDE DEF most, least, same, tight
<1>11. ReportOf(tight, slots)
  <2> SUFFICES ASSUME NEW i \in DOMAIN ws
               PROVE  /\ tight[i].key \in Kinds /\ Consistent(tight[i])
                      /\ Near(tight[i], TrueShare(tight[i].key))
    BY <1>1, <1>8 DEF ReportOf
  <2>1. PICK j \in same(i) : most(i) = ws[j].percent
    BY <1>6
  <2>2. j \in DOMAIN ws /\ ws[j].key = ws[i].key
    BY <1>9, <2>1
  <2>3. most(i) \in 0..All /\ least(i) = All - most(i)
    BY <1>5, <1>6, <2>1, <2>2
  <2>4. ws[i].key \in Kinds /\ Near(ws[j], TrueShare(ws[i].key))
    BY <1>1, <2>2 DEF ReportOf
  <2>5. Near(tight[i], TrueShare(tight[i].key))
    BY <1>7, <2>1, <2>4 DEF Near
  <2>6. Consistent(tight[i])
    <3> DEFINE w == tight[i]
    <3> HIDE DEF w
    <3>1. /\ w.percent \in 0..All /\ w.left = All - w.percent
          /\ w.limit = Absent /\ w.remaining = Absent /\ w.unlimited = FALSE
      BY <1>7, <2>3 DEF w
    <3>2. Consistent(w)
      BY <3>1 DEF Consistent, Absent, All
    <3> QED BY <3>2 DEF w
  <2> QED BY <1>7, <2>4, <2>5, <2>6
<1>12. ASSUME NEW j \in DOMAIN slots, slots[j].percent \in 0..All
       PROVE  \E i \in DOMAIN KeepFirst(tight) :
                /\ KeepFirst(tight)[i].key = slots[j].kind
                /\ KeepFirst(tight)[i].percent >= slots[j].percent
  <2>1. j \in DOMAIN ws /\ ws[j].percent = slots[j].percent /\ ws[j].key = slots[j].kind
    BY <1>1, <1>4, <1>12
  <2>2. PICK i \in DOMAIN KeepFirst(tight) :
          i \in DOMAIN ws /\ tight[i].key = tight[j].key /\ KeepFirst(tight)[i] = tight[i]
    BY <1>8, <1>11, <2>1, KeepFirstKeeps DEF ReportOf
  <2>3. j \in same(i)
    BY <1>7, <1>10, <2>1, <2>2
  <2>4. tight[i].percent >= ws[j].percent
    BY <1>6, <1>7, <2>2, <2>3
  <2> QED BY <1>7, <2>1, <2>2, <2>4
<1>13. /\ ReportOf(KeepFirst(tight), slots)
       /\ \A i, j \in DOMAIN KeepFirst(tight) :
            i # j => KeepFirst(tight)[i].key # KeepFirst(tight)[j].key
  BY <1>11, KeepFirstReports
<1> QED BY <1>2, <1>12, <1>13

-----------------------------------------------------------------------------
(* The invariants of the windows *)

WindowInv ==
  /\ WindowStates
  /\ \A i \in DOMAIN shown : shown[i].key \in Keys
  /\ WindowsAreTrue

\* Before anything was published nothing is shown.
LEMMA NothingIsTrue ==
  ASSUME WindowStates', published' = <<>>, shown' = <<>>
  PROVE  WindowInv'
<1>1. DOMAIN shown' = {} /\ DOMAIN published' = {}
  OBVIOUS
<1>2. (\A i \in DOMAIN shown : shown[i].key \in Keys)' /\ WindowsAreConsistent'
      /\ BarsAreTrue' /\ PlanIsWithinLanes' /\ OneWindowPerPeriod'
  BY <1>1 DEF WindowsAreConsistent, BarsAreTrue, PlanIsWithinLanes, OneWindowPerPeriod
<1>3. TightestIsShown'
  BY <1>1 DEF TightestIsShown
<1> QED BY <1>2, <1>3 DEF WindowInv, WindowsAreTrue

\* The first rows of ZCode are rows of different kinds.
LEMMA FirstRowsAreSlots ==
  ASSUME NEW slots, SlotsOf(slots)
  PROVE  LET listed == FirstRows(slots)
         IN /\ SlotsOf(listed)
            /\ \A i \in DOMAIN listed : i \in DOMAIN slots /\ listed[i] = slots[i]
            /\ \A i, j \in DOMAIN listed : i # j => listed[i].kind # listed[j].kind
<1> DEFINE firsts == {i \in DOMAIN slots : \A j \in DOMAIN slots : j < i => slots[j].kind # slots[i].kind}
<1>1. FirstRows(slots) = [i \in firsts |-> slots[i]]
  BY DEF FirstRows, Restrict
<1>2. firsts \subseteq {1, 2} /\ firsts \subseteq DOMAIN slots
  BY DEF SlotsOf
<1>3. ASSUME NEW i \in firsts, NEW j \in firsts, i # j PROVE slots[i].kind # slots[j].kind
  <2>1. i < j \/ j < i
    BY <1>2, <1>3
  <2> QED BY <2>1
<1> HIDE DEF firsts
<1> DEFINE listed == FirstRows(slots)
<1>4. DOMAIN listed = firsts /\ \A i \in firsts : listed[i] = slots[i]
  BY <1>1
<1> HIDE DEF listed
<1>5. SlotsOf(listed)
  BY <1>2, <1>4 DEF SlotsOf
<1> QED BY <1>2, <1>3, <1>4, <1>5 DEF listed

\* What the parser makes of the slots.
LEMMA WindowsAreReported ==
  ASSUME WindowStates, parser \notin {"ollama", "cursor", "qoder"}, NEW slots, SlotsOf(slots)
  PROVE  LET ws == Windows(slots)
         IN /\ ReportOf(ws, slots)
            /\ parser \notin Lists => \A i, j \in DOMAIN ws : i # j => ws[i].key # ws[j].key
            /\ parser = "gemini" =>
                 \A j \in DOMAIN slots : slots[j].percent \in 0..All =>
                   \E i \in DOMAIN ws : ws[i].key = slots[j].kind /\ ws[i].percent >= slots[j].percent
<1>1. ReportOf(Published(slots), slots)
  BY PublishedIsReport
<1>2. CASE parser = "gemini"
  <2>1. Windows(slots) = TightestBucket(slots)
    BY <1>2 DEF Windows, Lists
  <2> QED BY <1>2, <2>1, TightestReports
<1>3. CASE parser \in Lists
  <2>1. Windows(slots) = Published(slots) /\ parser # "gemini"
    BY <1>3 DEF Windows, Lists
  <2> QED BY <1>1, <1>3, <2>1
<1>4. CASE parser = "zcode"
  <2> DEFINE listed == FirstRows(slots)
             ws == Published(listed)
  <2>1. Windows(slots) = ws
    BY <1>4 DEF Windows, Lists
  <2>2. /\ SlotsOf(listed) /\ \A i \in DOMAIN listed : i \in DOMAIN slots /\ listed[i] = slots[i]
        /\ \A i, j \in DOMAIN listed : i # j => listed[i].kind # listed[j].kind
    BY FirstRowsAreSlots
  <2> HIDE DEF listed
  <2>3. /\ ReportOf(ws, listed)
        /\ \A i \in DOMAIN ws : i \in DOMAIN listed /\ ws[i].key = listed[i].kind
    BY <1>4, <2>2, PublishedIsReport
  <2> HIDE DEF ws
  <2>4. ReportOf(ws, slots)
    BY <2>2, <2>3 DEF ReportOf
  <2>5. \A i, j \in DOMAIN ws : i # j => ws[i].key # ws[j].key
    BY <2>2, <2>3
  <2> QED BY <1>4, <2>1, <2>4, <2>5
<1>5. CASE parser \notin Lists \cup {"gemini", "zcode"}
  <2>1. Windows(slots) = KeepFirst(Published(slots)) /\ parser # "gemini"
    BY <1>5 DEF Windows, CodexWindows
  <2> QED BY <1>1, <2>1, KeepFirstReports
<1> QED BY <1>2, <1>3, <1>4, <1>5

\* A report leaves the account as it is.
LEMMA PublishLeaves ==
  ASSUME WindowInv, NEW slots, NEW ws, Publish(slots, ws)
  PROVE  /\ WindowStates /\ WindowStates' /\ UNCHANGED <<parser, allowance, use>>
         /\ published' = slots /\ shown' = ws
         /\ \A k : TrueShare(k)' = TrueShare(k)
         /\ \A p : Misread(p)' = Misread(p)
         /\ LanesOf(published)' = LanesOf(slots)
<1>1. /\ WindowStates /\ UNCHANGED <<parser, allowance, use>> /\ published' = slots /\ shown' = ws
  BY DEF WindowInv, Publish
<1>2. WindowStates'
  BY <1>1 DEF WindowStates
<1>3. \A k : TrueShare(k)' = TrueShare(k)
  BY <1>1 DEF TrueShare, UseOf, AllowanceOf
<1>4. \A p : Misread(p)' = Misread(p)
  BY <1>1 DEF Misread
<1>5. LanesOf(published)' = LanesOf(slots)
  BY <1>1 DEF LanesOf
<1> QED BY <1>1, <1>2, <1>3, <1>4, <1>5

LEMMA RefreshWindowsKeeps ==
  ASSUME WindowInv, RefreshWindows
  PROVE  WindowInv'
<1>1. PICK first \in Kinds, second \in Kinds, fields \in SUBSET Numbers, whole \in BOOLEAN :
        LET slots == <<Slot(first, fields, whole), Slot(second, fields \cup {"percent"}, FALSE)>>
        IN Publish(slots, Windows(slots))
  BY DEF RefreshWindows
<1> DEFINE p == Slot(first, fields, whole)
           q == Slot(second, fields \cup {"percent"}, FALSE)
           slots == <<p, q>>
           ws == Windows(slots)
<1>2. /\ WindowStates /\ WindowStates' /\ UNCHANGED <<parser, allowance, use>>
      /\ published' = slots /\ shown' = ws
      /\ \A k : TrueShare(k)' = TrueShare(k)
      /\ \A s : Misread(s)' = Misread(s)
  BY <1>1, PublishLeaves
<1>3. parser \notin {"cursor", "qoder"} /\ parser' \notin {"cursor", "qoder"}
  BY <1>2 DEF RefreshWindows
<1>4. PlanIsWithinLanes' /\ ~PlanIsGuessed'
  BY <1>3 DEF PlanIsWithinLanes, PlanIsGuessed
<1>5. CASE parser = "ollama"
  <2>1. ws = <<Unlimited>> /\ DOMAIN ws = {1} /\ ws[1] = Unlimited
    BY <1>5 DEF Windows, Lists
  <2> HIDE DEF ws
  <2>2. Unlimited.key = "unlimited" /\ Unlimited.percent = Absent /\ Unlimited.left = Absent
        /\ Unlimited.limit = Absent /\ Unlimited.remaining = Absent
    BY DEF Unlimited, Window
  <2>3. Consistent(Unlimited)
    BY <2>2 DEF Consistent
  <2>4. (\A i \in DOMAIN shown : shown[i].key \in Keys)' /\ WindowsAreConsistent'
    BY <1>2, <2>1, <2>2, <2>3 DEF WindowsAreConsistent, Keys
  <2>5. BarsAreTrue' /\ OneWindowPerPeriod'
    BY <1>2, <2>1, <2>2 DEF BarsAreTrue, OneWindowPerPeriod
  <2>6. TightestIsShown'
    BY <1>2, <1>5 DEF TightestIsShown
  <2> QED BY <1>2, <1>4, <2>4, <2>5, <2>6 DEF WindowInv, WindowsAreTrue
<1>6. CASE parser # "ollama"
  <2>1. SlotsOf(slots)
    <3>1. p.kind = first /\ SlotSays(p, first, UseOf(first), AllowanceOf(first))
      BY <1>2, SlotIsSlot
    <3>2. q.kind = second /\ SlotSays(q, second, UseOf(second), AllowanceOf(second))
      BY <1>2, SlotIsSlot
    <3> HIDE DEF p, q
    <3>3. DOMAIN slots = {1, 2} /\ slots[1] = p /\ slots[2] = q
      OBVIOUS
    <3> HIDE DEF slots
    <3> QED BY <3>1, <3>2, <3>3 DEF SlotsOf
  <2> HIDE DEF slots
  <2>2. /\ ReportOf(ws, slots)
        /\ parser \notin Lists => \A i, j \in DOMAIN ws : i # j => ws[i].key # ws[j].key
        /\ parser = "gemini" =>
             \A j \in DOMAIN slots : slots[j].percent \in 0..All =>
               \E i \in DOMAIN ws : ws[i].key = slots[j].kind /\ ws[i].percent >= slots[j].percent
    BY <1>2, <1>3, <1>6, <2>1, WindowsAreReported
  <2> HIDE DEF ws
  <2>3. (\A i \in DOMAIN shown : shown[i].key \in Keys)' /\ WindowsAreConsistent'
    BY <1>2, <2>2 DEF ReportOf, WindowsAreConsistent, Keys
  <2>4. BarsAreTrue'
    <3>1. ASSUME NEW i \in DOMAIN shown', ~Guessed(i)', shown'[i].percent # Absent
          PROVE  shown'[i].percent \in (TrueShare(shown'[i].key) - 1)..TrueShare(shown'[i].key)
      <4>1. ~Misread(slots[i])
        BY <1>2, <3>1 DEF Guessed
      <4> QED BY <1>2, <2>2, <3>1, <4>1 DEF ReportOf, Near
    <3> QED BY <1>2, <3>1 DEF BarsAreTrue
  <2>5. OneWindowPerPeriod'
    BY <1>2, <2>2 DEF OneWindowPerPeriod
  <2>6. TightestIsShown'
    BY <1>2, <2>2 DEF TightestIsShown
  <2> QED BY <1>2, <1>4, <2>3, <2>4, <2>5, <2>6 DEF WindowInv, WindowsAreTrue
<1> QED BY <1>5, <1>6

\* The slots of Cursor's summary.
CursorSlots(slots) ==
  /\ DOMAIN slots = 1..5
  /\ slots[1].kind = "session" /\ slots[2].kind = "weekly" /\ slots[3].kind = "plan"
  /\ \A i \in 1..3 : SlotSays(slots[i], slots[i].kind, UseOf(slots[i].kind), AllowanceOf(slots[i].kind))
  /\ \A i \in 4..5 : slots[i].used \in Nat \cup {Absent} /\ slots[i].limit \in {Absent, All}

\* What Cursor's plan is shown with: its own number, one between the lanes', or some
\* other amount.
LEMMA CursorPlanIs ==
  ASSUME WindowStates, NEW slots, CursorSlots(slots)
  PROVE  LET plan  == CursorPlan(slots)
             lanes == LanesOf(slots)
         IN /\ plan \in Nat \cup {Absent}
            /\ Has(slots[3], {"percent"}) => plan = slots[3].percent
            /\ ~Has(slots[3], {"percent"}) /\ lanes # {} =>
                 /\ plan \in 0..All
                 /\ \E l \in lanes : Clamp(slots[l].percent) <= plan
                 /\ \E l \in lanes : plan <= Clamp(slots[l].percent)
            /\ ~Has(slots[3], {"percent"}) /\ lanes = {} /\ Has(slots[3], {"used", "limit"}) =>
                 plan = Share(slots[3].used, slots[3].limit)
<1> DEFINE plan    == CursorPlan(slots)
           lanes   == LanesOf(slots)
           amounts == {i \in 3..5 : Has(slots[i], {"used", "limit"}) /\ slots[i].limit > 0}
<1>1. \A i \in 1..3 : UseOf(slots[i].kind) \in Nat /\ AllowanceOf(slots[i].kind) \in 1..400
  <2>1. \A i \in 1..3 : slots[i].kind \in Kinds \cup {"plan"}
    BY DEF CursorSlots, Kinds
  <2> QED BY <2>1, AmountsOf
<1>2. \A i \in 1..3 : slots[i].percent \in Nat \cup {Absent}
  BY DEF CursorSlots, SlotSays
<1>3. \A l \in lanes : /\ l \in {1, 2} /\ slots[l].percent # Absent
                       /\ Clamp(slots[l].percent) \in 0..All /\ Clamp(slots[l].percent) \in Nat
  <2>1. \A l \in lanes : l \in {1, 2} /\ slots[l].percent # Absent
    BY WhatASlotHas DEF LanesOf, Lanes
  <2>2. \A l \in lanes : slots[l].percent \in Int
    BY <1>2, <2>1
  <2> QED BY <2>1, <2>2, ClampIsPercentage
<1>4. \A i \in amounts : /\ slots[i].used \in Nat /\ slots[i].limit \in Nat \ {0}
                         /\ Share(slots[i].used, slots[i].limit) \in Nat
  <2>1. ASSUME NEW i \in amounts PROVE slots[i].used \in Nat /\ slots[i].limit \in Nat \ {0}
    <3>1. slots[i].used # Absent /\ slots[i].limit # Absent
      BY <2>1, WhatASlotHas
    <3>2. CASE i = 3
      <4>1. slots[3].used = UseOf(slots[3].kind) /\ slots[3].limit = AllowanceOf(slots[3].kind)
        BY <3>1, <3>2 DEF CursorSlots, SlotSays
      <4> QED BY <1>1, <3>2, <4>1
    <3>3. CASE i \in 4..5
      BY <3>1, <3>3 DEF CursorSlots, All
    <3> QED BY <3>2, <3>3
  <2> QED BY <2>1, ShareIsNumber
<1>5. amounts # {} => Min(amounts) \in amounts /\ \A i \in amounts : Min(amounts) <= i
  <2>1. amounts # {} => \E i \in amounts : \A j \in amounts : i <= j
    <3>1. \A i \in amounts : i = 3 \/ i = 4 \/ i = 5
      OBVIOUS
    <3> HIDE DEF amounts
    <3>2. CASE 3 \in amounts
      BY <3>1, <3>2
    <3>3. CASE 3 \notin amounts /\ 4 \in amounts
      BY <3>1, <3>3
    <3>4. CASE 3 \notin amounts /\ 4 \notin amounts
      BY <3>1, <3>4
    <3> QED BY <3>2, <3>3, <3>4
  <2> HIDE DEF amounts
  <2> QED BY <2>1 DEF Min
<1>6. CASE Has(slots[3], {"percent"})
  <2>1. plan = slots[3].percent
    BY <1>6 DEF CursorPlan
  <2> QED BY <1>2, <1>6, <2>1
<1>7. CASE ~Has(slots[3], {"percent"}) /\ lanes = Lanes
  <2> DEFINE x == Clamp(slots[1].percent)
             y == Clamp(slots[2].percent)
  <2>1. plan = (x + y) \div 2
    BY <1>7 DEF CursorPlan
  <2>2. 1 \in lanes /\ 2 \in lanes
    BY <1>7 DEF Lanes
  <2>3. x \in 0..200 /\ y \in 0..200
    BY <1>3, <2>2 DEF All
  <2> HIDE DEF x, y
  <2>4. plan \in 0..200 /\ (x <= y => x <= plan /\ plan <= y) /\ (y <= x => y <= plan /\ plan <= x)
    BY <2>1, <2>3
  <2>5. (x <= y \/ y <= x)
    BY <2>3
  <2>6. /\ \E l \in lanes : Clamp(slots[l].percent) <= plan
        /\ \E l \in lanes : plan <= Clamp(slots[l].percent)
    BY <2>2, <2>4, <2>5 DEF x, y
  <2>7. plan \in Nat /\ plan \in 0..All
    BY <2>4 DEF All
  <2> QED BY <1>7, <2>2, <2>6, <2>7
<1>8. CASE ~Has(slots[3], {"percent"}) /\ lanes # Lanes /\ lanes # {}
  <2> DEFINE lane == CHOOSE l \in lanes : TRUE
  <2>1. lane \in lanes
    BY <1>8
  <2>2. plan = Clamp(slots[lane].percent)
    BY <1>8 DEF CursorPlan
  <2> HIDE DEF lane, plan, lanes
  <2>3. plan \in Nat /\ plan \in 0..All
    BY <1>3, <2>1, <2>2
  <2>4. plan <= plan
    BY <2>3
  <2>5. /\ \E l \in lanes : Clamp(slots[l].percent) <= plan
        /\ \E l \in lanes : plan <= Clamp(slots[l].percent)
    BY <2>1, <2>2, <2>4
  <2>6. ~Has(slots[3], {"percent"}) /\ lanes # {}
    BY <1>8
  <2> QED BY <2>3, <2>5, <2>6 DEF plan, lanes
<1>9. CASE ~Has(slots[3], {"percent"}) /\ lanes = {} /\ amounts # {}
  <2>1. plan = Share(slots[Min(amounts)].used, slots[Min(amounts)].limit)
    BY <1>9 DEF CursorPlan, Lanes
  <2>2. Has(slots[3], {"used", "limit"}) => Min(amounts) = 3
    <3>1. ASSUME Has(slots[3], {"used", "limit"}) PROVE 3 \in amounts
      <4>1. slots[3].limit = AllowanceOf(slots[3].kind)
        BY <3>1, WhatASlotHas DEF CursorSlots, SlotSays
      <4> QED BY <1>1, <3>1, <4>1
    <3>2. \A i \in amounts : i \in 3..5
      OBVIOUS
    <3> HIDE DEF amounts
    <3> QED BY <1>5, <1>9, <3>1, <3>2
  <2> QED BY <1>4, <1>5, <1>9, <2>1, <2>2
<1>10. CASE ~Has(slots[3], {"percent"}) /\ lanes = {} /\ amounts = {}
  <2>1. plan = Absent
    BY <1>10 DEF CursorPlan, Lanes
  <2>2. ~Has(slots[3], {"used", "limit"})
    <3>1. ASSUME Has(slots[3], {"used", "limit"}) PROVE 3 \in amounts
      <4>1. slots[3].limit = AllowanceOf(slots[3].kind)
        BY <3>1, WhatASlotHas DEF CursorSlots, SlotSays
      <4> QED BY <1>1, <3>1, <4>1
    <3> QED BY <1>10, <3>1
  <2> QED BY <1>10, <2>1, <2>2
<1> QED BY <1>6, <1>7, <1>8, <1>9, <1>10

LEMMA RefreshCursorKeeps ==
  ASSUME WindowInv, RefreshCursor
  PROVE  WindowInv'
<1>1. PICK auto \in SUBSET {"percent"}, api \in SUBSET {"percent"},
           plan \in SUBSET {"used", "limit", "percent"}, own \in {Absent, 1}, team \in {Absent, 1} :
        LET slots == <<Slot("session", auto, FALSE), Slot("weekly", api, FALSE),
                       Slot("plan", plan, FALSE), OnDemand(own), OnDemand(team)>>
        IN Publish(slots, CursorWindows(slots))
  BY DEF RefreshCursor
<1> DEFINE p == Slot("session", auto, FALSE)
           q == Slot("weekly", api, FALSE)
           v == Slot("plan", plan, FALSE)
           slots == <<p, q, v, OnDemand(own), OnDemand(team)>>
           ws == CursorWindows(slots)
           number == CursorPlan(slots)
           lanes == LanesOf(slots)
<1>2. /\ WindowStates /\ WindowStates' /\ UNCHANGED <<parser, allowance, use>>
      /\ published' = slots /\ shown' = ws
      /\ \A k : TrueShare(k)' = TrueShare(k)
      /\ LanesOf(published)' = lanes
  BY <1>1, PublishLeaves
<1>3. parser' = "cursor" /\ parser' # "gemini"
  BY <1>2 DEF RefreshCursor
<1>4. CursorSlots(slots)
  <2>1. "session" \in Kinds /\ "weekly" \in Kinds
    BY DEF Kinds
  <2>2. /\ p.kind = "session" /\ SlotSays(p, "session", UseOf("session"), AllowanceOf("session"))
        /\ q.kind = "weekly" /\ SlotSays(q, "weekly", UseOf("weekly"), AllowanceOf("weekly"))
        /\ v.kind = "plan" /\ SlotSays(v, "plan", UseOf("plan"), AllowanceOf("plan"))
    BY <1>2, <2>1, SlotIsSlot
  <2>3. \A o \in {Absent, 1} : /\ OnDemand(o).used \in Nat \cup {Absent}
                               /\ OnDemand(o).limit \in {Absent, All}
    BY DEF OnDemand
  <2> HIDE DEF p, q, v
  <2>4. /\ DOMAIN slots = 1..5 /\ slots[1] = p /\ slots[2] = q /\ slots[3] = v
        /\ slots[4] = OnDemand(own) /\ slots[5] = OnDemand(team)
    OBVIOUS
  <2> HIDE DEF slots
  <2> QED BY <2>2, <2>3, <2>4 DEF CursorSlots
<1> HIDE DEF p, q, v, slots
<1>5. /\ number \in Nat \cup {Absent}
      /\ Has(slots[3], {"percent"}) => number = slots[3].percent
      /\ ~Has(slots[3], {"percent"}) /\ lanes # {} =>
           /\ number \in 0..All
           /\ \E l \in lanes : Clamp(slots[l].percent) <= number
           /\ \E l \in lanes : number <= Clamp(slots[l].percent)
      /\ ~Has(slots[3], {"percent"}) /\ lanes = {} /\ Has(slots[3], {"used", "limit"}) =>
           number = Share(slots[3].used, slots[3].limit)
  BY <1>2, <1>4, CursorPlanIs
<1>6. /\ lanes \subseteq {1, 2} /\ \A l \in lanes : slots[l].percent # Absent
  BY WhatASlotHas DEF LanesOf, Lanes
<1>7. \A i \in 1..3 : slots[i].percent \in Nat \cup {Absent} /\ slots[i].kind \in Kinds \cup {"plan"}
  BY <1>4 DEF CursorSlots, SlotSays, Kinds
<1> HIDE DEF number, lanes
<1>8. CASE number = Absent
  <2>1. DOMAIN ws = {}
    BY <1>8 DEF CursorWindows, number
  <2>2. (\A i \in DOMAIN shown : shown[i].key \in Keys)' /\ WindowsAreConsistent' /\ BarsAreTrue'
        /\ PlanIsWithinLanes' /\ OneWindowPerPeriod' /\ TightestIsShown'
    BY <1>2, <1>3, <2>1 DEF WindowsAreConsistent, BarsAreTrue, PlanIsWithinLanes, OneWindowPerPeriod,
                            TightestIsShown
  <2> QED BY <1>2, <2>2 DEF WindowInv, WindowsAreTrue
<1>9. CASE number # Absent
  <2> DEFINE percent(i) == IF i = 3 THEN number ELSE slots[i].percent
  <2>1. /\ DOMAIN ws = lanes \cup {3}
        /\ \A i \in DOMAIN ws : ws[i] = FromPercent(slots[i].kind, percent(i))
    BY <1>9 DEF CursorWindows, number, lanes
  <2> HIDE DEF ws
  <2>2. \A i \in DOMAIN ws : percent(i) \in Int /\ i \in 1..3
    <3>1. number \in Nat
      BY <1>5, <1>9
    <3>2. ASSUME NEW l \in lanes PROVE l \in 1..3 /\ l # 3 /\ slots[l].percent \in Nat
      <4>1. l = 1 \/ l = 2
        BY <1>6
      <4>2. l \in 1..3
        BY <4>1
      <4>3. slots[l].percent \in Nat \cup {Absent}
        BY <1>7, <4>2
      <4>4. slots[l].percent # Absent
        BY <1>6
      <4> QED BY <4>1, <4>2, <4>3, <4>4
    <3> QED BY <2>1, <3>1, <3>2
  <2> HIDE DEF percent
  <2>3. \A i \in DOMAIN ws : /\ ws[i].percent = Clamp(percent(i)) /\ ws[i].percent # Absent
                             /\ ws[i].key = slots[i].kind /\ Consistent(ws[i])
    <3>1. ASSUME NEW i \in DOMAIN ws
          PROVE  /\ ws[i].percent = Clamp(percent(i)) /\ ws[i].percent # Absent
                 /\ ws[i].key = slots[i].kind /\ Consistent(ws[i])
      <4>1. SoundWindow(ws[i], slots[i].kind) /\ ws[i].percent = Clamp(percent(i))
        BY <2>1, <2>2, PercentWindow
      <4>2. ws[i].percent # Absent
        BY <2>2, <4>1, ClampIsPercentage DEF Absent
      <4> QED BY <4>1, <4>2, NoWindow DEF SoundWindow
    <3> QED BY <3>1
  <2>4. (\A i \in DOMAIN shown : shown[i].key \in Keys)' /\ WindowsAreConsistent'
    BY <1>2, <1>7, <2>2, <2>3 DEF WindowsAreConsistent, Keys
  <2>5. OneWindowPerPeriod'
    <3>1. \A i, j \in 1..3 : i # j => slots[i].kind # slots[j].kind
      BY <1>4 DEF CursorSlots
    <3> QED BY <1>2, <2>2, <2>3, <3>1 DEF OneWindowPerPeriod
  <2>6. TightestIsShown'
    BY <1>3 DEF TightestIsShown
  <2>7. PlanIsWithinLanes'
    <3>1. SUFFICES ASSUME ~Has(slots[3], {"percent"}), lanes # {}
                   PROVE  /\ \E l \in lanes : ws[l].percent <= ws[3].percent
                          /\ \E l \in lanes : ws[3].percent <= ws[l].percent
      <4>1. LanesOf(published') = lanes
        BY <1>2 DEF LanesOf
      <4> QED BY <1>2, <4>1 DEF PlanIsWithinLanes
    <3>2. number \in 0..All /\ Clamp(number) = number
      <4>1. number \in 0..All
        BY <1>5, <3>1
      <4>2. number \in Int
        BY <4>1
      <4> QED BY <4>1, <4>2, ClampIsPercentage
    <3>3. ws[3].percent = number
      BY <2>1, <2>3, <3>2 DEF percent
    <3>4. \A l \in lanes : ws[l].percent = Clamp(slots[l].percent)
      BY <1>6, <2>1, <2>3 DEF percent
    <3> QED BY <1>5, <3>1, <3>3, <3>4
  <2>8. BarsAreTrue'
    <3>1. ASSUME NEW i \in DOMAIN ws, ~(i = 3 /\ PlanIsGuessed')
          PROVE  ws[i].percent \in (TrueShare(ws[i].key) - 1)..TrueShare(ws[i].key)
      <4> DEFINE k == slots[i].kind
                 s == Share(UseOf(k), AllowanceOf(k))
      <4>1. SlotSays(slots[i], k, UseOf(k), AllowanceOf(k)) /\ k \in Kinds \cup {"plan"}
        BY <1>4, <1>7, <2>2 DEF CursorSlots
      <4>2. UseOf(k) \in Nat /\ AllowanceOf(k) \in 1..400 /\ AllowanceOf(k) \in Nat \ {0}
        BY <1>2, <4>1, AmountsOf
      <4>3. ws[i].key = k /\ ws[i].percent = Clamp(percent(i)) /\ TrueShare(k) = Clamp(s)
        BY <2>3 DEF TrueShare
      <4> HIDE DEF k
      <4>4. s \in Nat
        BY <4>2, ShareIsNumber
      <4>5. CASE slots[i].percent # Absent
        <5>1. percent(i) = slots[i].percent
          BY <1>5, <4>5, WhatASlotHas DEF percent
        <5>2. Clamp(slots[i].percent) \in (Clamp(s) - 1)..Clamp(s)
          BY <4>1, <4>2, <4>5, RoundedIsNear
        <5> QED BY <4>3, <5>1, <5>2
      <4>6. CASE slots[i].percent = Absent
        <5>1. i = 3
          BY <1>6, <2>1, <4>6
        <5>2. lanes = {} /\ slots[3].used # Absent /\ slots[3].limit # Absent
          BY <1>2, <1>3, <3>1, <4>6, <5>1, WhatASlotHas DEF PlanIsGuessed
        <5>3. number = Share(slots[3].used, slots[3].limit)
          BY <1>5, <4>6, <5>1, <5>2, WhatASlotHas
        <5>4. slots[i].used = UseOf(k) /\ slots[i].limit = AllowanceOf(k)
          BY <4>1, <5>1, <5>2 DEF SlotSays
        <5>5. percent(i) = s
          BY <5>1, <5>3, <5>4 DEF percent
        <5> HIDE DEF s
        <5>6. Clamp(s) \in Nat
          BY <4>4, ClampIsPercentage
        <5>7. Clamp(s) \in (Clamp(s) - 1)..Clamp(s)
          BY <5>6
        <5> QED BY <4>3, <5>5, <5>7
      <4> QED BY <4>5, <4>6
    <3>2. ASSUME NEW i \in DOMAIN shown', ~Guessed(i)', shown'[i].percent # Absent
          PROVE  shown'[i].percent \in (TrueShare(shown'[i].key) - 1)..TrueShare(shown'[i].key)
      <4>1. i \in DOMAIN ws /\ ~(i = 3 /\ PlanIsGuessed')
        BY <1>2, <3>2 DEF Guessed
      <4> QED BY <1>2, <3>1, <4>1
    <3> QED BY <1>2, <3>2 DEF BarsAreTrue
  <2> QED BY <1>2, <2>4, <2>5, <2>6, <2>7, <2>8 DEF WindowInv, WindowsAreTrue
<1> QED BY <1>8, <1>9

\* The window of Qoder, of whatever amounts, shows their share.
LEMMA QoderShows ==
  ASSUME NEW p, p.used \in Nat, p.limit \in 1..400
  PROVE  /\ QoderGauge(p).key = p.kind /\ Consistent(QoderGauge(p))
         /\ QoderGauge(p).percent = Clamp(Share(p.used, p.limit))
<1> DEFINE k == p.kind
           u == p.used
           a == p.limit
           m == IF u > a THEN a ELSE u
           t == Clamp(Share(u, a))
<1>1. m \in Nat /\ Clamp(Share(m, a)) = t /\ a \in Nat \ {0} /\ t # Absent
  <2>1. a \in Nat \ {0}
    OBVIOUS
  <2>2. Share(u, a) \in Nat
    BY <2>1, ShareIsNumber
  <2>3. t \in Nat
    BY <2>2, ClampIsPercentage
  <2>4. m \in Nat /\ Clamp(Share(m, a)) = t
    BY AmountsAgree
  <2> HIDE DEF m, t
  <2> QED BY <2>1, <2>3, <2>4 DEF Absent
<1>2. QoderGauge(p) = WithLimit(k, m, a)
  BY WhatASlotHas DEF QoderGauge, Absent
<1> HIDE DEF m, t, k, u, a
<1>3. SoundWindow(WithLimit(k, m, a), k) /\ WithLimit(k, m, a).percent = t
  BY <1>1, LimitWindow
<1> QED BY <1>1, <1>2, <1>3, NoWindow DEF SoundWindow, t, k, u, a

LEMMA RefreshQoderKeeps ==
  ASSUME WindowInv, RefreshQoder
  PROVE  WindowInv'
<1>1. PICK fields \in SUBSET Numbers, shared \in BOOLEAN :
        LET base  == Slot("session", fields, FALSE)
            slots == IF shared THEN <<base, Slot("weekly", fields, FALSE)>> ELSE <<base>>
        IN Publish(slots, QoderWindows(slots))
  BY DEF RefreshQoder
<1> DEFINE p == Slot("session", fields, FALSE)
           q == Slot("weekly", fields, FALSE)
           slots == IF shared THEN <<p, q>> ELSE <<p>>
           ws == QoderWindows(slots)
           pool == Pool(slots)
<1>2. /\ WindowStates /\ WindowStates' /\ UNCHANGED <<parser, allowance, use>>
      /\ published' = slots /\ shown' = ws
      /\ \A k : TrueShare(k)' = TrueShare(k)
  BY <1>1, PublishLeaves
<1>3. parser' \notin {"cursor", "gemini"}
  BY <1>2 DEF RefreshQoder
<1>4. /\ "session" \in Kinds /\ "weekly" \in Kinds /\ "plan" \in Keys
      /\ UseOf("session") \in Nat /\ UseOf("weekly") \in Nat /\ UseOf("plan") \in Nat
      /\ AllowanceOf("session") \in 1..400 /\ AllowanceOf("plan") \in 1..400
      /\ UseOf("plan") = UseOf("session") + UseOf("weekly")
      /\ AllowanceOf("plan") = AllowanceOf("session") + AllowanceOf("weekly")
  <2>1. "session" \in Kinds /\ "weekly" \in Kinds /\ "plan" \in Keys
    BY DEF Kinds, Keys
  <2>2. AllowanceOf("session") \in 1..400
    BY <1>2, <2>1, AmountsOf
  <2>3. AllowanceOf("session") = allowance /\ AllowanceOf("weekly") = allowance
        /\ AllowanceOf("plan") = 2 * allowance
        /\ UseOf("plan") = UseOf("session") + UseOf("weekly")
    BY DEF AllowanceOf, UseOf
  <2>4. AllowanceOf("plan") = AllowanceOf("session") + AllowanceOf("weekly")
    BY <2>2, <2>3
  <2> QED BY <1>2, <2>1, <2>2, <2>3, <2>4, AmountsOf
<1>5. CASE \E i \in DOMAIN slots : ~Has(slots[i], {"used", "limit"})
  <2>1. DOMAIN ws = {}
    BY <1>5 DEF QoderWindows
  <2>2. (\A i \in DOMAIN shown : shown[i].key \in Keys)' /\ WindowsAreConsistent' /\ BarsAreTrue'
        /\ PlanIsWithinLanes' /\ OneWindowPerPeriod' /\ TightestIsShown'
    BY <1>2, <1>3, <2>1 DEF WindowsAreConsistent, BarsAreTrue, PlanIsWithinLanes, OneWindowPerPeriod,
                            TightestIsShown
  <2> QED BY <1>2, <2>2 DEF WindowInv, WindowsAreTrue
<1>6. CASE \A i \in DOMAIN slots : Has(slots[i], {"used", "limit"})
  <2>1. ws = <<QoderGauge(pool)>>
    BY <1>6 DEF QoderWindows
  <2>2. \E k \in {"session", "plan"} :
          pool.kind = k /\ pool.used = UseOf(k) /\ pool.limit = AllowanceOf(k)
    <3>1. /\ "used" \in fields /\ "limit" \in fields
      <4>1. 1 \in DOMAIN slots /\ slots[1] = p
        OBVIOUS
      <4>2. p.used # Absent /\ p.limit # Absent
        BY <1>6, <4>1, WhatASlotHas
      <4> QED BY <4>2 DEF Slot
    <3>2. /\ p.kind = "session" /\ p.used = UseOf("session") /\ p.limit = AllowanceOf("session")
          /\ q.used = UseOf("weekly") /\ q.limit = AllowanceOf("weekly")
      BY <3>1 DEF Slot
    <3>3. p = [kind |-> p.kind, used |-> p.used, limit |-> p.limit, remaining |-> p.remaining,
               percent |-> p.percent]
      BY DEF Slot
    <3> HIDE DEF p, q
    <3>4. CASE ~shared
      <4>1. slots = <<p>> /\ DOMAIN slots = {1} /\ slots[1] = p
        BY <3>4
      <4>2. pool = p
        BY <4>1 DEF Pool
      <4> QED BY <3>2, <4>2
    <3>5. CASE shared
      <4>1. DOMAIN slots = {1, 2} /\ slots[1] = p /\ slots[2] = q
        BY <3>5
      <4>2. pool = [p EXCEPT !.kind = "plan", !.used = @ + q.used, !.limit = @ + q.limit]
        <5>1. DOMAIN slots # {1}
          BY <4>1
        <5> HIDE DEF slots
        <5> QED BY <4>1, <5>1 DEF Pool
      <4> HIDE DEF pool
      <4>3. pool = [kind |-> "plan", used |-> p.used + q.used, limit |-> p.limit + q.limit,
                    remaining |-> p.remaining, percent |-> p.percent]
        BY <3>3, <4>2
      <4> QED BY <1>4, <3>2, <4>3
    <3> QED BY <3>4, <3>5
  <2> HIDE DEF p, q, slots, pool, ws
  <2>3. PICK k \in {"session", "plan"} :
          pool.kind = k /\ pool.used = UseOf(k) /\ pool.limit = AllowanceOf(k)
    BY <2>2
  <2> DEFINE w == QoderGauge(pool)
  <2>4. w.key = k /\ Consistent(w) /\ w.percent = TrueShare(k)
    <3>1. UseOf(k) \in Nat /\ AllowanceOf(k) \in 1..400
      BY <1>4, <2>3
    <3>2. pool.used \in Nat /\ pool.limit \in 1..400
      BY <2>3, <3>1
    <3> HIDE DEF w
    <3>3. QoderGauge(pool).key = pool.kind /\ Consistent(QoderGauge(pool))
          /\ QoderGauge(pool).percent = Clamp(Share(pool.used, pool.limit))
      BY <3>2, QoderShows
    <3> QED BY <2>3, <3>3 DEF TrueShare, w
  <2>5. TrueShare(k) \in (TrueShare(k) - 1)..TrueShare(k)
    <3>1. Share(UseOf(k), AllowanceOf(k)) \in Nat
      <4>1. UseOf(k) \in Nat /\ AllowanceOf(k) \in Nat \ {0}
        BY <1>4, <2>3
      <4> QED BY <4>1, ShareIsNumber
    <3>2. TrueShare(k) \in Nat
      BY <3>1, ClampIsPercentage DEF TrueShare
    <3> QED BY <3>2
  <2> HIDE DEF w
  <2>6. DOMAIN ws = {1} /\ ws[1] = w
    BY <2>1 DEF w
  <2>7. k \in Keys
    BY <1>4, <2>3 DEF Keys
  <2>8. (\A i \in DOMAIN shown : shown[i].key \in Keys)' /\ WindowsAreConsistent'
        /\ OneWindowPerPeriod' /\ PlanIsWithinLanes' /\ TightestIsShown'
    BY <1>2, <1>3, <2>4, <2>6, <2>7 DEF WindowsAreConsistent, OneWindowPerPeriod,
                                        PlanIsWithinLanes, TightestIsShown
  <2>9. BarsAreTrue'
    BY <1>2, <2>4, <2>5, <2>6 DEF BarsAreTrue
  <2> QED BY <1>2, <2>8, <2>9 DEF WindowInv, WindowsAreTrue
<1> QED BY <1>5, <1>6

LEMMA WindowInvHolds == WindowSpec => []WindowInv
<1>1. WindowInit => WindowInv
  <2> SUFFICES ASSUME WindowInit PROVE WindowInv
    OBVIOUS
  <2>1. WindowStates
    BY MaxUseAssumption DEF WindowInit, WindowStates, MaxUseAssumption
  <2>2. DOMAIN shown = {} /\ DOMAIN published = {}
    BY DEF WindowInit
  <2>3. WindowsAreTrue
    BY <2>2 DEF WindowsAreTrue, WindowsAreConsistent, BarsAreTrue, PlanIsWithinLanes,
                OneWindowPerPeriod, TightestIsShown
  <2> QED BY <2>1, <2>2, <2>3 DEF WindowInv
<1>2. ASSUME WindowInv, [WindowNext]_windowVars PROVE WindowInv'
  <2>1. ASSUME NEW k \in Kinds, UseMore(k) \/ NewPeriod(k) PROVE WindowInv'
    <3>1. use[k] \in Nat /\ MaxUse \in Nat
      BY <1>2, MaxUseAssumption DEF WindowInv, WindowStates, MaxUseAssumption
    <3>2. use' \in [Kinds -> 0..MaxUse]
      BY <1>2, <2>1, <3>1 DEF UseMore, NewPeriod, WindowInv, WindowStates
    <3>3. WindowStates'
      BY <1>2, <2>1, <3>2 DEF UseMore, NewPeriod, WindowInv, WindowStates
    <3> QED BY <2>1, <3>3, NothingIsTrue DEF UseMore, NewPeriod
  <2>2. CASE RefreshWindows
    BY <1>2, <2>2, RefreshWindowsKeeps
  <2>3. CASE RefreshCursor
    BY <1>2, <2>3, RefreshCursorKeeps
  <2>4. CASE RefreshQoder
    BY <1>2, <2>4, RefreshQoderKeeps
  <2>5. CASE UNCHANGED windowVars
    <3>1. /\ UNCHANGED <<parser, allowance, use, published, shown>>
          /\ \A k : TrueShare(k)' = TrueShare(k)
          /\ LanesOf(published)' = LanesOf(published)
      BY <2>5 DEF windowVars, TrueShare, UseOf, AllowanceOf, LanesOf
    <3>2. \A i : Guessed(i)' <=> Guessed(i)
      BY <3>1 DEF Guessed, Misread, PlanIsGuessed
    <3>3. BarsAreTrue'
      BY <1>2, <3>1, <3>2 DEF BarsAreTrue, WindowInv, WindowsAreTrue
    <3>4. PlanIsWithinLanes'
      BY <1>2, <3>1 DEF PlanIsWithinLanes, WindowInv, WindowsAreTrue
    <3> QED
      BY <1>2, <3>1, <3>3, <3>4 DEF WindowInv, WindowStates, WindowsAreTrue, WindowsAreConsistent,
                                   OneWindowPerPeriod, TightestIsShown
  <2> QED BY <1>2, <2>1, <2>2, <2>3, <2>4, <2>5 DEF WindowNext
<1> QED BY <1>1, <1>2, PTL DEF WindowSpec

\* The account and the windows that are shown of it stay within their types.
THEOREM WindowTypes == WindowSpec => []WindowTypeOK
<1>1. WindowInv => WindowTypeOK
  BY DEF WindowInv, WindowStates, WindowTypeOK
<1> QED BY <1>1, WindowInvHolds, PTL

\* Whatever part of its numbers a provider publishes, with whatever rounding, the
\* windows of every parser are consistent (check_invariants), show the use there
\* really is unless the number for it is missing, and are there once unless the
\* provider's list is passed on; Cursor's plan is within its lanes, and Gemini's
\* windows show the bucket with least left.
THEOREM EveryWindowIsTrue == WindowSpec => []WindowsAreTrue
BY WindowInvHolds, PTL DEF WindowInv

-----------------------------------------------------------------------------
(* All adapters together *)

\* What holds of a component holds of it among the others: every behaviour of the
\* whole is a behaviour of each.
THEOREM EachPartIsItsComponent == Spec => ScanSpec /\ CounterSpec /\ QuotaSpec /\ WindowSpec
<1> DEFINE allVars == <<part, scanVars, counterVars, quotaVars, windowVars>>
<1>1. Init => ScanInit /\ CounterInit /\ QuotaInit /\ WindowInit
  BY DEF Init
<1>2. [Next]_allVars => [ScanNext]_scanVars
  BY DEF Next, ScanStep, CounterStep, SourceStep, WindowStep
<1>3. [Next]_allVars => [CounterNext]_counterVars
  BY DEF Next, ScanStep, CounterStep, SourceStep, WindowStep
<1>4. [Next]_allVars => [QuotaNext]_quotaVars
  BY DEF Next, ScanStep, CounterStep, SourceStep, WindowStep
<1>5. [Next]_allVars => [WindowNext]_windowVars
  BY DEF Next, ScanStep, CounterStep, SourceStep, WindowStep
<1> QED
  BY <1>1, <1>2, <1>3, <1>4, <1>5, PTL DEF Spec, ScanSpec, CounterSpec, QuotaSpec, WindowSpec

\* Every component keeps to its types and bounds, with any of the adapters.
THEOREM AdaptersKeepTheirTypes == Spec => []AdaptersTypeOK
<1>1. ScanTypeOK /\ CounterTypeOK /\ QuotaTypeOK /\ WindowTypeOK => AdaptersTypeOK
  BY DEF AdaptersTypeOK
<1> QED
  BY <1>1, EachPartIsItsComponent, ScanTypes, CounterTypes, QuotaTypes, WindowTypes, PTL
=============================================================================
