\* Two source files of three records together, a clock of two instants; two session
\* files of three turns together; every quota adapter; every parser, with an
\* allowance of which the percentages are whole and one of which they are not.
SPECIFICATION Spec
CONSTANTS
  LocalAdapters = {"pi_agent", "anthropic_claude", "kilo_code", "roo_code", "kimi_code", "mimo_code", "kilo_cli", "zai_glm", "hermes", "opencode"}
  SourceFiles = 2
  MaxRecords = 3
  MaxTokens = 2
  MaxTime = 1
  MaxFiles = 2
  MaxFileBytes = 2
  MaxTotalBytes = 2
  SessionFiles = 2
  MaxTurns = 3
  TurnTokens = {1, 2}
  MaxSize = 2
  MaxSamples = 1
  QuotaAdapters = {"openai_codex", "anthropic_claude", "github_copilot", "cursor", "grok", "kimi_code", "google_gemini", "antigravity", "kiro", "ark_plan", "devin", "openrouter", "command_code", "zcode_ai", "qoder", "opencode", "ollama_local"}
  MaxNow = 2
  Freshness = 1
  Parsers = {"codex", "codex credits", "claude", "claude limits", "copilot", "cursor", "openrouter", "openrouter rate", "kimi", "command code", "devin", "ark", "gemini", "antigravity", "zcode", "zcode rows", "zcode balance", "qoder", "grok", "grok on demand", "grok headers", "opencode", "ollama"}
  Allowances = {2, 200}
  MaxUse = 3
INVARIANTS
  AdaptersTypeOK
  ScanCountsRight
  SessionsCountRight
  CollectionIsHonest
  
PROPERTIES
  OlderOnlyAfterFailure
  CollectionEnds
CHECK_DEADLOCK FALSE
