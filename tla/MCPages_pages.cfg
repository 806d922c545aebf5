\* Two rows of four kinds and a clock of four ticks; one provider of six kinds; three
\* acts of the user on the settings; two bundled pets; a budget and two channels; two
\* pages and two refresh cycles.
SPECIFICATION Spec
CONSTANTS
  Rows <- SomeRows
  MaxRows = 2
  MaxTick = 3
  DayTicks = 2
  Offset = 1
  ClockChange = 2
  WeekDays = 2
  Unit = 3
  Overrides <- SomeOverrides
  Cards = {"opencode", "openrouter_api", "antigravity", "google_gemini", "kilo_code", "removed"}
  LastTime = 1
  FreshFor = 1
  MaxActs = 3
  MaxCalls = 2
  Ids = {"boba", "yae"}
  Packages = {"p", "q"}
  Bundled = "p"
  Legacy = {"boba"}
  Added = {"yae"}
  NoPet = ""
  Meters = {"budget"}
  UsageModes = {"local_scan"}
  Levels = {"clear", "warning", "critical"}
  Codes = {"", "SOURCE_UNAVAILABLE"}
  Filters = {"day", "week"}
  Default = "day"
  MaxPages = 2
  MaxRequests = 3
  MaxVersion = 2
INVARIANTS
  PagesTypeOK
  
  CardsTellTruth
  SettingsAgree
  PetsAreKept
  AlertsStand
  LoadsSettle
PROPERTIES
  StartupIsRegistered
  ReappearedIsUnread
  NeverOlder
CHECK_DEADLOCK FALSE
