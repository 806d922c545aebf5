SPECIFICATION SettingsSpec
CONSTANTS
  MaxActs = 4
  MaxCalls = 1
INVARIANT ClosingIsRemembered
