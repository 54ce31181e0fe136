SPECIFICATION ApiSpec
CONSTANTS
  Pairs <- MCPairs
  Options <- MCOptions
  None = None
  MinValue <- MCMinValue
  DefaultWidth = 64
  NCores = 3
  MaxCalls = 2
INVARIANT FormatDoesNotShow
CHECK_DEADLOCK FALSE
