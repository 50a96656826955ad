\* Three calls, one in the other's callback, and two refreshes meanwhile.
SPECIFICATION Spec
CONSTANTS
  Lua = Lua
  Others = {w}
  None = None
  Rounds <- MCRounds
  MaxCalls = 3
  MaxRefreshes = 2
INVARIANTS TypeOK CurlReady AnsweredOnce
PROPERTIES CallsEnd
