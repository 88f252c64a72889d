CONSTANTS
  COLS = 4
  ROWS = 3
  TAB = 3
  TAB_STOP = 2
  REGISTER = 4
  GREETING_AT = 5
  MaxKeys = 4
  MaxBootKeys = 2
SPECIFICATION KernelFairSpec
INVARIANTS EchoIsTerminal GreetingShown CursorShown ResetOnlyBeforeHandler
PROPERTIES KeysAnswered
\* The keys are typed and echoed.
CHECK_DEADLOCK FALSE
