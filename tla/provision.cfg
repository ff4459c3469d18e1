CONSTANTS
  MaxRuns = 3
SPECIFICATION Spec
INVARIANTS DoneIsComplete RunsPushedImages WiredIsServed
CHECK_DEADLOCK FALSE
