CONSTANTS
  Script <- LocalIntegerConstants
  Once = {}
  Whole = {}
  Resumed = {}
  MaxRuns = 2
SPECIFICATION Spec
INVARIANT FailsClosed
