CONSTANTS
  Script <- AllScripts
  Once <- OnceScripts
  Whole <- WholeScripts
  Resumed <- ResumedScripts
  MaxRuns = 2
SPECIFICATION Spec
INVARIANTS
  NeverTwice
  AcceptedIsComplete
  OwnWorkIsNotRefused
PROPERTY ResumesToCompletion
