CONSTANTS
  Writers = {w1, w2}
  Path = path
  Temps = {t1, t2}
  Old = old
  None = none
  Jobs <- MCJobs
SPECIFICATION Spec
INVARIANTS TempsHaveOwners CensusScansAll
PROPERTIES AtomicReplacement PublishedIsFrozen WritersEnd
