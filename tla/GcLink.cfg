CONSTANTS
  Name <- GcNames
  Attr <- GcAttr
  Jobs <- GcJobs
SPECIFICATION Spec
INVARIANTS LiveIsReachable CollectsByInputSection InputOrderIsKept SymbolsFollowTheirBytes RelocationsFollowTheirBytes QueueSuffices
PROPERTIES KeptTargetsStay PruneEnds
