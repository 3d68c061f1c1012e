CONSTANTS
  Name <- InitNames
  Attr <- InitAttr
  Jobs <- EndJobs
SPECIFICATION Spec
INVARIANT EndLabelsFollowTheirBytes
