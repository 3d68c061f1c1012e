CONSTANTS
  Name <- InitNames
  Attr <- InitAttr
  Jobs <- InitJobs
SPECIFICATION Spec
INVARIANT RootsStay
