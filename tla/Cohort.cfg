SPECIFICATION Spec
CONSTANTS
  N = 3
  Header = {"offsets", "compile", "config"}
  Allowed = {"offsets", "compile"}
  Deps <- MCDeps
  MaxGen = 2
  MaxReplay = 2
INVARIANTS
  TestedIsSelected
  TestedIsCoherent
  ClaimsAreEarned
  SearchAgreesWithPlanner
PROPERTY CohortEnds
