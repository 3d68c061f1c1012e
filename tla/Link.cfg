CONSTANTS
  a = a  b = b  c = c  x = x  y = y  main = main  lib1 = lib1  lib2 = lib2
  NoObject = NoObject
  Linker = Linker
  Name = {a, b, c, x, y}
  Boundary = {c}
  Arrays <- ArrayPairs
  Dynamic = x
  EhdrStart = y
  Path = {main, lib1, lib2}
  Jobs <- LinkJobs
SPECIFICATION Spec
INVARIANTS TypeOK StrongestWins NoDanglingReference
PROPERTIES SearchTakesNewMembers SearchesAreExhaustive LinkEnds
