CONSTANTS
  p1 = p1  p2 = p2  t1 = t1  t2 = t2  t3 = t3  t4 = t4
  NoTemp = NoTemp
  NoProc = NoProc
  Proc = {p1}
  TempName = {t1, t2, t3, t4}
  MaxInputs = 2
  Jobs <- AnyJob
SPECIFICATION Spec
INVARIANTS SuccessMeansOutput
