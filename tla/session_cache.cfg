SPECIFICATION Spec
CONSTANTS
  c1 = c1
  h1 = h1
  t1 = t1
  t2 = t2
  m1 = m1
  a1 = a1
  l1 = l1
  Session = {s1, s2}
  Request = {c1, h1, t1, t2, m1, l1}
  Kind <- MCKind
  Level = {"off", "high"}
  Workloads <- MCWorkloads
  None = None
  NoId = NoId
  MaxRestart = 1
SYMMETRY Interchangeable
INVARIANTS SettledAgrees AckedNameKept ListComplete
CHECK_DEADLOCK FALSE
