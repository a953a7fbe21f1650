\* One check at a time, up to 2 changes by others during it.
SPECIFICATION Spec
CONSTANTS
  mira = mira
  olga = olga
  ada = ada
  w1 = w1
  w2 = w2
  i1 = i1
  i2 = i2
  i3 = i3
  t1 = t1
  t2 = t2
  p1 = p1
  p2 = p2
  m1 = m1
  m2 = m2
  v1 = v1
  v2 = v2
  c1 = c1
  c2 = c2
  Nobody = Nobody
  NoRow = NoRow
  Rows <- RowsMC
  Callers = {mira, ada, Nobody}
  MaxChanges = 2
INVARIANTS
  AllowedWereEntitled
  RefusedHadLapsed
