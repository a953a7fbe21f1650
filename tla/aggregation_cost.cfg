\* The cost in the default currency, nothing changing or failing.
SPECIFICATION Spec
CONSTANTS
  w1 = w1
  w2 = w2
  t1 = t1
  i1 = i1
  i2 = i2
  i3 = i3
  p1 = p1
  p2 = p2
  p3 = p3
  p4 = p4
  q1 = q1
  q2 = q2
  usd = usd
  eur = eur
  BYN = BYN
  NoCurrency = NoCurrency
  Absent = Absent
  Query = {q1, q2}
  Currencies = {usd, eur, BYN}
  Published <- PublishedMC
  Late <- LateMC
  Worlds <- EachWorkspace
  MaxChanges = 0
  MayFail = FALSE
INVARIANTS
  CostIsTotal
