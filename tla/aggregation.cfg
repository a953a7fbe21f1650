\* Every metric and view, one change by others, a bank that may fail.
SPECIFICATION FairSpec
CONSTANTS
  w1 = w1
  w2 = w2
  t1 = t1
  i1 = i1
  i2 = i2
  i3 = i3
  p1 = p1
  p2 = p2
  p3 = p3
  p4 = p4
  q1 = q1
  q2 = q2
  usd = usd
  eur = eur
  BYN = BYN
  NoCurrency = NoCurrency
  Absent = Absent
  Query = {q1, q2}
  Currencies = {usd, eur, BYN}
  Published <- PublishedMC
  Late <- LateMC
  Worlds <- Everything
  MaxChanges = 1
  MayFail = TRUE
INVARIANTS
  AnswersAreTotals
  RatesAsPublished
PROPERTIES
  EveryQueryEnds
