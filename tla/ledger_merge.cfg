SPECIFICATION Spec
CONSTANTS
  Request = {r1, r2}
  NoRequest = NoRequest
  Absent = Absent
  Gone = Gone
  Null = Null
  w1 = w1  w2 = w2  w3 = w3  i1 = i1  i2 = i2  i3 = i3  i4 = i4
  p1 = p1  p2 = p2  p3 = p3  t1 = t1  t2 = t2
  ann = ann  bob = bob  cid = cid  dan = dan  eve = eve
  Workspace <- MCWorkspace
  ItemId <- MCItem
  PaymentId <- MCPayment
  TagId <- MCTag
  Member <- MCMember
  MemberOf <- MCMemberOf
  OwnerSeat = {cid}
  FirstSeat <- MCFirstSeat
  Title = {"a", "b"}
  Sent = {"b"}
  SentForPayment = {"b"}
  Rule = {"EQUALLY", "ALL_PAYER"}
  DefaultRule = "ALL_PAYER"
  PaymentLists <- MCPaymentLists
  StakeLists <- MCStakeLists
  Population <- MCPopulation
  Key <- MCKey
  Mixes = {{"mergeItems", "createPayment"}}
  MaxRequests = 3
SYMMETRY Symmetry
CHECK_DEADLOCK FALSE
PROPERTIES
  MergeKeepsPayments
