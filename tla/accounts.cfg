SPECIFICATION Spec
CONSTANTS
  Request = {r1, r2}
  NoRequest = NoRequest
  Absent = Absent
  Gone = Gone
  Null = Null
  Nobody = Nobody
  u1 = u1  u2 = u2  u3 = u3  v1 = v1  v2 = v2  s1 = s1  s2 = s2  s3 = s3
  atA = atA  atB = atB  atBplusX = atBplusX  AtB = AtB
  UserId <- MCUser
  InviteId = {v1, v2}
  Session = {s1, s2, s3}
  Key <- MCKey
  Address <- MCAddress
  Lower <- MCLower
  Untagged <- MCUntagged
  Password = {"p", "q"}
  Worlds <- MCWorlds
  MaxExpired = 1
  MaxRequests = 3
SYMMETRY MCSymmetry
CHECK_DEADLOCK FALSE
INVARIANTS
  TypeOK
  GhostsAwaitAnswer
  ConfirmedMeansProven
  OneTimeMeansOnce
PROPERTIES
  LoggedOutStaysOut
