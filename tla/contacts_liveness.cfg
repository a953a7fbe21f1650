SPECIFICATION FairSpec
CONSTANTS
  Request = {r1, r2}
  NoRequest = NoRequest
  Absent = Absent
  User = {ann, bob}
  Admin = {}
  NoUser = NoUser
  InviteId = {i1, i2}
  ContactId = {c1, c2}
  BlockId = {}
  Key <- MCKey
  Offered = {"createInvite", "acceptInvite"}
PROPERTIES
  RequestsEnd
