SPECIFICATION Spec
CONSTANTS
  Request = {r1, r2}
  NoRequest = NoRequest
  Absent = Absent
  User = {ann, bob}
  Admin = {}
  NoUser = NoUser
  InviteId = {i1}
  ContactId = {c1, c2}
  BlockId = {b1}
  Key <- MCKey
  Offered = {"createInvite", "acceptInvite", "blockUser"}
SYMMETRY Symmetry
INVARIANTS
  NoContactAcrossBlock
