SPECIFICATION Spec
CONSTANTS
  Request = {r1}
  NoRequest = NoRequest
  Absent = Absent
  User = {own, ann, bob}
  Admin = {own}
  Owner = own
  NoUser = NoUser
  Permission = {"GRANT_WORKSPACE_PERMISSION"}
  PermissionLists <- MCLists
  Withheld = {}
  InviteId = {i1, i2}
  MemberId = {m1, m2}
  Key <- MCKey
  Offered <- AllButCancel
SYMMETRY Symmetry
INVARIANTS
  MembersIffAccepted
PROPERTIES
  AnswerIsFinal
  RemovalRevokes
  ImplementsRoster
