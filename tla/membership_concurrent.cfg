SPECIFICATION Spec
CONSTANTS
  Request = {r1, r2}
  NoRequest = NoRequest
  Absent = Absent
  User = {own, ann}
  Admin = {}
  Owner = own
  NoUser = NoUser
  Permission = {"GRANT_WORKSPACE_PERMISSION", "DELETE_ITEM"}
  PermissionLists <- MCSingle
  Withheld = {"DELETE_ITEM"}
  InviteId = {i1, i2}
  MemberId = {m1, m2}
  Key <- MCKey
  Offered <- AllButReject
SYMMETRY Symmetry
INVARIANTS
  TypeOK
  OneSeatEach
  MembersWereInvited
  WithheldStayWithheld
  HoldersWereMembers
PROPERTIES
  RowsAreHistory
