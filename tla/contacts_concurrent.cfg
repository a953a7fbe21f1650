SPECIFICATION Spec
CONSTANTS
  Request = {r1, r2}
  NoRequest = NoRequest
  Absent = Absent
  User = {ann, bob}
  Admin = {}
  NoUser = NoUser
  InviteId = {i1}
  ContactId = {c1, c2}
  BlockId = {b1, b2}
  Key <- MCKey
  Offered <- Everything
SYMMETRY Symmetry
INVARIANTS
  TypeOK
  UniqueRows
  ContactsComeInPairs
  ContactsFromAnsweredInvites
  NoSelfContact
PROPERTIES
  RowsAreHistory
