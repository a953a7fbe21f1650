SPECIFICATION Spec
CONSTANTS
  Request = {r1}
  NoRequest = NoRequest
  Absent = Absent
  User = {ann, bob, eve}
  Admin = {}
  NoUser = NoUser
  InviteId = {i1, i2}
  ContactId = {c1, c2, c3, c4}
  BlockId = {b1}
  Key <- MCKey
  Offered <- Everything
SYMMETRY Symmetry
INVARIANTS
  RemovedByEntitled
  NoContactAcrossBlock
  SymmetricContacts
  OneOpenInviteBetween
  ContactsIffAccepted
PROPERTIES
  AnswerIsFinal
  ImplementsGraph
