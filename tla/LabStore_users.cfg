SPECIFICATION Spec
CONSTANTS
  u1 = u1
  u2 = u2
  s1 = s1
  s2 = s2
  e1 = e1
  r1 = r1
  r2 = r2
  a1 = a1
  a2 = a2
  Access = Access
  NoRow = NoRow
  Users = {u1, u2}
  Subjects = {s1, s2}
  Emails = {e1}
  EmailsOf <- OneEmail
  BootstrapEmail = e1
  Accounts <- SharedNode
  Requests = {r1, r2}
  MaxMade = 2
SYMMETRY Symmetry
INVARIANTS
  TypeOK
  OneOwner
  InactiveHoldOnlyLate
PROPERTIES
  AdminRemains
  IdentityKeepsUser
  HistoryIsFinal
