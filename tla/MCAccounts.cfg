\* Two accounts, two identities, two calls, three photos, a failure.
CONSTANTS
  None = None
  g1 = g1
  g2 = g2
  e1 = e1
  Id = {1, 2}
  Uid = {g1, g2}
  EmailOf <- OneEmail
  Key = {k1, k2, k3}
  Booking = {b1}
  Request = {r1, r2}
  Ops <- ByAccount
  MaxFaults = 1
SPECIFICATION Spec
SYMMETRY KeySymmetry
INVARIANTS TypeOK PhotoNotLost ConversionsAreBounded
PROPERTY BookingsStay
\* When both accounts are deleted nobody can sign in any more.
CHECK_DEADLOCK FALSE
