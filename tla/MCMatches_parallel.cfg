\* A free match with one slot, public or private, and another whose host answers, three users, two calls at a time, nothing fails.
CONSTANTS
  None = None
  m1 = m1
  m2 = m2
  h1 = h1
  h2 = h2
  r1 = r1
  r2 = r2
  s1 = s1
  s2 = s2
  u1 = u1
  u2 = u2
  u3 = u3
  Match = {m1, m2}
  User = {u1, u2, u3}
  HostOf <- Hosts
  Request = {r1, r2}
  Server = {s1, s2}
  ServerOf <- TwoServers
  Terms <- FreeTerms
  Created <- AllAlike
  HostSets = {}
  Ops <- FirstPlayed
  MaxFaults = 0
SPECIFICATION Spec
SYMMETRY Alike
INVARIANT OverrunIsBounded
\* When everybody has left or the match is over nothing is left to do.
CHECK_DEADLOCK FALSE
