\* A request to join one match, answered in the other; one call at a time.
CONSTANTS
  None = None
  m1 = m1
  m2 = m2
  h1 = h1
  h2 = h2
  r1 = r1
  r2 = r2
  s1 = s1
  s2 = s2
  u1 = u1
  u2 = u2
  u3 = u3
  Match = {m1, m2}
  User = {u1}
  HostOf <- Hosts
  Request = {r1}
  Server = {s1}
  ServerOf <- OneServer
  Terms <- FreeTerms
  Created <- AllPrivate
  HostSets = {}
  Ops <- JoinAndRespond
  MaxFaults = 0
SPECIFICATION Spec
PROPERTY HostAnswers
\* When everybody has left or the match is over nothing is left to do.
CHECK_DEADLOCK FALSE
