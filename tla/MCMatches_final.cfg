\* A match, public or private with a price as its host likes, and a free one whose host answers, one player, two calls at a time, a failure.
CONSTANTS
  None = None
  m1 = m1
  m2 = m2
  h1 = h1
  h2 = h2
  r1 = r1
  r2 = r2
  s1 = s1
  s2 = s2
  u1 = u1
  u2 = u2
  u3 = u3
  Match = {m1, m2}
  User = {u1}
  HostOf <- Hosts
  Request = {r1, r2}
  Server = {s1, s2}
  ServerOf <- TwoServers
  Terms <- PublicOrPriced
  Created <- AllPublic
  HostSets = {"OPEN"}
  Ops <- FirstLeft
  MaxFaults = 1
SPECIFICATION FairSpec
INVARIANT TypeOK
PROPERTIES RefusalIsFinal LocksLapse
\* When everybody has left or the match is over nothing is left to do.
CHECK_DEADLOCK FALSE
