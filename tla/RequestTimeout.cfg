\* Two writes, three round trips, a websocket or not.
CONSTANTS
  MaxChunks = 2
  MaxTrips = 3
SPECIFICATION FairSpec
INVARIANTS TypeOK WholeAnswer LittleIsLate Accountable
PROPERTY AlwaysAnswered
\* A handler that has ended and a request that is over leave nothing to do.
CHECK_DEADLOCK FALSE
