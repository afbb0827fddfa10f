\* Two courts, one of which changes once; two rebuilds, a failed command; one suggestion at most.
CONSTANTS
  None = None
  plain = plain
  piped = piped
  short = short
  w1 = w1
  w2 = w2
  Court = {c1, c2}
  Name = {plain, short}
  District = {piped}
  Word = {w1, w2}
  Starts <- Begins
  Inside <- Has
  Short = {short}
  Piped = {piped}
  Limit = 1
  Admin = {i1, i2}
  Client = {r1}
  MaxFaults = 1
  MaxChanges = 1
SPECIFICATION Spec
SYMMETRY AnySymmetry
INVARIANTS TypeOK IndexIsExact SuggestionsAreNamed SuggestedIsFound
PROPERTY SuggestionsMatch
