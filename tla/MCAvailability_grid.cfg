\* A sub-court on a morning, one request at a time, two bookings, a closure, a failure.
CONSTANTS
  r1 = r1
  a = a
  b = b
  Time <- Morning
  Booking = {a, b}
  Request = {r1}
  Hours <- MorningHours
  RuleLists <- PriceLists
  Days <- TwoDays
  Groups <- Requests
  Closures <- OneClosure
  MaxFaults = 1
SPECIFICATION Spec
SYMMETRY BookingSymmetry
INVARIANTS TypeOK IInv OfferedIffBookable PriceAsShown GridTilesDay
