\* Two rivals for one slot, nothing fails.
CONSTANTS
  r1 = r1
  r2 = r2
  None = None
  Request = {r1, r2}
  Payment = {1, 2}
  Booking <- RivalBookings
  Slot = {"s1"}
  SlotOf <- RivalSlot
  GroupOf <- RivalGroup
  Ops = {"book", "create", "callback", "reconcile"}
  MaxFaults = 0
SPECIFICATION Spec
SYMMETRY RequestSymmetry
INVARIANT NoDoubleBooking
\* With every payment decided and every identifier used the system may rest.
CHECK_DEADLOCK FALSE
