\* A group of two bookings, two payments, nothing fails, against PaymentOutcome.
CONSTANTS
  r1 = r1
  r2 = r2
  None = None
  Request = {r1, r2}
  Payment = {1, 2}
  Booking <- GroupBookings
  Slot = {"s1", "s2"}
  SlotOf <- GroupSlot
  GroupOf <- GroupGroup
  Ops = {"book", "create", "callback", "get", "cancel", "reconcile"}
  MaxFaults = 0
SPECIFICATION Spec
SYMMETRY RequestSymmetry
INVARIANTS PayerGetsGroup LocksHaveReason
PROPERTY ImplementsOutcome
\* With every payment decided and every identifier used the system may rest.
CHECK_DEADLOCK FALSE
