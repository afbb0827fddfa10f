\* One booking, two payments, one failure, under fairness.
CONSTANTS
  r1 = r1
  r2 = r2
  None = None
  Request = {r1, r2}
  Payment = {1, 2}
  Booking <- SoleBookings
  Slot = {"s1"}
  SlotOf <- SoleSlot
  GroupOf <- SoleGroup
  Ops = {"book", "userCancel", "create", "callback", "reconcile"}
  MaxFaults = 1
SPECIFICATION FairSpec
INVARIANTS TypeOK IInv OneWinner SuccessWasPaid ConfirmedIsPaid
PROPERTIES ImplementsOutcome PaymentsAreDecided BookingsAreDecided
\* With every payment decided and every identifier used the system may rest.
CHECK_DEADLOCK FALSE
