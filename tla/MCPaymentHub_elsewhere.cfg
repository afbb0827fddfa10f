\* Two instances: the payment is decided on the other one.
CONSTANTS
  None = None
  c1 = c1
  c2 = c2
  p1 = p1
  p2 = p2
  s1 = s1
  s2 = s2
  Conn = {c1, c2}
  Payment = {p1}
  Server = {s1, s2}
  HomeOf <- TwoHomes
  Ticket <- Tickets
  PaymentOf <- TicketPayments
  Patient = {c1}
  Failures = FALSE
SPECIFICATION FairSpec
PROPERTY SubscriberHears
CHECK_DEADLOCK FALSE
