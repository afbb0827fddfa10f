\* One instance, a client that stays and one that may go, two tickets, failures, fair.
CONSTANTS
  None = None
  c1 = c1
  c2 = c2
  p1 = p1
  p2 = p2
  s1 = s1
  s2 = s2
  Conn = {c1, c2}
  Payment = {p1, p2}
  Server = {s1}
  HomeOf <- OneHome
  Ticket <- Tickets
  PaymentOf <- TicketPayments
  Patient = {c1}
  Failures = TRUE
SPECIFICATION FairSpec
INVARIANTS TypeOK HubInv RegistryConsistent AdmittedByTicket
PROPERTIES LastWord SubscriberHears
\* When every connection is gone nothing is left to do.
CHECK_DEADLOCK FALSE
