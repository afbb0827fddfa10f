---------------------------- MODULE MCPaymentHub ----------------------------
(***************************************************************************)
(* Instances of PaymentHub for TLC: connections and payments are model     *)
(* values, tickets are numbers.                                            *)
(***************************************************************************)
EXTENDS PaymentHub

CONSTANTS c1, c2, p1, p2, s1, s2

\* Two connections of one instance, or of two.
OneHome == [c \in {c1, c2} |-> s1]
TwoHomes == [c \in {c1, c2} |-> IF c = c1 THEN s1 ELSE s2]

\* Two tickets, both of the first payment.
Tickets == 1 .. 2
TicketPayments == [t \in Tickets |-> p1]
=============================================================================
