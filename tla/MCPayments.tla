----------------------------- MODULE MCPayments -----------------------------
(***************************************************************************)
(* Instances of Payments for TLC.  Bookings and slots are strings, payments *)
(* numbers, requests model values.                                         *)
(***************************************************************************)
EXTENDS Payments, TLC

CONSTANTS r1, r2

\* Two customers who want the same slot.
RivalBookings == {"a", "b"}
RivalSlot == [x \in RivalBookings |-> "s1"]
RivalGroup == [x \in RivalBookings |-> {x}]

\* One customer with a group of two bookings.
GroupBookings == {"a1", "a2"}
GroupSlot == [x \in GroupBookings |-> IF x = "a1" THEN "s1" ELSE "s2"]
GroupGroup == [x \in GroupBookings |-> GroupBookings]

\* One booking.
SoleBookings == {"a"}
SoleSlot == [x \in SoleBookings |-> "s1"]
SoleGroup == [x \in SoleBookings |-> {x}]

RequestSymmetry == Permutations(Request)
=============================================================================
