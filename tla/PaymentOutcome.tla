--------------------------- MODULE PaymentOutcome ---------------------------
(***************************************************************************)
(* What the settlement of payments promises, with no requests, round trips *)
(* or locks in it: the fate of a payment is decided once; whoever decides  *)
(* it, and nobody else, carries it over to the bookings, once and in the   *)
(* direction that was decided; and a booking is confirmed in no other way. *)
(***************************************************************************)
CONSTANTS Payment, Booking, Request

VARIABLES
  outcome,   \* the status of each payment
  applying,  \* the requests that carry a payment's outcome over, and which
  booked     \* the status of each booking

vars == <<outcome, applying, booked>>

Terminal == {"success", "failed", "expired"}

Init ==
  /\ outcome = [p \in Payment |-> "absent"]
  /\ applying = [p \in Payment |-> {}]
  /\ booked = [b \in Booking |-> "absent"]

Offer(p) ==
  /\ outcome[p] = "absent"
  /\ outcome' = [outcome EXCEPT ![p] = "pending"]
  /\ UNCHANGED <<applying, booked>>

Settle(r, p, o) ==
  /\ outcome[p] = "pending"
  /\ outcome' = [outcome EXCEPT ![p] = o]
  /\ applying' = [applying EXCEPT ![p] = {<<r, o>>}]
  /\ UNCHANGED booked

\* A payment nobody could be told about never reaches its booking.
Void(p) ==
  /\ outcome[p] = "pending"
  /\ outcome' = [outcome EXCEPT ![p] = "failed"]
  /\ UNCHANGED <<applying, booked>>

Apply(r, p, o, b) ==
  /\ applying[p] = {<<r, o>>} /\ outcome[p] = o
  /\ booked' = [booked EXCEPT ![b] = IF o = "success" THEN "confirmed" ELSE "cancelled"]
  /\ UNCHANGED <<outcome, applying>>

Finish(p) ==
  /\ outcome[p] \in Terminal
  /\ applying' = [applying EXCEPT ![p] = {}]
  /\ UNCHANGED <<outcome, booked>>

\* A booking is made, cancelled by its user or by the clock, or played.
Change(S, s) ==
  /\ s \in {"pending", "cancelled", "completed"}
  /\ \A b \in S : /\ s = "pending" => booked[b] = "absent"
                  /\ s = "completed" => booked[b] = "confirmed"
  /\ booked' = [b \in Booking |-> IF b \in S THEN s ELSE booked[b]]
  /\ UNCHANGED <<outcome, applying>>

Next ==
  \/ \E p \in Payment : Offer(p) \/ Void(p) \/ Finish(p)
  \/ \E r \in Request, p \in Payment, o \in Terminal :
       \/ Settle(r, p, o)
       \/ \E b \in Booking : Apply(r, p, o, b)
  \/ \E S \in SUBSET Booking, s \in {"pending", "cancelled", "completed"} : Change(S, s)

Spec == Init /\ [][Next]_vars
=============================================================================
