---------------------------- MODULE Availability ----------------------------
(***************************************************************************)
(* The grid of half-hour slots that AvailabilityService shows for one      *)
(* sub-court on one date, and the bookings it accepts and prices.          *)
(*                                                                         *)
(* Times are minutes after midnight: the program compares "HH:MM" strings, *)
(* which order as the minutes do because both parts have two digits.  The  *)
(* price multiplier of a holiday is a percentage.  What follows an INSERT  *)
(* (payment, cancellation) is one step each here and Payments' subject.    *)
(***************************************************************************)
EXTENDS Naturals, Integers, Sequences, FiniteSets, FiniteSetsExt

CONSTANTS
  Time,       \* the times customers and owners name
  Booking,    \* identifiers of bookings
  Request,    \* concurrent CreateBooking calls
  Hours,      \* opening hours of the court, [open, close] records
  RuleLists,  \* sequences of [type, start, end, price] rules
  Days,       \* [type, mult] records
  Groups,     \* the sequences of intervals that customers ask for
  Closures,   \* the intervals for which an owner closes the sub-court
  MaxFaults   \* bound on failed queries

DayType == {"weekday", "weekend", "holiday"}
Rule == [type : DayType, start : Nat, end : Nat, price : Nat]
Interval == [start : Time, end : Time]
Asked == UNION {{g[i] : i \in DOMAIN g} : g \in Groups}

ASSUME AvailabilityAssumption ==
  /\ Time \subseteq Nat
  /\ Hours \subseteq [open : Nat, close : Nat]
  /\ RuleLists \subseteq Seq(Rule)
  /\ Days \subseteq [type : DayType, mult : Nat]
  /\ Groups \subseteq Seq(Interval)
  /\ Closures \subseteq Interval
  /\ MaxFaults \in Nat

VARIABLES
  hours, rules, day, \* the court's opening hours and prices, and the date
  active,            \* sub_courts.is_active
  closures,          \* sub_court_closures of the date
  booking,           \* bookings: [start, end, price, status]
  call,              \* what each request does
  faults

court == <<hours, rules, day, active>>
vars == <<court, closures, booking, call, faults>>

BookingStatus == {"absent", "pending", "confirmed", "cancelled"}
NoRow == [start |-> 0, end |-> 0, price |-> 0, status |-> "absent"]

IdleCall == [pc   |-> "idle",  \* the next query of CreateBooking
             todo |-> <<>>,    \* items of the request that are still to be checked
             done |-> <<>>]    \* items that are checked and priced

Bookings == {b \in Booking : booking[b].status # "absent"}

Init ==
  /\ hours \in Hours /\ rules \in RuleLists /\ day \in Days /\ active \in BOOLEAN
  /\ closures = {}
  /\ booking = [b \in Booking |-> NoRow]
  /\ call = [r \in Request |-> IdleCall]
  /\ faults = 0

-----------------------------------------------------------------------------
(* The grid *)

\* Mutant of Starts: the slot that ends with the interval's end is left out.
StartsBefore(s, e) == {t \in s .. (e - 1) : (t - s) % 30 = 0 /\ t + 30 < e}

\* The half hours of generateTimeSlots and calculateTotalPrice.
Starts(s, e) == {t \in s .. (e - 1) : (t - s) % 30 = 0}

TimeSlots == Starts(hours.open, hours.close)

\* Mutant of TimesOverlap: touching intervals overlap.
TimesTouch(s1, e1, s2, e2) == s1 <= e2 /\ e1 >= s2

TimesOverlap(s1, e1, s2, e2) == s1 < e2 /\ e1 > s2

\* GetBookingsByCourtAndDate returns confirmed bookings only.
Booked(t) ==
  \E b \in Booking :
    /\ booking[b].status = "confirmed"
    /\ TimesOverlap(t, t + 30, booking[b].start, booking[b].end)

Closed(t) == \E c \in closures : TimesOverlap(t, t + 30, c.start, c.end)

IsAvailable(t) == ~Booked(t) /\ ~Closed(t)

\* The first rule of the day's type that holds at t; half the hourly price,
\* rounded down, times the multiplier, rounded half up.  No rule, no price.
PriceForSlot(t, rs, type, mult) ==
  LET fits == {i \in DOMAIN rs : /\ rs[i].type = type
                                 /\ rs[i].start <= t /\ t < rs[i].end}
  IN  IF fits = {} THEN 0
      ELSE (2 * (rs[Min(fits)].price \div 2) * mult + 100) \div 200

PriceOf(S, rs, type, mult) == MapThenSumSet(LAMBDA t : PriceForSlot(t, rs, type, mult), S)

\* Mutant of TotalPrice: the half hour after the end is charged too.
TotalPriceInclusive(s, e, type) == PriceOf(Starts(s, e + 1), rules, type, day.mult)

TotalPrice(s, e, type) == PriceOf(Starts(s, e), rules, type, day.mult)

-----------------------------------------------------------------------------
(* Types *)

\* What a booking may cost, failed queries included.
Charges == {0} \cup {TotalPrice(i.start, i.end, type) : i \in Asked, type \in DayType}

Item == [start : Time, end : Time, price : Charges]
Row == [start : Time \cup {0}, end : Time \cup {0}, price : Charges, status : BookingStatus]
Call == [pc : {"idle", "subCourt", "overlap", "price", "insert"},
         todo : Seq(Asked), done : Seq(Item)]

\* Rows and calls have their types: a booking never gets the status of a
\* payment, and no price is charged that the rules do not make.
TypeOK ==
  /\ hours \in Hours /\ rules \in RuleLists /\ day \in Days /\ active \in BOOLEAN
  /\ closures \subseteq Closures
  /\ booking \in [Booking -> Row]
  /\ call \in [Request -> Call]
  /\ faults \in 0 .. MaxFaults

-----------------------------------------------------------------------------
(* CreateBooking *)

At(r, l) == call[r].pc = l

Becomes(r, c) == call' = [call EXCEPT ![r] = c]

Goto(r, l) == Becomes(r, [call[r] EXCEPT !.pc = l])

Return(r) == Becomes(r, IdleCall)

Fault == faults < MaxFaults /\ faults' = faults + 1

\* "23:59" is the last time a booking may name, an hour its least length.
ValidItem(i) ==
  /\ i.start < 1440 /\ i.end < 1440
  /\ i.end - i.start >= 60 /\ (i.end - i.start) % 30 = 0

CreateBooking(r, items) ==
  /\ At(r, "idle") /\ items # <<>>
  /\ Becomes(r, [pc |-> "subCourt", todo |-> items, done |-> <<>>])
  /\ UNCHANGED <<court, closures, booking, faults>>

\* Mutant of GetSubCourt: the times are not validated.
GetSubCourtOnly(r) ==
  /\ At(r, "subCourt")
  /\ IF active THEN Goto(r, "overlap") ELSE Return(r)
  /\ UNCHANGED <<court, closures, booking, faults>>

GetSubCourt(r) ==
  /\ At(r, "subCourt")
  /\ IF ValidItem(Head(call[r].todo)) /\ active THEN Goto(r, "overlap") ELSE Return(r)
  /\ UNCHANGED <<court, closures, booking, faults>>

\* The query sees confirmed bookings; closures and opening hours are not looked at.
HasOverlappingBooking(s, e) ==
  \E b \in Booking :
    booking[b].status = "confirmed" /\ booking[b].start < e /\ booking[b].end > s

CheckOverlap(r) ==
  /\ At(r, "overlap")
  /\ LET i == Head(call[r].todo)
     IN  IF HasOverlappingBooking(i.start, i.end) THEN Return(r) ELSE Goto(r, "price")
  /\ UNCHANGED <<court, closures, booking, faults>>

\* Errors of the three queries are ignored: a holiday is then taken for another
\* day of the week, and without rules, or with the zero multiplier of a failed
\* query, the item costs nothing.
PriceItem(r) ==
  /\ At(r, "price")
  /\ LET i == Head(call[r].todo)
         priced(p) ==
           Becomes(r, [pc   |-> IF Len(call[r].todo) = 1 THEN "insert" ELSE "subCourt",
                       todo |-> Tail(call[r].todo),
                       done |-> Append(call[r].done,
                                       [start |-> i.start, end |-> i.end, price |-> p])])
     IN  \/ priced(TotalPrice(i.start, i.end, day.type)) /\ UNCHANGED faults
         \/ /\ day.type = "holiday" /\ Fault
            /\ \E type \in DayType \ {"holiday"} : priced(TotalPrice(i.start, i.end, type))
         \/ priced(0) /\ Fault
  /\ UNCHANGED <<court, closures, booking>>

\* All items of the request, in one transaction; rows are made in their order.
InsertBookings(r) ==
  LET n == Len(call[r].done)
  IN  /\ At(r, "insert")
      /\ \E f \in [1 .. n -> Booking] :
           /\ \A i, j \in 1 .. n : f[i] = f[j] => i = j
           /\ \A i \in 1 .. n : booking[f[i]] = NoRow
           /\ booking' = [b \in Booking |->
                            IF \E i \in 1 .. n : f[i] = b
                            THEN LET i == CHOOSE i \in 1 .. n : f[i] = b
                                 IN  [start  |-> call[r].done[i].start,
                                      end    |-> call[r].done[i].end,
                                      price  |-> call[r].done[i].price,
                                      status |-> "pending"]
                            ELSE booking[b]]
      /\ Return(r)
      /\ UNCHANGED <<court, closures, faults>>

\* A query fails that CreateBooking does not ignore.
Fails(r) ==
  /\ call[r].pc \in {"subCourt", "overlap", "insert"}
  /\ Fault
  /\ Return(r)
  /\ UNCHANGED <<court, closures, booking>>

-----------------------------------------------------------------------------
(* What happens to bookings and closures otherwise *)

\* Mutant of ConfirmBooking: the status of the payment is written.
ConfirmAsPaid(b) ==
  /\ booking[b].status # "absent"
  /\ booking' = [booking EXCEPT ![b].status = "success"]
  /\ UNCHANGED <<court, closures, call, faults>>

\* The payment of a booking succeeds; nothing looks at the slot again, or at
\* what the booking has become (confirmBookingPayment).
ConfirmBooking(b) ==
  /\ booking[b].status # "absent"
  /\ booking' = [booking EXCEPT ![b].status = "confirmed"]
  /\ UNCHANGED <<court, closures, call, faults>>

\* A customer cancels, or the payment fails: the status that CancelBooking has
\* read may have changed, and cancelBookingPayment reads none.
CancelBooking(b) ==
  /\ booking[b].status # "absent"
  /\ booking' = [booking EXCEPT ![b].status = "cancelled"]
  /\ UNCHANGED <<court, closures, call, faults>>

\* The owner closes the sub-court for a while, with or without bookings.
CloseSubCourt(c) ==
  /\ closures' = closures \cup {c}
  /\ UNCHANGED <<court, booking, call, faults>>

OpenSubCourt ==
  /\ closures' = {}
  /\ UNCHANGED <<court, booking, call, faults>>

Next ==
  \/ \E r \in Request :
       \/ \E g \in Groups : CreateBooking(r, g)
       \/ GetSubCourt(r) \/ CheckOverlap(r) \/ PriceItem(r) \/ InsertBookings(r) \/ Fails(r)
  \/ \E b \in Booking : ConfirmBooking(b) \/ CancelBooking(b)
  \/ \E c \in Closures : CloseSubCourt(c)
  \/ OpenSubCourt

Spec == Init /\ [][Next]_vars

-----------------------------------------------------------------------------
(* Properties *)

\* A range on the grid, as a customer picks it from consecutive slots.
OnGrid(s, e) == s \in TimeSlots /\ s < e /\ (e - s) % 30 = 0

\* The grid and the booking agree on what is taken: apart from closures, a
\* range shows an unavailable slot exactly when HasOverlappingBooking would
\* refuse it, so a customer is neither lured nor kept away.
OfferedIffBookable ==
  \A s, e \in Time :
    OnGrid(s, e) /\ (\A t \in Starts(s, e) : ~Closed(t)) =>
      ((\A t \in Starts(s, e) : IsAvailable(t)) <=> ~HasOverlappingBooking(s, e))

\* A booking picked from the grid costs what its slots cost in the grid,
\* unless a query failed while it was priced.
PriceAsShown ==
  \A b \in Bookings :
    LET s == booking[b].start
        e == booking[b].end
        shown == {t \in TimeSlots : s <= t /\ t < e}
    IN  OnGrid(s, e) /\ e <= hours.close /\ faults = 0
          => booking[b].price = PriceOf(shown, rules, day.type, day.mult)

\* Every minute of the opening hours is in exactly one slot.
GridTilesDay ==
  \A t \in Time :
    hours.open <= t /\ t < hours.close =>
      \E u \in TimeSlots :
        /\ u <= t /\ t < u + 30
        /\ \A v \in TimeSlots : v <= t /\ t < v + 30 => v = u

-----------------------------------------------------------------------------
(* The inductive invariant *)

\* A checked and priced item, in a call or in the table.
Sound(i) ==
  /\ ValidItem(i)
  /\ faults = 0 => i.price = TotalPrice(i.start, i.end, day.type)

ItemsOK ==
  \A r \in Request :
    /\ call[r].pc \in {"subCourt", "overlap", "price"} => call[r].todo # <<>>
    /\ call[r].pc \in {"overlap", "price"} => ValidItem(Head(call[r].todo))
    /\ \A i \in DOMAIN call[r].done : Sound(call[r].done[i])

\* No booking is shorter than an hour or off by less than half an hour, and
\* every one has its price, however many items its request had.
RowsOK == \A b \in Bookings : Sound(booking[b])

\* In every state that customers, owners and failures can lead to.
IInv == TypeOK /\ ItemsOK /\ RowsOK
=============================================================================
