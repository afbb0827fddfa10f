------------------------- MODULE AvailabilityProofs -------------------------
(***************************************************************************)
(* Proofs about Availability, for any opening hours, prices, closures and  *)
(* bookings, at minute precision.                                          *)
(***************************************************************************)
EXTENDS Availability, SequenceTheorems, TLAPS

-----------------------------------------------------------------------------
(* Lemmas about the half-hour raster *)

\* Every minute from s on lies in a half hour counted from s.
LEMMA HalfHourOf ==
  ASSUME NEW s \in Nat, NEW x \in Nat, s <= x
  PROVE  \E t \in Nat : s <= t /\ t <= x /\ x < t + 30 /\ (t - s) % 30 = 0
<1> DEFINE k == (x - s) \div 30
<1>1. k \in Nat /\ 30 * k <= x - s /\ x - s < 30 * k + 30
  BY SMT
<1>2. (s + 30 * k) - s = 30 * k /\ (30 * k) % 30 = 0
  BY <1>1, SMT
<1> WITNESS s + 30 * k \in Nat
<1> QED BY <1>1, <1>2, SMT

\* Rasters that share a point are the same.
LEMMA SameRaster ==
  ASSUME NEW o \in Nat, NEW s \in Nat, NEW t \in Nat, (s - o) % 30 = 0
  PROVE  (t - o) % 30 = 0 <=> (t - s) % 30 = 0
BY SMT

\* Two points of a raster that lie in one half hour are the same.
LEMMA RasterIsApart ==
  ASSUME NEW s \in Nat, NEW t \in Nat, NEW u \in Nat,
         (t - s) % 30 = 0, (u - s) % 30 = 0, t < u + 30, u < t + 30
  PROVE  t = u
BY SMT

\* The last half hour of a range on the raster ends with the range.
LEMMA RasterEnds ==
  ASSUME NEW s \in Nat, NEW e \in Nat, NEW t \in Nat,
         (e - s) % 30 = 0, (t - s) % 30 = 0, t < e
  PROVE  t + 30 <= e
BY SMT
-----------------------------------------------------------------------------
(* The invariant *)

LEMMA InitInv == Init => IInv
<1> SUFFICES ASSUME Init PROVE IInv
  OBVIOUS
<1>1. NoRow \in Row /\ IdleCall \in Call
  BY EmptySeq DEF NoRow, Row, Charges, BookingStatus, IdleCall, Call
<1>2. TypeOK
  BY <1>1, AvailabilityAssumption DEF Init, TypeOK
<1>3. ItemsOK
  BY DEF Init, ItemsOK, IdleCall
<1>4. RowsOK
  BY DEF Init, RowsOK, Bookings, NoRow
<1> QED BY <1>2, <1>3, <1>4 DEF IInv

\* Prices do not change, nor does what they are made of.
LEMMA SamePrices ==
  ASSUME UNCHANGED court
  PROVE  /\ \A s, e, type : TotalPrice(s, e, type)' = TotalPrice(s, e, type)
         /\ Charges' = Charges /\ Item' = Item /\ Row' = Row /\ Call' = Call
         /\ UNCHANGED <<hours, rules, day, active>>
<1>1. UNCHANGED <<hours, rules, day, active>>
  BY DEF court
<1>2. \A s, e, type : TotalPrice(s, e, type)' = TotalPrice(s, e, type)
  BY <1>1 DEF TotalPrice
<1>3. Charges' = Charges
  BY <1>2 DEF Charges
<1> QED BY <1>1, <1>2, <1>3 DEF Item, Row, Call

\* Soundness after a step that leaves the court alone.
SoundLater(i) ==
  /\ ValidItem(i)
  /\ faults' = 0 => i.price = TotalPrice(i.start, i.end, day.type)

\* Items stay sound: failures are not taken back.
LEMMA StaySound ==
  ASSUME TypeOK, faults' \in {faults, faults + 1}, NEW i, Sound(i)
  PROVE  SoundLater(i)
<1>1. faults \in Nat /\ (faults' = 0 => faults = 0)
  BY AvailabilityAssumption DEF TypeOK
<1> QED BY <1>1 DEF Sound, SoundLater

LEMMA RowsLater ==
  ASSUME UNCHANGED court,
         \A b \in Booking : booking'[b].status # "absent" => SoundLater(booking'[b])
  PROVE  RowsOK'
BY SamePrices DEF RowsOK, Bookings, Sound, SoundLater, ValidItem

LEMMA ItemsLater ==
  ASSUME UNCHANGED court,
         \A r \in Request :
           /\ call'[r].pc \in {"subCourt", "overlap", "price"} => call'[r].todo # <<>>
           /\ call'[r].pc \in {"overlap", "price"} => ValidItem(Head(call'[r].todo))
           /\ \A i \in DOMAIN call'[r].done : SoundLater(call'[r].done[i])
  PROVE  ItemsOK'
BY SamePrices DEF ItemsOK, Sound, SoundLater, ValidItem

\* A step of one call keeps the invariant if it keeps it for this call.
LEMMA OneCall ==
  ASSUME IInv, UNCHANGED <<court, closures, booking>>,
         faults' \in {faults, faults + 1}, faults' \in 0 .. MaxFaults,
         NEW r \in Request, NEW k \in Call, Becomes(r, k),
         k.pc \in {"subCourt", "overlap", "price"} => k.todo # <<>>,
         k.pc \in {"overlap", "price"} => ValidItem(Head(k.todo)),
         \A i \in DOMAIN k.done : SoundLater(k.done[i])
  PROVE  IInv'
<1> USE DEF IInv
<1>1. UNCHANGED court /\ UNCHANGED closures /\ UNCHANGED booking
  OBVIOUS
<1>2. call'[r] = k /\ \A q \in Request \ {r} : call'[q] = call[q]
  BY DEF Becomes, TypeOK
<1>3. TypeOK'
  <2>1. /\ hours' \in Hours /\ rules' \in RuleLists /\ day' \in Days /\ active' \in BOOLEAN
        /\ closures' \subseteq Closures
    BY <1>1 DEF TypeOK, court
  <2>2. booking' \in [Booking -> Row]' /\ call' \in [Request -> Call]'
    BY <1>1, SamePrices DEF TypeOK, Becomes
  <2> QED BY <2>1, <2>2 DEF TypeOK
<1>4. ItemsOK'
  <2>1. ASSUME NEW q \in Request \ {r}
        PROVE  /\ call'[q].pc \in {"subCourt", "overlap", "price"} => call'[q].todo # <<>>
               /\ call'[q].pc \in {"overlap", "price"} => ValidItem(Head(call'[q].todo))
               /\ \A i \in DOMAIN call'[q].done : SoundLater(call'[q].done[i])
    BY <1>2, StaySound DEF ItemsOK
  <2> QED BY <1>1, <1>2, <2>1, ItemsLater
<1>5. RowsOK'
  BY <1>1, StaySound, RowsLater DEF RowsOK, Bookings
<1> QED BY <1>3, <1>4, <1>5

LEMMA CallType ==
  ASSUME IInv, NEW r \in Request
  PROVE  /\ call[r] \in Call
         /\ call[r].todo \in Seq(Asked) /\ call[r].done \in Seq(Item)
         /\ faults \in 0 .. MaxFaults
BY DEF IInv, TypeOK, Call

LEMMA ReturnOK ==
  ASSUME IInv, UNCHANGED <<court, closures, booking>>,
         faults' \in {faults, faults + 1}, faults' \in 0 .. MaxFaults,
         NEW r \in Request, Return(r)
  PROVE  IInv'
<1>1. IdleCall \in Call
  BY EmptySeq DEF IdleCall, Call
<1> QED BY <1>1, OneCall DEF Return, IdleCall

LEMMA GotoOK ==
  ASSUME IInv, UNCHANGED <<court, closures, booking, faults>>,
         NEW r \in Request, NEW l \in {"overlap", "price"}, Goto(r, l),
         call[r].todo # <<>>, ValidItem(Head(call[r].todo))
  PROVE  IInv'
<1> DEFINE k == [call[r] EXCEPT !.pc = l]
<1>1. k \in Call /\ k.pc = l /\ k.todo = call[r].todo /\ k.done = call[r].done
  BY CallType DEF Call
<1>2. \A i \in DOMAIN k.done : SoundLater(k.done[i])
  BY <1>1, StaySound DEF IInv, ItemsOK
<1>3. Becomes(r, k) /\ faults' \in 0 .. MaxFaults
  BY CallType DEF Goto
<1> HIDE DEF k
<1> QED BY <1>1, <1>2, <1>3, OneCall

LEMMA CreateOK ==
  ASSUME IInv, NEW r \in Request, NEW g \in Groups, CreateBooking(r, g)
  PROVE  IInv'
<1> DEFINE k == [pc |-> "subCourt", todo |-> g, done |-> <<>>]
<1>1. g \in Seq(Asked)
  <2>1. g \in Seq(Interval) /\ \A i \in 1 .. Len(g) : g[i] \in Asked
    BY AvailabilityAssumption, LenProperties DEF Asked
  <2> QED BY <2>1, LenProperties, SeqDef
<1>2. k \in Call
  BY <1>1, EmptySeq DEF Call
<1>3. Becomes(r, k) /\ g # <<>> /\ faults' = faults /\ faults' \in 0 .. MaxFaults
  BY CallType DEF CreateBooking
<1>4. UNCHANGED <<court, closures, booking>>
  BY DEF CreateBooking
<1> QED BY <1>2, <1>3, <1>4, OneCall

LEMMA GetSubCourtOK ==
  ASSUME IInv, NEW r \in Request, GetSubCourt(r)
  PROVE  IInv'
<1>1. /\ UNCHANGED <<court, closures, booking>> /\ faults' = faults
      /\ faults' \in 0 .. MaxFaults
  BY CallType DEF GetSubCourt
<1>2. call[r].todo # <<>>
  BY DEF GetSubCourt, At, IInv, ItemsOK
<1> QED BY <1>1, <1>2, GotoOK, ReturnOK DEF GetSubCourt

LEMMA CheckOverlapOK ==
  ASSUME IInv, NEW r \in Request, CheckOverlap(r)
  PROVE  IInv'
<1>1. /\ UNCHANGED <<court, closures, booking>> /\ faults' = faults
      /\ faults' \in 0 .. MaxFaults
  BY CallType DEF CheckOverlap
<1>2. call[r].todo # <<>> /\ ValidItem(Head(call[r].todo))
  BY DEF CheckOverlap, At, IInv, ItemsOK
<1> QED BY <1>1, <1>2, GotoOK, ReturnOK DEF CheckOverlap

\* What a price comes to, and 0.
LEMMA IsCharge ==
  /\ 0 \in Charges
  /\ \A i \in Asked, type \in DayType : TotalPrice(i.start, i.end, type) \in Charges
<1>1. 0 \in Charges
  BY DEF Charges
<1>2. ASSUME NEW i \in Asked, NEW type \in DayType
      PROVE  TotalPrice(i.start, i.end, type) \in Charges
  BY DEF Charges
<1> QED
  BY <1>1, <1>2

LEMMA PriceItemOK ==
  ASSUME IInv, NEW r \in Request, PriceItem(r)
  PROVE  IInv'
<1> DEFINE i == Head(call[r].todo)
           item(p) == [start |-> i.start, end |-> i.end, price |-> p]
           k(p) == [pc   |-> IF Len(call[r].todo) = 1 THEN "insert" ELSE "subCourt",
                    todo |-> Tail(call[r].todo),
                    done |-> Append(call[r].done, item(p))]
           right == TotalPrice(i.start, i.end, day.type)
<1>1. call[r].todo \in Seq(Asked) /\ call[r].todo # <<>> /\ ValidItem(i)
  BY CallType DEF PriceItem, At, IInv, ItemsOK
<1>2. /\ i \in Asked /\ Tail(call[r].todo) \in Seq(Asked)
      /\ Len(call[r].todo) # 1 => Tail(call[r].todo) # <<>>
  <2> DEFINE t == call[r].todo
  <2>1. t \in Seq(Asked) /\ t # <<>>
    BY <1>1
  <2> HIDE DEF t
  <2>2. Head(t) \in Asked /\ Tail(t) \in Seq(Asked)
    BY <2>1, HeadTailProperties
  <2>3. Len(t) # 1 => Tail(t) # <<>>
    <3>1. Len(Tail(t)) = Len(t) - 1 /\ Len(t) \in Nat
      BY <2>1, HeadTailProperties, LenProperties
    <3>2. Len(<<>>) = 0
      BY EmptySeq
    <3>3. Tail(t) = <<>> => Len(Tail(t)) = Len(<<>>)
      BY Zenon
    <3> DEFINE n == Len(Tail(t))
               m == Len(t)
               z == Len(<<>>)
    <3>4. n = m - 1 /\ m \in Nat /\ z = 0 /\ (Tail(t) = <<>> => n = z)
      BY <3>1, <3>2, <3>3, Zenon
    <3> HIDE DEF n, m, z
    <3>5. m # 1 => Tail(t) # <<>>
      BY <3>4
    <3> QED BY <3>5 DEF m
  <2> QED BY <2>2, <2>3 DEF t
<1>3. i.start \in Time /\ i.end \in Time
  <2>1. PICK g \in Groups : \E m \in DOMAIN g : i = g[m]
    BY <1>2 DEF Asked
  <2>2. g \in Seq(Interval)
    BY <2>1, AvailabilityAssumption
  <2>3. i \in Interval
    BY <2>1, <2>2, ElementOfSeq, LenProperties
  <2> QED BY <2>3 DEF Interval
<1>4. PICK p \in Charges :
        /\ Becomes(r, k(p))
        /\ faults' \in {faults, faults + 1} /\ faults' \in 0 .. MaxFaults
        /\ faults' = 0 => p = right
  <2>1. right \in Charges /\ 0 \in Charges
        /\ \A type \in DayType : TotalPrice(i.start, i.end, type) \in Charges
    <3> HIDE DEF right
    <3> HIDE DEF i
    <3>1. \A type \in DayType : TotalPrice(i.start, i.end, type) \in Charges
      BY <1>2, IsCharge
    <3>2. day.type \in DayType
      BY AvailabilityAssumption DEF IInv, TypeOK
    <3> QED
      BY <3>1, <3>2, IsCharge, Zenon DEF right
  <2>2. faults \in 0 .. MaxFaults /\ MaxFaults \in Nat
    <3>1. faults \in 0 .. MaxFaults
      BY CallType
    <3>2. MaxFaults \in Nat
      BY AvailabilityAssumption
    <3> QED
      BY <3>1, <3>2
  <2> HIDE DEF right, k
  <2>3. CASE Becomes(r, k(right)) /\ UNCHANGED faults
    BY <2>1, <2>2, <2>3
  <2>4. CASE \E type \in DayType : Becomes(r, k(TotalPrice(i.start, i.end, type))) /\ Fault
    BY <2>1, <2>2, <2>4 DEF Fault
  <2>5. CASE Becomes(r, k(0)) /\ Fault
    BY <2>1, <2>2, <2>5 DEF Fault
  <2> QED BY <2>3, <2>4, <2>5 DEF PriceItem, right, k
<1>5. item(p) \in Item
  BY <1>3 DEF Item
<1>6. k(p) \in Call
  <2>1. Append(call[r].done, item(p)) \in Seq(Item)
    BY <1>5, CallType, AppendProperties
  <2> QED BY <1>2, <2>1 DEF Call
<1>7. ASSUME NEW j \in DOMAIN k(p).done PROVE SoundLater(k(p).done[j])
  <2>1. call[r].done \in Seq(Item)
    BY CallType
  <2>2. CASE j \in DOMAIN call[r].done
    <3>1. k(p).done[j] = call[r].done[j] /\ Sound(call[r].done[j])
      BY <1>5, <2>1, <2>2, AppendProperties, LenProperties DEF IInv, ItemsOK
    <3> QED BY <1>4, <3>1, StaySound DEF IInv
  <2>3. CASE j \notin DOMAIN call[r].done
    <3>1. k(p).done[j] = item(p)
      BY <1>5, <2>1, <2>3, AppendProperties, LenProperties
    <3>2. item(p).start = i.start /\ item(p).end = i.end /\ item(p).price = p
      OBVIOUS
    <3>3. SoundLater(item(p))
      BY <1>1, <1>4, <3>2 DEF SoundLater, ValidItem
    <3> QED BY <3>1, <3>3
  <2> QED BY <2>2, <2>3
<1>8. UNCHANGED <<court, closures, booking>>
  BY DEF PriceItem
<1>9. k(p).pc \in {"subCourt", "insert"} /\ (k(p).pc = "subCourt" => k(p).todo # <<>>)
  BY <1>2
<1> HIDE DEF k
<1> QED BY <1>4, <1>6, <1>7, <1>8, <1>9, OneCall

LEMMA FailsOK ==
  ASSUME IInv, NEW r \in Request, Fails(r)
  PROVE  IInv'
<1>1. faults' \in {faults, faults + 1} /\ faults' \in 0 .. MaxFaults
  BY CallType, AvailabilityAssumption DEF Fails, Fault
<1> QED BY <1>1, ReturnOK DEF Fails

\* A step that changes the table of bookings only, into sound rows.
LEMMA NewRows ==
  ASSUME IInv, UNCHANGED <<court, closures, faults>>,
         booking' \in [Booking -> Row],
         call' \in [Request -> Call],
         \A r \in Request : call'[r] \in {call[r], IdleCall},
         \A b \in Booking : booking'[b].status # "absent" => SoundLater(booking'[b])
  PROVE  IInv'
<1> USE DEF IInv
<1>1. UNCHANGED court /\ UNCHANGED closures /\ UNCHANGED faults
  OBVIOUS
<1>2. TypeOK'
  <2>1. /\ hours' \in Hours /\ rules' \in RuleLists /\ day' \in Days /\ active' \in BOOLEAN
        /\ closures' \subseteq Closures /\ faults' \in 0 .. MaxFaults
    BY <1>1 DEF TypeOK, court
  <2>2. booking' \in [Booking -> Row]' /\ call' \in [Request -> Call]'
    BY <1>1, SamePrices
  <2> QED BY <2>1, <2>2 DEF TypeOK
<1>3. ItemsOK'
  <2>1. \A r \in Request : \A i \in DOMAIN call[r].done : SoundLater(call[r].done[i])
    BY <1>1, StaySound DEF ItemsOK
  <2>2. \A r \in Request :
           /\ call'[r].pc \in {"subCourt", "overlap", "price"} => call'[r].todo # <<>>
           /\ call'[r].pc \in {"overlap", "price"} => ValidItem(Head(call'[r].todo))
           /\ \A i \in DOMAIN call'[r].done : SoundLater(call'[r].done[i])
    BY <2>1 DEF ItemsOK, IdleCall
  <2> QED BY <1>1, <2>2, ItemsLater
<1>4. RowsOK'
  BY <1>1, RowsLater
<1> QED BY <1>2, <1>3, <1>4

LEMMA InsertOK ==
  ASSUME IInv, NEW r \in Request, InsertBookings(r)
  PROVE  IInv'
<1> DEFINE d == call[r].done
           row(i) == [start |-> d[i].start, end |-> d[i].end,
                      price |-> d[i].price, status |-> "pending"]
<1>1. d \in Seq(Item) /\ \A i \in 1 .. Len(d) : d[i] \in Item /\ SoundLater(d[i])
  <2>1. call[r].done \in Seq(Item) /\ faults' = faults
    BY CallType DEF InsertBookings
  <2>2. \A i \in 1 .. Len(d) : d[i] \in Item /\ i \in DOMAIN d
    BY <2>1, ElementOfSeq, LenProperties
  <2>3. \A i \in 1 .. Len(d) : SoundLater(d[i])
    BY <2>1, <2>2, StaySound DEF IInv, ItemsOK
  <2> QED BY <2>1, <2>2, <2>3
<1>2. \A i \in 1 .. Len(d) : row(i) \in Row /\ SoundLater(row(i))
  <2> TAKE i \in 1 .. Len(d)
  <2>1. d[i].start \in Time /\ d[i].end \in Time /\ d[i].price \in Charges
    BY <1>1 DEF Item
  <2>2. row(i) \in Row
    BY <2>1 DEF Row, BookingStatus
  <2>3. row(i).start = d[i].start /\ row(i).end = d[i].end /\ row(i).price = d[i].price
    OBVIOUS
  <2>4. SoundLater(row(i))
    BY <1>1, <2>3 DEF SoundLater, ValidItem
  <2> QED BY <2>2, <2>4
<1>3. PICK f \in [1 .. Len(d) -> Booking] :
        booking' = [b \in Booking |->
                      IF \E i \in 1 .. Len(d) : f[i] = b
                      THEN row(CHOOSE i \in 1 .. Len(d) : f[i] = b)
                      ELSE booking[b]]
  BY DEF InsertBookings
<1>4. ASSUME NEW b \in Booking
      PROVE  /\ booking'[b] \in Row
             /\ booking'[b].status # "absent" => SoundLater(booking'[b])
  <2> HIDE DEF d, row
  <2>1. CASE \E i \in 1 .. Len(d) : f[i] = b
    <3>1. PICK i \in 1 .. Len(d) : i = CHOOSE m \in 1 .. Len(d) : f[m] = b
      BY <2>1
    <3>2. booking'[b] = row(i)
      BY <1>3, <2>1, <3>1
    <3> QED BY <1>2, <3>2
  <2>2. CASE ~ \E i \in 1 .. Len(d) : f[i] = b
    <3>1. booking'[b] = booking[b] /\ booking[b] \in Row
      BY <1>3, <2>2 DEF IInv, TypeOK
    <3>2. booking[b].status # "absent" => Sound(booking[b])
      BY DEF IInv, RowsOK, Bookings
    <3>3. faults' = faults /\ TypeOK
      BY DEF InsertBookings, IInv
    <3> QED BY <3>1, <3>2, <3>3, StaySound
  <2> QED BY <2>1, <2>2
<1>5. booking' \in [Booking -> Row]
  <2> HIDE DEF d, row
  <2> QED BY <1>3, <1>4
<1>6. UNCHANGED <<court, closures, faults>> /\ Return(r)
  BY DEF InsertBookings
<1>7. IdleCall \in Call
  BY EmptySeq DEF IdleCall, Call
<1>8. /\ call' \in [Request -> Call]
      /\ \A q \in Request : call'[q] \in {call[q], IdleCall}
  BY <1>6, <1>7 DEF Return, Becomes, IInv, TypeOK
<1> QED BY <1>4, <1>5, <1>6, <1>8, NewRows

\* A change of a booking's status keeps what it reserves and costs.
LEMMA StatusOK ==
  ASSUME IInv, NEW b \in Booking, booking[b].status # "absent",
         NEW s \in BookingStatus, booking' = [booking EXCEPT ![b].status = s],
         UNCHANGED <<court, closures, call, faults>>
  PROVE  IInv'
<1>1. booking[b] \in Row /\ Sound(booking[b]) /\ TypeOK
  BY DEF IInv, TypeOK, RowsOK, Bookings
<1>2. /\ booking'[b] \in Row /\ booking'[b].start = booking[b].start
      /\ booking'[b].end = booking[b].end /\ booking'[b].price = booking[b].price
  BY <1>1 DEF TypeOK, Row
<1>3. \A x \in Booking \ {b} : booking'[x] = booking[x]
  BY <1>1 DEF TypeOK
<1>4. SoundLater(booking'[b])
  BY <1>1, <1>2 DEF Sound, SoundLater, ValidItem
<1>5. \A x \in Booking \ {b} : booking'[x].status # "absent" => SoundLater(booking'[x])
  BY <1>1, <1>3, StaySound DEF IInv, RowsOK, Bookings
<1>6. booking' \in [Booking -> Row]
  BY <1>1, <1>2, <1>3 DEF TypeOK
<1>7. call' \in [Request -> Call]
  BY DEF IInv, TypeOK
<1> QED BY <1>4, <1>5, <1>6, <1>7, NewRows

\* Closures have no part in what is booked.
LEMMA ClosuresOK ==
  ASSUME IInv, closures' \subseteq Closures, UNCHANGED <<court, booking, call, faults>>
  PROVE  IInv'
<1>1. /\ UNCHANGED court /\ UNCHANGED booking /\ UNCHANGED call /\ UNCHANGED faults
      /\ TypeOK /\ ItemsOK /\ RowsOK
  BY DEF IInv
<1>2. TypeOK'
  <2>1. /\ hours' \in Hours /\ rules' \in RuleLists /\ day' \in Days /\ active' \in BOOLEAN
        /\ closures' \subseteq Closures /\ faults' \in 0 .. MaxFaults
    BY <1>1 DEF TypeOK, court
  <2>2. booking' \in [Booking -> Row]' /\ call' \in [Request -> Call]'
    BY <1>1, SamePrices DEF TypeOK
  <2> QED BY <2>1, <2>2 DEF TypeOK
<1>3. \A i : Sound(i) => SoundLater(i)
  BY <1>1 DEF Sound, SoundLater
<1>4. ItemsOK'
  <2>1. \A r \in Request :
           /\ call'[r].pc \in {"subCourt", "overlap", "price"} => call'[r].todo # <<>>
           /\ call'[r].pc \in {"overlap", "price"} => ValidItem(Head(call'[r].todo))
           /\ \A i \in DOMAIN call'[r].done : SoundLater(call'[r].done[i])
    BY <1>1, <1>3 DEF ItemsOK
  <2> QED BY <1>1, <2>1, ItemsLater
<1>5. RowsOK'
  BY <1>1, <1>3, RowsLater DEF RowsOK, Bookings
<1> QED BY <1>2, <1>4, <1>5 DEF IInv

LEMMA StutterOK == IInv /\ UNCHANGED vars => IInv'
<1> SUFFICES ASSUME IInv, UNCHANGED vars PROVE IInv'
  OBVIOUS
<1> QED BY ClosuresOK DEF vars, IInv, TypeOK

LEMMA NextInv == IInv /\ [Next]_vars => IInv'
<1> SUFFICES ASSUME IInv, [Next]_vars PROVE IInv'
  OBVIOUS
<1>1. ASSUME NEW r \in Request,
             \/ \E g \in Groups : CreateBooking(r, g)
             \/ GetSubCourt(r) \/ CheckOverlap(r) \/ PriceItem(r)
             \/ InsertBookings(r) \/ Fails(r)
      PROVE  IInv'
  BY <1>1, CreateOK, GetSubCourtOK, CheckOverlapOK, PriceItemOK, InsertOK, FailsOK
<1>2. ASSUME NEW b \in Booking, ConfirmBooking(b) \/ CancelBooking(b)
      PROVE  IInv'
  BY <1>2, StatusOK DEF ConfirmBooking, CancelBooking, BookingStatus
<1>3. ASSUME NEW c \in Closures, CloseSubCourt(c)
      PROVE  IInv'
  BY <1>3, ClosuresOK DEF CloseSubCourt, IInv, TypeOK
<1>4. CASE OpenSubCourt
  BY <1>4, ClosuresOK DEF OpenSubCourt
<1>5. CASE UNCHANGED vars
  BY <1>5, StutterOK
<1> QED BY <1>1, <1>2, <1>3, <1>4, <1>5 DEF Next

-----------------------------------------------------------------------------
(* What follows from it *)

\* Types, calls and rows stay sound, with any number of customers at a time.
THEOREM Invariance == Spec => []IInv
<1> QED BY InitInv, NextInv, PTL DEF Spec

\* Every booking keeps its type, and every price is one that can be charged.
THEOREM TypeCorrect == Spec => []TypeOK
<1>1. IInv => TypeOK
  BY DEF IInv
<1> QED BY <1>1, Invariance, PTL

\* Opening hours are minutes, and so are the times of every booking.
LEMMA Minutes ==
  ASSUME TypeOK
  PROVE  /\ hours.open \in Nat /\ hours.close \in Nat /\ Time \subseteq Nat
         /\ \A b \in Booking : booking[b].start \in Nat /\ booking[b].end \in Nat
<1>1. hours \in [open : Nat, close : Nat] /\ Time \subseteq Nat
  BY AvailabilityAssumption DEF TypeOK
<1>2. \A b \in Booking : booking[b] \in Row
  BY DEF TypeOK
<1>3. \A b \in Booking : booking[b].start \in Time \cup {0} /\ booking[b].end \in Time \cup {0}
  BY <1>2 DEF Row
<1>4. hours.open \in Nat /\ hours.close \in Nat
  BY <1>1
<1>5. \A n : n \in Time \cup {0} => n \in Nat
  BY <1>1
<1> QED BY <1>1, <1>3, <1>4, <1>5, Zenon

\* The slots tile the opening hours, whatever these are: no minute is left
\* out of the grid and none can be sold under two slots.
THEOREM GridTiles == Spec => []GridTilesDay
<1>1. TypeOK => GridTilesDay
  <2> SUFFICES ASSUME TypeOK, NEW t \in Time, hours.open <= t, t < hours.close
               PROVE  \E u \in TimeSlots :
                        /\ u <= t /\ t < u + 30
                        /\ \A v \in TimeSlots : v <= t /\ t < v + 30 => v = u
    BY DEF GridTilesDay
  <2> DEFINE o == hours.open
             c == hours.close
  <2>1. o \in Nat /\ c \in Nat /\ t \in Nat
    BY Minutes
  <2>2. o <= t /\ t < c
    OBVIOUS
  <2>3. TimeSlots = {x \in o .. (c - 1) : (x - o) % 30 = 0}
    BY DEF TimeSlots, Starts
  <2> HIDE DEF o, c
  <2>4. PICK u \in Nat : o <= u /\ u <= t /\ t < u + 30 /\ (u - o) % 30 = 0
    BY <2>1, <2>2, HalfHourOf
  <2>5. u \in TimeSlots
    <3>1. u \in o .. (c - 1)
      BY <2>1, <2>2, <2>4
    <3> QED BY <2>3, <2>4, <3>1
  <2>6. ASSUME NEW v \in TimeSlots, v <= t, t < v + 30
        PROVE  v = u
    <3>1. v \in Nat /\ (v - o) % 30 = 0 /\ v < u + 30 /\ u < v + 30
      <4>1. v \in o .. (c - 1) /\ (v - o) % 30 = 0
        BY <2>3
      <4>2. v \in Nat
        BY <2>1, <4>1
      <4> QED BY <2>1, <2>4, <2>6, <4>1, <4>2
    <3> QED BY <2>1, <2>4, <3>1, RasterIsApart
  <2> QED BY <2>4, <2>5, <2>6
<1> QED BY <1>1, TypeCorrect, PTL

\* On a range of the raster, some half hour overlaps an interval exactly when
\* the range itself does.
LEMMA HalfHoursCover ==
  ASSUME NEW s \in Nat, NEW e \in Nat, s < e, (e - s) % 30 = 0,
         NEW x \in Nat, NEW y \in Nat, x < y
  PROVE  (\E t \in Starts(s, e) : TimesOverlap(t, t + 30, x, y)) <=> (x < e /\ y > s)
<1>1. ASSUME NEW t \in Starts(s, e), TimesOverlap(t, t + 30, x, y)
      PROVE  x < e /\ y > s
  <2>1. t \in s .. (e - 1) /\ (t - s) % 30 = 0 /\ t < y /\ x < t + 30
    BY <1>1 DEF Starts, TimesOverlap
  <2>2. t \in Nat /\ t < e /\ s <= t
    BY <2>1
  <2>3. t + 30 <= e
    BY <2>1, <2>2, RasterEnds
  <2> QED BY <2>1, <2>2, <2>3
<1>2. ASSUME x < e, y > s
      PROVE  \E t \in Starts(s, e) : TimesOverlap(t, t + 30, x, y)
  <2> DEFINE m == IF s <= x THEN x ELSE s
  <2>1. m \in Nat /\ s <= m /\ m < e /\ x <= m /\ m < y
    BY <1>2
  <2> HIDE DEF m
  <2>2. PICK t \in Nat : s <= t /\ t <= m /\ m < t + 30 /\ (t - s) % 30 = 0
    BY <2>1, HalfHourOf
  <2>3. t \in s .. (e - 1)
    BY <2>1, <2>2
  <2>4. t \in Starts(s, e)
    BY <2>2, <2>3 DEF Starts
  <2>5. t < y /\ t + 30 > x
    BY <2>1, <2>2
  <2> QED BY <2>4, <2>5 DEF TimesOverlap
<1> QED BY <1>1, <1>2

\* The grid shows a range as taken exactly when a booking of it is refused,
\* however the two were computed and whatever was booked off the grid.
THEOREM GridIsHonest == Spec => []OfferedIffBookable
<1>1. IInv => OfferedIffBookable
  <2> SUFFICES ASSUME IInv, NEW s \in Time, NEW e \in Time, OnGrid(s, e),
                      \A t \in Starts(s, e) : ~Closed(t)
               PROVE  (\A t \in Starts(s, e) : IsAvailable(t)) <=> ~HasOverlappingBooking(s, e)
    BY DEF OfferedIffBookable
  <2>1. s \in Nat /\ e \in Nat /\ s < e /\ (e - s) % 30 = 0
    BY Minutes DEF OnGrid, IInv
  <2>2. ASSUME NEW b \in Booking, booking[b].status = "confirmed"
        PROVE  (\E t \in Starts(s, e) :
                  TimesOverlap(t, t + 30, booking[b].start, booking[b].end))
               <=> (booking[b].start < e /\ booking[b].end > s)
    <3>1. ValidItem(booking[b])
      BY <2>2 DEF IInv, RowsOK, Bookings, Sound
    <3>2. booking[b].start \in Nat /\ booking[b].end \in Nat
      BY Minutes DEF IInv
    <3>3. booking[b].start < booking[b].end
      BY <3>1, <3>2 DEF ValidItem
    <3> QED BY <2>1, <3>2, <3>3, HalfHoursCover
  <2>3. (\E t \in Starts(s, e) : Booked(t)) <=> HasOverlappingBooking(s, e)
    BY <2>2 DEF Booked, HasOverlappingBooking
  <2> QED BY <2>3 DEF IsAvailable
<1> QED BY <1>1, Invariance, PTL

\* A booking made from the grid costs what its slots cost there, as long as no
\* query failed, whichever of its times the hours of the court started from.
THEOREM PriceIsShown == Spec => []PriceAsShown
<1>1. IInv => PriceAsShown
  <2> SUFFICES ASSUME IInv, NEW b \in Bookings,
                      OnGrid(booking[b].start, booking[b].end),
                      booking[b].end <= hours.close, faults = 0
               PROVE  booking[b].price =
                        PriceOf({t \in TimeSlots : booking[b].start <= t /\ t < booking[b].end},
                                rules, day.type, day.mult)
    BY DEF PriceAsShown
  <2> DEFINE s == booking[b].start
             e == booking[b].end
             o == hours.open
             c == hours.close
  <2>1. booking[b].price = PriceOf(Starts(s, e), rules, day.type, day.mult)
    BY DEF IInv, RowsOK, Sound, TotalPrice
  <2>2. /\ s \in Nat /\ e \in Nat /\ o \in Nat /\ c \in Nat /\ e <= c
        /\ s \in o .. (c - 1) /\ (s - o) % 30 = 0
    BY Minutes DEF IInv, Bookings, OnGrid, TimeSlots, Starts
  <2>3. {t \in TimeSlots : s <= t /\ t < e} = Starts(s, e)
    <3>1. TimeSlots = {t \in o .. (c - 1) : (t - o) % 30 = 0}
      BY DEF TimeSlots, Starts
    <3> HIDE DEF s, e, o, c
    <3>2. ASSUME NEW t \in Starts(s, e) PROVE t \in TimeSlots /\ s <= t /\ t < e
      <4>1. t \in s .. (e - 1) /\ (t - s) % 30 = 0
        BY DEF Starts
      <4>2. t \in Nat /\ s <= t /\ t < e /\ t \in o .. (c - 1)
        BY <2>2, <4>1
      <4>3. (t - o) % 30 = 0
        BY <2>2, <4>1, <4>2, SameRaster
      <4> QED BY <3>1, <4>2, <4>3
    <3>3. ASSUME NEW t \in TimeSlots, s <= t, t < e PROVE t \in Starts(s, e)
      <4>1. t \in o .. (c - 1) /\ (t - o) % 30 = 0
        BY <3>1
      <4>2. t \in Nat /\ t \in s .. (e - 1)
        BY <2>2, <3>3, <4>1
      <4>3. (t - s) % 30 = 0
        BY <2>2, <4>1, <4>2, SameRaster
      <4> QED BY <4>2, <4>3 DEF Starts
    <3> QED BY <3>2, <3>3
  <2> QED BY <2>1, <2>3
<1> QED BY <1>1, Invariance, PTL
=============================================================================
