------------------------ MODULE PaymentOutcomeProofs ------------------------
(***************************************************************************)
(* Payments implements PaymentOutcome: with the status of the payments as  *)
(* the outcome, the calls that apply it, and the status of the bookings,   *)
(* every step of a request is a step of PaymentOutcome or invisible to it. *)
(* And when nothing fails, who has paid for a group gets all of it.        *)
(***************************************************************************)
EXTENDS PaymentsProofs

-----------------------------------------------------------------------------
(* Bookings are made once, group by group *)

Absent == {b \in Booking : booking[b] = "absent"}

Booker(r) == call[r].pc \in {"bookCheck", "bookInsert"}

\* Who makes bookings is the only one to make these; who works on a booking
\* works on one that has been made.
BookInv ==
  /\ \A b \in Booking : \A c \in GroupOf[b] : b \in Absent <=> c \in Absent
  /\ \A r \in Request : Booker(r) => call[r].op = "book" /\ call[r].bk \in Absent
  /\ \A q, r \in Request :
       q # r /\ Booker(q) /\ Booker(r) => call[q].bk \notin GroupOf[call[r].bk]
  /\ \A r \in Request :
       call[r].pc \in {"userCancel", "find", "lock", "insert"} => call[r].bk \notin Absent
  /\ \A p \in Payment : status[p] # "absent" => target[p] \notin Absent

LEMMA BookInitially == Init => BookInv
<1> SUFFICES ASSUME Init PROVE BookInv
  OBVIOUS
<1>1. Absent = Booking
  BY DEF Init, Absent
<1>2. \A r \in Request : call[r].pc = "idle"
  BY DEF Init, IdleCall
<1> QED
  BY <1>1, <1>2, BookingAssumption DEF Init, BookInv, Booker

\* Most steps make no booking, and begin to make none.
LEMMA BookMoves ==
  ASSUME BookInv, NEW r \in Request,
         \A q \in Request \ {r} : call'[q] = call[q],
         Absent' = Absent,
         \A p \in Payment : status'[p] # "absent" =>
            \/ status[p] # "absent" /\ target'[p] = target[p]
            \/ target'[p] \notin Absent,
         call'[r].pc \in {"bookCheck", "bookInsert"} =>
            Booker(r) /\ call'[r].op = call[r].op /\ call'[r].bk = call[r].bk,
         call'[r].pc \in {"userCancel", "find", "lock", "insert"} => call'[r].bk \notin Absent
  PROVE  BookInv'
<1>1. \A q \in Request : Booker(q)' =>
        Booker(q) /\ call'[q].op = call[q].op /\ call'[q].bk = call[q].bk
  BY DEF Booker
<1>2. \A q \in Request : Booker(q)' => call'[q].op = "book" /\ call'[q].bk \in Absent'
  BY <1>1 DEF BookInv
<1>3. \A q, t \in Request : q # t /\ Booker(q)' /\ Booker(t)' => call'[q].bk \notin GroupOf[call'[t].bk]
  BY <1>1 DEF BookInv
<1>4. \A q \in Request :
        call'[q].pc \in {"userCancel", "find", "lock", "insert"} => call'[q].bk \notin Absent'
  BY DEF BookInv
<1>5. \A p \in Payment : status'[p] # "absent" => target'[p] \notin Absent'
  BY DEF BookInv
<1>6. \A b \in Booking : \A c \in GroupOf[b] : b \in Absent' <=> c \in Absent'
  BY DEF BookInv
<1> QED
  BY <1>2, <1>3, <1>4, <1>5, <1>6 DEF BookInv

\* Labels at which a call does not answer for a booking.
Later == {"idle", "rollback", "ticket", "order", "unlock", "query", "expiry", "decide",
          "update", "release", "next"}

LEMMA BookLater ==
  ASSUME BookInv, NEW r \in Request,
         \A q \in Request \ {r} : call'[q] = call[q], call'[r].pc \in Later,
         Absent' = Absent,
         \A p \in Payment : status'[p] # "absent" => status[p] # "absent",
         UNCHANGED target
  PROVE  BookInv'
<1>1. call'[r].pc \notin {"bookCheck", "bookInsert", "userCancel", "find", "lock", "insert"}
  BY DEF Later
<1> QED
  BY <1>1, BookMoves

LEMMA CreateBookingKeeps ==
  ASSUME IInv, BookInv, NEW r \in Request, NEW b \in Booking, CreateBooking(r, b)
  PROVE  BookInv'
<1>1. call \in [Request -> Call] /\ call[r].pc = "idle"
  BY DEF IInv, CallsOK, CreateBooking, Begin, At
<1>2. PICK c : /\ c = [[IdleCall EXCEPT !.pc = "bookCheck", !.bk = b, !.todo = GroupOf[b]]
                         EXCEPT !.op = "book"]
               /\ call' = [call EXCEPT ![r] = c]
  BY DEF CreateBooking, Begin, Becomes
<1>3. c.pc = "bookCheck" /\ c.bk = b /\ c.op = "book"
  BY <1>2 DEF IdleCall
<1>4. call'[r] = c /\ \A q \in Request \ {r} : call'[q] = call[q]
  BY <1>1, <1>2
<1>5. UNCHANGED <<booking, status, target>> /\ Absent' = Absent
  BY DEF CreateBooking, tables, Absent
<1>6. b \in Absent /\ \A q \in Request : call[q].op = "book" => b \notin GroupOf[call[q].bk]
  BY DEF CreateBooking, Absent
<1>7. \A q \in Request : Booker(q)' => call'[q].op = "book" /\ call'[q].bk \in Absent'
  BY <1>3, <1>4, <1>5, <1>6 DEF BookInv, Booker
<1>8. \A q \in Request \ {r} : Booker(q)' => call[q].bk \in Booking /\ b \notin GroupOf[call[q].bk]
  BY <1>4, <1>6 DEF BookInv, Booker, Absent
<1>9. \A q \in Request \ {r} : Booker(q)' => call[q].bk \notin GroupOf[b]
  BY <1>8, BookingAssumption
<1>10. \A q, t \in Request : q # t /\ Booker(q)' /\ Booker(t)' => call'[q].bk \notin GroupOf[call'[t].bk]
  BY <1>3, <1>4, <1>8, <1>9 DEF BookInv, Booker
<1>11. \A q \in Request :
         call'[q].pc \in {"userCancel", "find", "lock", "insert"} => call'[q].bk \notin Absent'
  BY <1>3, <1>4, <1>5 DEF BookInv
<1> QED
  BY <1>5, <1>7, <1>10, <1>11 DEF BookInv

LEMMA InsertBookingsKeeps ==
  ASSUME IInv, BookInv, NEW r \in Request, InsertBookings(r)
  PROVE  BookInv'
<1>1. /\ call \in [Request -> Call] /\ Booker(r) /\ call[r].bk \in Absent /\ call[r].bk \in Booking
      /\ booking \in [Booking -> BookingStatus]
  BY DEF IInv, TablesOK, CallsOK, InsertBookings, At, BookInv, Booker, Absent
<1>2. call'[r] = IdleCall /\ \A q \in Request \ {r} : call'[q] = call[q]
  BY <1>1 DEF InsertBookings, Return, Becomes
<1>3. UNCHANGED <<status, target>>
  BY DEF InsertBookings
<1>4. PICK b \in Booking : b = call[r].bk
  BY <1>1
<1>5. Absent' = Absent \ GroupOf[b]
  BY <1>1, <1>4 DEF InsertBookings, Absent
<1>6. \A c \in Booking : \A d \in GroupOf[c] : c \in Absent' <=> d \in Absent'
  BY <1>5, BookingAssumption DEF BookInv
<1>7. IdleCall.pc = "idle"
  BY DEF IdleCall
<1>8. \A q \in Request : Booker(q)' =>
        q # r /\ Booker(q) /\ call'[q].op = "book" /\ call'[q].bk = call[q].bk
  BY <1>2, <1>7 DEF BookInv, Booker
<1>9. \A q \in Request : Booker(q)' => call'[q].op = "book" /\ call'[q].bk \in Absent'
  BY <1>1, <1>4, <1>5, <1>8 DEF BookInv
<1>10. \A q, t \in Request : q # t /\ Booker(q)' /\ Booker(t)' => call'[q].bk \notin GroupOf[call'[t].bk]
  BY <1>8 DEF BookInv
<1>11. \A q \in Request :
         call'[q].pc \in {"userCancel", "find", "lock", "insert"} => call'[q].bk \notin Absent'
  BY <1>2, <1>5, <1>7 DEF BookInv
<1>12. \A p \in Payment : status'[p] # "absent" => target'[p] \notin Absent'
  BY <1>3, <1>5 DEF BookInv
<1> QED
  BY <1>6, <1>9, <1>10, <1>11, <1>12 DEF BookInv

-----------------------------------------------------------------------------
(* Steps that PaymentOutcome does not see *)

Refines == Outcome!Next \/ UNCHANGED Outcome!vars

\* Who applies which payment, and how.
Appl ==
  [p \in Payment |-> {<<r, call[r].out>> : r \in {q \in Request : Applying(q, p)}}]

\* Neither before nor after the step does the request apply an outcome.
LEMMA SameAppl ==
  ASSUME NEW r \in Request, \A q \in Request \ {r} : call'[q] = call[q],
         call[r].pc \notin {"update", "release"}, call'[r].pc \notin {"update", "release"}
  PROVE  Appl' = Appl
<1>1. \A p \in Payment : {q \in Request : Applying(q, p)}' = {q \in Request : Applying(q, p)}
  BY DEF Applying
<1>2. \A p \in Payment : \A q \in {q \in Request : Applying(q, p)} : call'[q].out = call[q].out
  BY DEF Applying
<1>3. \A p \in Payment :
        {<<q, call'[q].out>> : q \in {q \in Request : Applying(q, p)}'}
          = {<<q, call[q].out>> : q \in {q \in Request : Applying(q, p)}}
  BY <1>1, <1>2
<1> QED
  BY <1>3 DEF Appl

LEMMA Stutters == ASSUME UNCHANGED <<booking, status>>, Appl' = Appl PROVE Refines
BY DEF Refines, Appl, Outcome!vars

LEMMA Unseen ==
  ASSUME NEW r \in Request, \A q \in Request \ {r} : call'[q] = call[q],
         call[r].pc \notin {"update", "release"}, call'[r].pc \notin {"update", "release"},
         UNCHANGED <<booking, status>>
  PROVE  Refines
BY SameAppl, Stutters

LEMMA QuietLater ==
  ASSUME IInv, BookInv, NEW r \in Request, NEW c, Becomes(r, c),
         c.pc \in Later \ {"update", "release"}, call[r].pc \notin {"update", "release"},
         UNCHANGED <<booking, status, target>>
  PROVE  BookInv' /\ Refines
<1>1. call'[r] = c /\ \A q \in Request \ {r} : call'[q] = call[q]
  BY DEF Becomes, IInv, CallsOK
<1>2. Absent' = Absent
  BY DEF Absent
<1>3. BookInv'
  BY <1>1, <1>2, BookLater
<1>4. Refines
  BY <1>1, Unseen
<1> QED
  BY <1>3, <1>4

LEMMA QuietWork ==
  ASSUME IInv, BookInv, NEW r \in Request, NEW c, Becomes(r, c),
         c.pc \in {"userCancel", "find", "lock", "insert"}, c.bk \notin Absent,
         call[r].pc \notin {"update", "release"},
         UNCHANGED <<booking, status, target>>
  PROVE  BookInv' /\ Refines
<1>1. call'[r] = c /\ \A q \in Request \ {r} : call'[q] = call[q]
  BY DEF Becomes, IInv, CallsOK
<1>2. Absent' = Absent
  BY DEF Absent
<1>3. BookInv'
  BY <1>1, <1>2, BookMoves
<1>4. Refines
  BY <1>1, Unseen
<1> QED
  BY <1>3, <1>4

LEMMA BeginsUnseen ==
  ASSUME IInv, BookInv, NEW r \in Request,
         \/ \E b \in Booking :
              CreateBooking(r, b) \/ CancelBooking(r, b) \/ CreatePayment(r, b)
         \/ \E p \in Payment : SettleCallback(r, p) \/ \E o : EnsureCurrentStatus(r, p, o)
         \/ Reconcile(r)
  PROVE  BookInv' /\ Refines
<1>0. ASSUME NEW c, NEW o, Begin(r, o, c), c \in Call
      PROVE  /\ call[r].pc = "idle"
             /\ \E d : Becomes(r, d) /\ d.pc = c.pc /\ d.bk = c.bk
  <2>1. PICK d : d = [c EXCEPT !.op = o]
    OBVIOUS
  <2>2. d.pc = c.pc /\ d.bk = c.bk
    BY <1>0, <2>1 DEF Call
  <2>3. call[r].pc = "idle" /\ Becomes(r, d)
    BY <1>0, <2>1 DEF Begin, At
  <2> QED
    BY <2>2, <2>3, Zenon
<1> USE DEF tables
<1>1. ASSUME NEW b \in Booking, CreateBooking(r, b) PROVE BookInv' /\ Refines
  <2>1. PICK c : c = [IdleCall EXCEPT !.pc = "bookCheck", !.bk = b, !.todo = GroupOf[b]]
    OBVIOUS
  <2>2. c \in Call /\ c.pc = "bookCheck"
    BY <2>1, IdleIsCall, BookingAssumption DEF IdleCall, Call, Label
  <2>3. Begin(r, "book", c) /\ UNCHANGED <<booking, status>>
    BY <1>1, <2>1 DEF CreateBooking
  <2>4. call[r].pc = "idle" /\ \E d : Becomes(r, d) /\ d.pc = "bookCheck"
    BY <1>0, <2>2, <2>3
  <2>5. call'[r].pc = "bookCheck" /\ \A q \in Request \ {r} : call'[q] = call[q]
    BY <2>4 DEF Becomes, IInv, CallsOK
  <2>6. BookInv'
    BY <1>1, CreateBookingKeeps
  <2>7. Refines
    BY <2>3, <2>4, <2>5, Unseen
  <2> QED
    BY <2>6, <2>7
<1>2. ASSUME NEW b \in Booking, CancelBooking(r, b) PROVE BookInv' /\ Refines
  <2>1. PICK c : c = [IdleCall EXCEPT !.pc = "userCancel", !.bk = b]
    OBVIOUS
  <2>2. c \in Call /\ c.pc = "userCancel" /\ c.bk = b
    BY <2>1, IdleIsCall DEF IdleCall, Call, Label
  <2>3. b \notin Absent /\ UNCHANGED <<booking, status, target>>
    BY <1>2 DEF CancelBooking, Absent
  <2>4. \E o : Begin(r, o, c)
    BY <1>2, <2>1 DEF CancelBooking
  <2>5. call[r].pc = "idle" /\ \E d : Becomes(r, d) /\ d.pc = "userCancel" /\ d.bk = b
    BY <1>0, <2>2, <2>4
  <2> QED
    BY <2>3, <2>5, QuietWork
<1>3. ASSUME NEW b \in Booking, CreatePayment(r, b) PROVE BookInv' /\ Refines
  <2>1. PICK c : c = [IdleCall EXCEPT !.pc = "find", !.bk = b]
    OBVIOUS
  <2>2. c \in Call /\ c.pc = "find" /\ c.bk = b
    BY <2>1, IdleIsCall DEF IdleCall, Call, Label
  <2>3. b \notin Absent /\ UNCHANGED <<booking, status, target>>
    BY <1>3 DEF CreatePayment, Absent
  <2>4. \E o : Begin(r, o, c)
    BY <1>3, <2>1 DEF CreatePayment
  <2>5. call[r].pc = "idle" /\ \E d : Becomes(r, d) /\ d.pc = "find" /\ d.bk = b
    BY <1>0, <2>2, <2>4
  <2> QED
    BY <2>3, <2>5, QuietWork
<1>4. ASSUME NEW p \in Payment, SettleCallback(r, p) PROVE BookInv' /\ Refines
  <2>1. PICK o, c : /\ c = [IdleCall EXCEPT !.pc = "decide", !.pay = p, !.out = o]
                    /\ Begin(r, "callback", c) /\ o \in Terminal
    BY <1>4 DEF SettleCallback, Terminal
  <2>2. c \in Call /\ c.pc = "decide"
    BY <2>1, IdleIsCall DEF IdleCall, Call, Label
  <2> QED
    BY <1>0, <1>4, <2>1, <2>2, QuietLater DEF SettleCallback, Later
<1>5. ASSUME NEW p \in Payment, NEW o, EnsureCurrentStatus(r, p, o) PROVE BookInv' /\ Refines
  <2>1. PICK c : c = [IdleCall EXCEPT !.pc = "query", !.pay = p]
    OBVIOUS
  <2>2. c \in Call /\ c.pc = "query"
    BY <2>1, IdleIsCall DEF IdleCall, Call, Label
  <2> QED
    BY <1>0, <1>5, <2>1, <2>2, QuietLater DEF EnsureCurrentStatus, Later
<1>6. CASE Reconcile(r)
  <2>1. PICK c : c = [IdleCall EXCEPT !.pc = "next", !.queue = FindPendingPayments]
    OBVIOUS
  <2>2. c \in Call /\ c.pc = "next"
    BY <2>1, IdleIsCall DEF IdleCall, Call, Label, FindPendingPayments
  <2> QED
    BY <1>0, <1>6, <2>1, <2>2, QuietLater DEF Reconcile, Later
<1> QED
  BY <1>1, <1>2, <1>3, <1>4, <1>5, <1>6

\* Booking checks, the locks, the ticket and the query are no business of the outcome.
LEMMA StepsUnseen ==
  ASSUME IInv, BookInv, NEW r \in Request,
         \/ CheckOverlap(r) \/ FindPending(r) \/ FindPendingFails(r) \/ LockSlot(r)
         \/ Rollback(r) \/ Unlock(r) \/ InsertFails(r) \/ CreateTicket(r)
         \/ CreateOrder(r) \/ OrderFails(r) \/ ReconcileNext(r)
         \/ QueryOrder(r) \/ CheckExpiry(r) \/ LoseDecision(r)
  PROVE  BookInv' /\ Refines
<1> USE DEF tables
<1>1. /\ call \in [Request -> Call] /\ call[r] \in Call
      /\ UNCHANGED <<booking, status, target>>
      /\ call[r].pc \notin {"update", "release"}
  BY DEF IInv, CallsOK, CheckOverlap, FindPending, FindPendingFails, LockSlot, Rollback, Unlock,
         InsertFails, CreateTicket, CreateOrder, OrderFails, ReconcileNext, QueryOrder,
         CheckExpiry, LoseDecision, At
<1>2. ASSUME NEW c, Becomes(r, c), c.pc \in Later \ {"update", "release"}
      PROVE  BookInv' /\ Refines
  BY <1>1, <1>2, QuietLater
<1>3. ASSUME Return(r) PROVE BookInv' /\ Refines
  BY <1>2, <1>3, IdleIsCall DEF Return, Later
<1>4. ASSUME NEW S, NEW l \in {"lock", "rollback", "unlock"}, NEW last \in {"idle", "insert"},
             Continue(r, S, l, last),
             l = "lock" \/ last = "insert" => call[r].bk \notin Absent
      PROVE  BookInv' /\ Refines
  <2>1. PICK c : /\ Becomes(r, c)
                 /\ \/ c = [call[r] EXCEPT !.todo = S, !.pc = l]
                    \/ c = IdleCall
                    \/ last = "insert" /\ c = [call[r] EXCEPT !.todo = {}, !.pc = last]
    BY <1>4 DEF Continue, Becomes
  <2>2. CASE c = [call[r] EXCEPT !.todo = S, !.pc = l]
    <3>1. c.pc = l /\ c.bk = call[r].bk
      BY <1>1, <2>2 DEF Call
    <3> QED
      BY <1>1, <1>2, <1>4, <2>1, <3>1, QuietWork DEF Later
  <2>3. CASE c = IdleCall
    BY <1>2, <2>1, <2>3, IdleIsCall DEF Later
  <2>4. CASE last = "insert" /\ c = [call[r] EXCEPT !.todo = {}, !.pc = last]
    <3>1. c.pc = "insert" /\ c.bk = call[r].bk
      BY <1>1, <2>4 DEF Call
    <3> QED
      BY <1>1, <1>4, <2>1, <2>4, <3>1, QuietWork
  <2> QED
    BY <2>1, <2>2, <2>3, <2>4
<1>5. ASSUME NEW S, call[r].pc = "find", Locking(r, S) PROVE BookInv' /\ Refines
  <2>0. PICK l \in {"insert", "lock"} :
          Becomes(r, [call[r] EXCEPT !.pc = l, !.slots = S, !.todo = S])
    BY <1>5 DEF Locking, Becomes
  <2>1. PICK c : Becomes(r, c) /\ c = [call[r] EXCEPT !.pc = l, !.slots = S, !.todo = S]
    BY <2>0
  <2>2. c.pc = l /\ c.bk = call[r].bk
    BY <1>1, <2>1 DEF Call
  <2>3. call[r].bk \notin Absent
    BY <1>5 DEF BookInv
  <2> QED
    BY <1>1, <2>1, <2>2, <2>3, QuietWork
<1>6. ASSUME NEW b, EnsureReturns(r, b) PROVE BookInv' /\ Refines
  <2>1. PICK c : Becomes(r, c) /\ c.pc \in {"decide", "next", "idle"}
    <3>1. PICK c : /\ Becomes(r, c)
                   /\ \/ c = [call[r] EXCEPT !.pc = "decide", !.out = "failed"]
                      \/ c = [IdleCall EXCEPT !.op = "reconcile", !.pc = "next", !.queue = call[r].queue]
                      \/ c = IdleCall
      BY <1>6 DEF EnsureReturns, Becomes
    <3>2. CASE c = [call[r] EXCEPT !.pc = "decide", !.out = "failed"]
      BY <1>1, <3>1, <3>2 DEF Call
    <3>3. CASE c = [IdleCall EXCEPT !.op = "reconcile", !.pc = "next", !.queue = call[r].queue]
      BY <3>1, <3>3 DEF IdleCall
    <3>4. CASE c = IdleCall
      BY <3>1, <3>4, IdleIsCall
    <3> QED
      BY <3>1, <3>2, <3>3, <3>4
  <2> QED
    BY <1>2, <2>1 DEF Later
<1>7. CASE CheckOverlap(r)
  <2>1. PICK c \in call[r].todo :
          Return(r) \/ Continue(r, call[r].todo \ {c}, "bookCheck", "bookInsert")
    BY <1>7 DEF CheckOverlap
  <2>2. CASE Continue(r, call[r].todo \ {c}, "bookCheck", "bookInsert")
    <3>1. PICK d : /\ Becomes(r, d)
                   /\ \/ d = [call[r] EXCEPT !.todo = call[r].todo \ {c}, !.pc = "bookCheck"]
                      \/ d = [call[r] EXCEPT !.todo = {}, !.pc = "bookInsert"]
      BY <2>2 DEF Continue, Becomes
    <3>2. d.pc \in {"bookCheck", "bookInsert"} /\ d.op = call[r].op /\ d.bk = call[r].bk
      BY <1>1, <3>1 DEF Call
    <3>3. call'[r] = d /\ \A q \in Request \ {r} : call'[q] = call[q]
      BY <1>1, <3>1 DEF Becomes
    <3>4. Booker(r) /\ Absent' = Absent
      BY <1>1, <1>7 DEF CheckOverlap, At, Booker, Absent
    <3> QED
      BY <1>1, <3>2, <3>3, <3>4, BookMoves, Unseen
  <2> QED
    BY <1>3, <2>1, <2>2
<1>8. CASE FindPending(r) \/ FindPendingFails(r)
  <2>1. call[r].pc = "find"
    BY <1>8 DEF FindPending, FindPendingFails, At
  <2>2. ASSUME NEW p, Becomes(r, [call[r] EXCEPT !.pc = "query", !.pay = p])
        PROVE  BookInv' /\ Refines
    <3>1. PICK c : c = [call[r] EXCEPT !.pc = "query", !.pay = p]
      OBVIOUS
    <3>2. Becomes(r, c) /\ c.pc = "query"
      BY <1>1, <2>2, <3>1 DEF Call
    <3> QED
      BY <1>2, <3>2 DEF Later
  <2> QED
    BY <1>5, <1>8, <2>1, <2>2 DEF FindPending, FindPendingFails
<1>9. CASE LockSlot(r) \/ Rollback(r) \/ Unlock(r)
  <2>1. call[r].pc = "lock" => call[r].bk \notin Absent
    BY DEF BookInv
  <2> QED
    BY <1>4, <1>9, <2>1 DEF LockSlot, Rollback, Unlock, At
<1>10. CASE InsertFails(r) \/ OrderFails(r)
  BY <1>4, <1>10 DEF InsertFails, OrderFails, Unlocking
<1>11. CASE CreateTicket(r)
  <2>1. PICK c : c = [call[r] EXCEPT !.pc = "order"]
    OBVIOUS
  <2>2. Becomes(r, c) /\ c.pc = "order"
    BY <1>1, <1>11, <2>1 DEF CreateTicket, Goto, Call
  <2> QED
    BY <1>2, <2>2 DEF Later
<1>12. CASE CreateOrder(r)
  BY <1>3, <1>12 DEF CreateOrder
<1>13. CASE ReconcileNext(r)
  <2>1. PICK p \in call[r].queue :
          Becomes(r, [call[r] EXCEPT !.pc = "query", !.pay = p, !.queue = @ \ {p}])
    BY <1>13 DEF ReconcileNext
  <2>2. PICK c : c = [call[r] EXCEPT !.pc = "query", !.pay = p, !.queue = call[r].queue \ {p}]
    OBVIOUS
  <2>3. Becomes(r, c) /\ c.pc = "query"
    BY <1>1, <2>1, <2>2 DEF Call, Becomes
  <2> QED
    BY <1>2, <2>3 DEF Later
<1>14. ASSUME NEW c, Becomes(r, c),
              \/ c = [call[r] EXCEPT !.pc = "decide", !.out = "success"]
              \/ c = [call[r] EXCEPT !.pc = "decide", !.out = "expired"]
              \/ c = [call[r] EXCEPT !.pc = "expiry", !.out = None]
              \/ c = [call[r] EXCEPT !.pc = "expiry"]
       PROVE  BookInv' /\ Refines
  <2>1. c.pc \in {"decide", "expiry"}
    BY <1>1, <1>14 DEF Call
  <2> QED
    BY <1>2, <1>14, <2>1 DEF Later
<1>15. CASE QueryOrder(r)
  <2>1. PICK c : /\ Becomes(r, c)
                 /\ \/ c = [call[r] EXCEPT !.pc = "decide", !.out = "success"]
                    \/ c = [call[r] EXCEPT !.pc = "expiry"]
    BY <1>15 DEF QueryOrder, Goto, Becomes
  <2> QED
    BY <1>14, <2>1
<1>16. CASE CheckExpiry(r)
  BY <1>6, <1>14, <1>16 DEF CheckExpiry
<1>17. CASE LoseDecision(r)
  BY <1>6, <1>14, <1>17 DEF LoseDecision
<1> QED
  BY <1>7, <1>8, <1>9, <1>10, <1>11, <1>12, <1>13, <1>15, <1>16, <1>17

-----------------------------------------------------------------------------
(* Steps that PaymentOutcome sees *)

LEMMA Changes ==
  ASSUME NEW S \in SUBSET Booking, NEW s \in {"pending", "cancelled", "completed"},
         \A b \in S : /\ s = "pending" => booking[b] = "absent"
                      /\ s = "completed" => booking[b] = "confirmed",
         booking' = [b \in Booking |-> IF b \in S THEN s ELSE booking[b]],
         status' = status, Appl' = Appl
  PROVE  Refines
<1>1. Outcome!Change(S, s)
  BY DEF Outcome!Change, Appl
<1> QED
  BY <1>1 DEF Refines, Outcome!Next

LEMMA InsertBookingsSeen ==
  ASSUME IInv, BookInv, NEW r \in Request, InsertBookings(r)
  PROVE  BookInv' /\ Refines
<1>1. /\ call \in [Request -> Call] /\ call[r].pc = "bookInsert"
      /\ Booker(r) /\ call[r].bk \in Absent /\ call[r].bk \in Booking
  BY DEF IInv, CallsOK, InsertBookings, At, BookInv, Booker, Absent
<1>2. call'[r] = IdleCall /\ \A q \in Request \ {r} : call'[q] = call[q]
  BY <1>1 DEF InsertBookings, Return, Becomes
<1>3. Appl' = Appl
  BY <1>1, <1>2, IdleIsCall, SameAppl
<1>4. PICK S : S = GroupOf[call[r].bk]
  OBVIOUS
<1>5. S \in SUBSET Booking /\ \A b \in S : booking[b] = "absent"
  BY <1>1, <1>4, BookingAssumption DEF BookInv, Absent
<1>6. booking' = [b \in Booking |-> IF b \in S THEN "pending" ELSE booking[b]] /\ status' = status
  BY <1>4 DEF InsertBookings
<1>7. Refines
  BY <1>3, <1>5, <1>6, Changes
<1> QED
  BY <1>7, InsertBookingsKeeps

\* Bookings that have been made stay made.
LEMMA CancelsSeen ==
  ASSUME IInv, BookInv, NEW r \in Request, WriteCancelled(r) \/ MarkExpiredPendingBookings(r)
  PROVE  BookInv' /\ Refines
<1>1. /\ call \in [Request -> Call] /\ booking \in [Booking -> BookingStatus]
      /\ call[r].pc \notin {"update", "release"}
  BY DEF IInv, TablesOK, CallsOK, WriteCancelled, MarkExpiredPendingBookings, At
<1>2. call'[r] = IdleCall /\ \A q \in Request \ {r} : call'[q] = call[q]
  BY <1>1 DEF WriteCancelled, MarkExpiredPendingBookings, Return, Becomes
<1>3. Appl' = Appl
  BY <1>1, <1>2, IdleIsCall, SameAppl
<1>4. PICK S \in SUBSET Booking :
        /\ booking' = [b \in Booking |-> IF b \in S THEN "cancelled" ELSE booking[b]]
        /\ S \cap Absent = {}
  <2>1. CASE WriteCancelled(r)
    <3>1. call[r].bk \in Booking /\ call[r].bk \notin Absent
      BY <2>1 DEF WriteCancelled, At, IInv, CallsOK, CallOK, BookInv
    <3>2. PICK S : S = {call[r].bk}
      OBVIOUS
    <3>3. booking' = [b \in Booking |-> IF b \in S THEN "cancelled" ELSE booking[b]]
      BY <1>1, <2>1, <3>1, <3>2 DEF WriteCancelled
    <3> QED
      BY <3>1, <3>2, <3>3
  <2>2. CASE MarkExpiredPendingBookings(r)
    <3>1. PICK S : S = {b \in Booking : booking[b] = "pending" /\ aged[b]}
      OBVIOUS
    <3>2. booking' = [b \in Booking |-> IF b \in S THEN "cancelled" ELSE booking[b]]
      BY <2>2, <3>1 DEF MarkExpiredPendingBookings
    <3> QED
      BY <3>1, <3>2 DEF Absent
  <2> QED
    BY <2>1, <2>2
<1>5. UNCHANGED <<status, target>>
  BY DEF WriteCancelled, MarkExpiredPendingBookings
<1>6. Refines
  BY <1>3, <1>4, <1>5, Changes
<1>7. Absent' = Absent
  BY <1>4 DEF Absent
<1>8. BookInv'
  BY <1>2, <1>5, <1>7, IdleIsCall, BookLater DEF Later
<1> QED
  BY <1>6, <1>8

LEMMA InsertPaymentSeen ==
  ASSUME IInv, BookInv, NEW r \in Request, InsertPayment(r)
  PROVE  BookInv' /\ Refines
<1>1. /\ call \in [Request -> Call] /\ call[r] \in Call /\ call[r].pc = "insert"
      /\ status \in [Payment -> PaymentStatus] /\ target \in [Payment -> Booking \cup {None}]
  BY DEF IInv, TablesOK, CallsOK, InsertPayment, At
<1>2. PICK p \in Payment :
       /\ status[p] = "absent"
       /\ status' = [status EXCEPT ![p] = "pending"]
       /\ target' = [target EXCEPT ![p] = call[r].bk]
       /\ Becomes(r, [call[r] EXCEPT !.pc = "ticket", !.pay = p])
  BY DEF InsertPayment
<1>3. call'[r].pc = "ticket" /\ \A q \in Request \ {r} : call'[q] = call[q]
  BY <1>1, <1>2 DEF Becomes, Call
<1>4. Appl' = Appl
  BY <1>1, <1>3, SameAppl
<1>5. booking' = booking /\ Absent' = Absent
  BY DEF InsertPayment, Absent
<1>6. call[r].bk \notin Absent
  BY <1>1 DEF BookInv
<1>7. BookInv'
  BY <1>1, <1>2, <1>3, <1>5, <1>6, BookMoves
<1>8. Outcome!Offer(p)
  BY <1>2, <1>4, <1>5 DEF Outcome!Offer, Appl
<1> QED
  BY <1>7, <1>8 DEF Refines, Outcome!Next

LEMMA TicketFailsSeen ==
  ASSUME IInv, BookInv, NEW r \in Request, TicketFails(r)
  PROVE  BookInv' /\ Refines
<1>1. /\ call \in [Request -> Call] /\ call[r] \in Call /\ call[r].pc = "ticket"
      /\ status \in [Payment -> PaymentStatus]
  BY DEF IInv, TablesOK, CallsOK, TicketFails, At
<1>2. PICK p \in Payment :
        /\ p = call[r].pay
        /\ status' = [status EXCEPT ![p] = IF @ = "pending" THEN "failed" ELSE @]
  BY <1>1 DEF TicketFails, IInv, CallsOK, CallOK
<1>3. /\ Continue(r, call[r].slots, "unlock", "idle")
      /\ booking' = booking /\ target' = target
  BY DEF TicketFails, Unlocking
<1>4. call'[r].pc \in {"unlock", "idle"} /\ \A q \in Request \ {r} : call'[q] = call[q]
  BY <1>3, ContinuesWith, IdleIsCall
<1>5. Appl' = Appl
  BY <1>1, <1>4, SameAppl
<1>6. Absent' = Absent
  BY <1>3 DEF Absent
<1>7. \A q \in Payment : status'[q] # "absent" => status[q] # "absent"
  BY <1>1, <1>2
<1>8. BookInv'
  BY <1>3, <1>4, <1>6, <1>7, BookLater DEF Later
<1>9. CASE status[p] = "pending"
  <2>1. Outcome!Void(p)
    BY <1>2, <1>3, <1>5, <1>9 DEF Outcome!Void, Appl
  <2> QED
    BY <1>8, <2>1 DEF Refines, Outcome!Next
<1>10. CASE status[p] # "pending"
  <2>1. status' = status
    BY <1>1, <1>2, <1>10
  <2> QED
    BY <1>3, <1>5, <1>8, <2>1, Stutters
<1> QED
  BY <1>9, <1>10

\* Of a payment that is being applied there is one applier.
LEMMA ApplierIsAlone ==
  ASSUME IInv, NEW r \in Request, NEW p \in Payment, Applying(r, p)
  PROVE  /\ {q \in Request : Applying(q, p)} = {r}
         /\ Appl[p] = {<<r, call[r].out>>}
         /\ status[p] = call[r].out /\ status[p] \in Terminal
<1>1. \A q \in Request : Applying(q, p) => q = r
  BY DEF IInv, SoleOwner, Applying
<1>2. {q \in Request : Applying(q, p)} = {r}
  BY <1>1
<1>3. status[p] = call[r].out /\ status[p] \in Terminal
  BY DEF IInv, CallsOK, CallOK, Applying
<1> QED
  BY <1>2, <1>3 DEF Appl

\* The end of an application, however it comes.
LEMMA FinishSeen ==
  ASSUME IInv, BookInv, NEW r \in Request, NEW p \in Payment, Applying(r, p),
         \A q \in Request \ {r} : call'[q] = call[q],
         call'[r].pc \in Later \ {"update", "release"},
         UNCHANGED <<booking, status, target>>
  PROVE  BookInv' /\ Refines
<1>1. \A q \in Request \ {r} : ~Applying(q, p)
  BY ApplierIsAlone
<1>2. {q \in Request : Applying(q, p)}' = {}
  BY <1>1 DEF Applying
<1>3. \A s \in Payment \ {p} :
        {q \in Request : Applying(q, s)}' = {q \in Request : Applying(q, s)}
  BY DEF Applying
<1>4. ASSUME NEW s \in Payment \ {p} PROVE Appl'[s] = Appl[s]
  <2>1. \A q \in {q \in Request : Applying(q, s)} : call'[q].out = call[q].out
    BY DEF Applying
  <2> QED
    BY <1>3, <2>1 DEF Appl
<1>5. Appl'[p] = {}
  BY <1>2 DEF Appl
<1>6. Appl' = [Appl EXCEPT ![p] = {}]
  BY <1>4, <1>5 DEF Appl
<1>7. Outcome!Finish(p)
  BY <1>6, ApplierIsAlone DEF Outcome!Finish, Outcome!Terminal, Terminal, Appl
<1>8. Absent' = Absent
  BY DEF Absent
<1>9. BookInv'
  BY <1>8, BookLater
<1> QED
  BY <1>7, <1>9 DEF Refines, Outcome!Next

LEMMA DecideSeen ==
  ASSUME IInv, BookInv, NEW r \in Request, Decide(r)
  PROVE  BookInv' /\ Refines
<1>1. /\ call[r].pc = "decide" /\ call[r] \in Call /\ call[r].pay \in Payment
      /\ call[r].out \in Terminal
      /\ call \in [Request -> Call] /\ status \in [Payment -> PaymentStatus]
  BY DEF IInv, TablesOK, CallsOK, CallOK, Decide, At
<1>2. PICK p \in Payment, o \in Terminal :
       /\ p = call[r].pay /\ o = call[r].out /\ status[p] = "pending"
       /\ status' = [status EXCEPT ![p] = o]
       /\ Becomes(r, [call[r] EXCEPT !.pc = "update", !.bk = target[p], !.todo = GroupOf[target[p]]])
       /\ UNCHANGED <<booking, target>>
  BY <1>1 DEF Decide
<1>3. /\ call'[r].pc = "update" /\ call'[r].pay = p /\ call'[r].out = o
      /\ \A q \in Request \ {r} : call'[q] = call[q]
  BY <1>1, <1>2 DEF Becomes, Call
<1>4. \A q \in Request : ~Applying(q, p)
  BY <1>2, ApplierIsAlone DEF Terminal
<1>5. {q \in Request : Applying(q, p)}' = {r}
  BY <1>3, <1>4 DEF Applying
<1>6. ASSUME NEW s \in Payment \ {p} PROVE Appl'[s] = Appl[s]
  <2>1. {q \in Request : Applying(q, s)}' = {q \in Request : Applying(q, s)}
    BY <1>1, <1>2, <1>3 DEF Applying
  <2>2. \A q \in {q \in Request : Applying(q, s)} : call'[q].out = call[q].out
    BY <1>1, <1>3 DEF Applying
  <2> QED
    BY <2>1, <2>2 DEF Appl
<1>7. Appl'[p] = {<<r, o>>}
  BY <1>3, <1>5 DEF Appl
<1>8. Appl' = [Appl EXCEPT ![p] = {<<r, o>>}]
  BY <1>6, <1>7 DEF Appl
<1>9. Outcome!Settle(r, p, o)
  BY <1>2, <1>8 DEF Outcome!Settle, Appl
<1>10. Absent' = Absent
  BY <1>2 DEF Absent
<1>11. \A q \in Payment : status'[q] # "absent" => status[q] # "absent"
  BY <1>1, <1>2
<1>12. BookInv'
  BY <1>2, <1>3, <1>10, <1>11, BookLater DEF Later
<1> QED
  BY <1>9, <1>12 DEF Refines, Outcome!Next, Outcome!Terminal, Terminal

\* Between two bookings of a group the application goes on.
LEMMA GoesOn ==
  ASSUME NEW r \in Request, NEW p \in Payment, Applying(r, p),
         \A q \in Request \ {r} : call'[q] = call[q],
         call'[r].pc \in {"update", "release"}, call'[r].pay = p, call'[r].out = call[r].out
  PROVE  Appl' = Appl
<1>1. ASSUME NEW s \in Payment PROVE Appl'[s] = Appl[s]
  <2>1. {q \in Request : Applying(q, s)}' = {q \in Request : Applying(q, s)}
    BY DEF Applying
  <2>2. \A q \in {q \in Request : Applying(q, s)} : call'[q].out = call[q].out
    OBVIOUS
  <2> QED
    BY <2>1, <2>2 DEF Appl
<1> QED
  BY <1>1 DEF Appl

LEMMA UpdateBookingSeen ==
  ASSUME IInv, BookInv, NEW r \in Request, UpdateBooking(r)
  PROVE  BookInv' /\ Refines
<1>1. /\ call[r].pc = "update" /\ call[r] \in Call /\ call \in [Request -> Call]
      /\ call[r].pay \in Payment /\ call[r].bk = target[call[r].pay]
      /\ call[r].todo # {} /\ call[r].todo \subseteq GroupOf[call[r].bk]
      /\ call[r].bk \in Booking /\ status[call[r].pay] \in Terminal
      /\ booking \in [Booking -> BookingStatus]
  BY DEF IInv, TablesOK, CallsOK, CallOK, UpdateBooking, At
<1>2. PICK p \in Payment : p = call[r].pay
  BY <1>1
<1>3. /\ call'[r].pc = "release" /\ call'[r].pay = p /\ call'[r].out = call[r].out
      /\ \A q \in Request \ {r} : call'[q] = call[q]
  BY <1>1, <1>2 DEF UpdateBooking, Goto, Becomes, Call
<1>4. Applying(r, p)
  BY <1>1, <1>2 DEF Applying
<1>5. Appl' = Appl
  BY <1>3, <1>4, GoesOn
<1>6. PICK b : b = Current(r)
  OBVIOUS
<1>7. b \in call[r].todo
  BY <1>1, <1>6 DEF Current
<1>8. b \in Booking /\ b \notin Absent
  <2>1. call[r].bk \notin Absent
    BY <1>1 DEF BookInv, Terminal
  <2> QED
    BY <1>1, <1>7, <2>1, BookingAssumption DEF BookInv
<1>9. UNCHANGED <<status, target>>
  BY DEF UpdateBooking
<1>10. CASE booking' = booking
  <2>1. Absent' = Absent
    BY <1>10 DEF Absent
  <2> QED
    BY <1>3, <1>5, <1>9, <1>10, <2>1, Stutters, BookLater DEF Later
<1>11. CASE booking' = [booking EXCEPT ![b] = SideEffect(call[r].out)]
  <2>1. Appl[p] = {<<r, call[r].out>>} /\ status[p] = call[r].out /\ call[r].out \in Terminal
    BY <1>4, ApplierIsAlone
  <2>2. Outcome!Apply(r, p, call[r].out, b)
    BY <1>5, <1>9, <1>11, <2>1 DEF Outcome!Apply, Appl, SideEffect
  <2>3. Refines
    BY <1>8, <2>1, <2>2 DEF Refines, Outcome!Next, Outcome!Terminal, Terminal
  <2>4. Absent' = Absent
    BY <1>1, <1>8, <1>11 DEF Absent, SideEffect
  <2>5. BookInv'
    BY <1>3, <1>9, <2>4, BookLater DEF Later
  <2> QED
    BY <2>3, <2>5
<1> QED
  BY <1>6, <1>10, <1>11 DEF UpdateBooking

LEMMA ReleaseSeen ==
  ASSUME IInv, BookInv, NEW r \in Request, ReleaseBookingLock(r) \/ LookupFails(r)
  PROVE  BookInv' /\ Refines
<1>1. /\ call[r].pc \in {"update", "release"} /\ call[r] \in Call /\ call \in [Request -> Call]
      /\ call[r].pay \in Payment
  BY DEF IInv, CallsOK, CallOK, ReleaseBookingLock, LookupFails, At
<1>2. PICK p \in Payment : p = call[r].pay
  BY <1>1
<1>3. Applying(r, p) /\ UNCHANGED <<booking, status, target>>
  BY <1>1, <1>2 DEF Applying, ReleaseBookingLock, LookupFails, tables
<1>4. CASE EnsureReturns(r, FALSE)
  <2>1. PICK c : /\ Becomes(r, c)
                 /\ \/ c = [IdleCall EXCEPT !.op = "reconcile", !.pc = "next", !.queue = call[r].queue]
                    \/ c = IdleCall
    BY <1>4 DEF EnsureReturns, Becomes
  <2>2. CASE c = [IdleCall EXCEPT !.op = "reconcile", !.pc = "next", !.queue = call[r].queue]
    <3>1. c.pc = "next"
      BY <2>2 DEF IdleCall
    <3>2. call'[r].pc = "next" /\ \A q \in Request \ {r} : call'[q] = call[q]
      BY <1>1, <2>1, <3>1 DEF Becomes
    <3> QED
      BY <1>3, <3>2, FinishSeen DEF Later
  <2>3. CASE c = IdleCall
    <3>1. call'[r].pc = "idle" /\ \A q \in Request \ {r} : call'[q] = call[q]
      BY <1>1, <2>1, <2>3, IdleIsCall DEF Becomes
    <3> QED
      BY <1>3, <3>1, FinishSeen DEF Later
  <2> QED
    BY <2>1, <2>2, <2>3
<1>5. ASSUME NEW S, Becomes(r, [call[r] EXCEPT !.pc = "update", !.todo = S])
      PROVE  BookInv' /\ Refines
  <2>1. /\ call'[r].pc = "update" /\ call'[r].pay = p /\ call'[r].out = call[r].out
        /\ \A q \in Request \ {r} : call'[q] = call[q]
    BY <1>1, <1>2, <1>5 DEF Becomes, Call
  <2>2. Appl' = Appl /\ Absent' = Absent
    BY <1>3, <2>1, GoesOn DEF Absent
  <2> QED
    BY <1>3, <2>1, <2>2, Stutters, BookLater DEF Later
<1> QED
  BY <1>4, <1>5 DEF ReleaseBookingLock, LookupFails

LEMMA AbandonSeen ==
  ASSUME IInv, BookInv, NEW r \in Request, Abandon(r)
  PROVE  BookInv' /\ Refines
<1>1. /\ call \in [Request -> Call] /\ UNCHANGED <<booking, status, target>>
      /\ Becomes(r, IdleCall)
  BY DEF IInv, CallsOK, Abandon, Return, tables
<1>2. CASE call[r].pc \notin {"update", "release"}
  BY <1>1, <1>2, IdleIsCall, QuietLater DEF Later
<1>3. CASE call[r].pc \in {"update", "release"}
  <2>1. PICK p \in Payment : Applying(r, p)
    BY <1>3 DEF IInv, CallsOK, CallOK, Applying
  <2>2. call'[r].pc = "idle" /\ \A q \in Request \ {r} : call'[q] = call[q]
    BY <1>1, IdleIsCall DEF Becomes
  <2> QED
    BY <1>1, <2>1, <2>2, FinishSeen DEF Later
<1> QED
  BY <1>2, <1>3

LEMMA OutsideSeen ==
  ASSUME IInv, BookInv,
         \/ UNCHANGED vars
         \/ \E b \in Booking : AgeBooking(b) \/ MarkCompletedBookings(b)
         \/ \E p \in Payment : PassDeadline(p) \/ Pays(p)
         \/ \E s \in Slot : ExpireLock(s)
  PROVE  BookInv' /\ Refines
<1>1. UNCHANGED <<call, status, target>>
  BY DEF vars, tables, AgeBooking, MarkCompletedBookings, PassDeadline, Pays, ExpireLock
<1>2. Appl' = Appl
  BY <1>1 DEF Appl, Applying
<1>3. booking \in [Booking -> BookingStatus]
  BY DEF IInv, TablesOK
<1>4. CASE \E b \in Booking : MarkCompletedBookings(b)
  <2>1. PICK b \in Booking : MarkCompletedBookings(b)
    BY <1>4
  <2>2. PICK S : S = {b}
    OBVIOUS
  <2>3. booking' = [c \in Booking |-> IF c \in S THEN "completed" ELSE booking[c]]
    BY <1>3, <2>1, <2>2 DEF MarkCompletedBookings
  <2>4. \A c \in S : booking[c] = "confirmed"
    BY <2>1, <2>2 DEF MarkCompletedBookings
  <2>5. Refines
    BY <1>1, <1>2, <2>2, <2>3, <2>4, Changes
  <2>6. Absent' = Absent
    BY <2>3, <2>4 DEF Absent
  <2>7. BookInv'
    BY <1>1, <2>6 DEF BookInv, Booker
  <2> QED
    BY <2>5, <2>7
<1>5. CASE booking' = booking
  <2>1. BookInv'
    BY <1>1, <1>5 DEF BookInv, Booker, Absent
  <2> QED
    BY <1>1, <1>2, <1>5, <2>1, Stutters
<1> QED
  BY <1>4, <1>5 DEF vars, tables, AgeBooking, PassDeadline, Pays, ExpireLock

-----------------------------------------------------------------------------
(* Theorem *)

LEMMA StepRefines ==
  ASSUME IInv, BookInv, [Next]_vars
  PROVE  BookInv' /\ Refines
<1>1. ASSUME NEW r \in Request,
             \/ \E b \in Booking :
                  \/ CreateBooking(r, b) \/ CancelBooking(r, b)
                  \/ CreatePayment(r, b) \/ GetBookingPayment(r, b)
             \/ \E p \in Payment :
                  SettleCallback(r, p) \/ GetPayment(r, p) \/ CancelPayment(r, p)
             \/ Reconcile(r)
      PROVE  BookInv' /\ Refines
  <2>1. CASE \/ \E b \in Booking : GetBookingPayment(r, b)
             \/ \E p \in Payment : GetPayment(r, p) \/ CancelPayment(r, p)
    <3>1. \E p \in Payment : \E o : EnsureCurrentStatus(r, p, o)
      BY <2>1 DEF GetBookingPayment, GetPayment, CancelPayment, LatestPending, PendingOf
    <3> QED
      BY <3>1, BeginsUnseen
  <2> QED
    BY <1>1, <2>1, BeginsUnseen
<1>2. ASSUME NEW r \in Request, Step(r) PROVE BookInv' /\ Refines
  BY <1>2, StepsUnseen, InsertBookingsSeen, CancelsSeen, InsertPaymentSeen, TicketFailsSeen,
     DecideSeen, UpdateBookingSeen, ReleaseSeen DEF Step
<1>3. ASSUME NEW r \in Request, Abandon(r) PROVE BookInv' /\ Refines
  BY <1>3, AbandonSeen
<1> QED
  BY <1>1, <1>2, <1>3, OutsideSeen DEF Next

\* Payments implements PaymentOutcome: a payment is decided once, and its
\* outcome reaches the bookings through the request that decided it alone.
THEOREM Refinement == Spec => ImplementsOutcome
<1>1. Init => Outcome!Init
  <2> SUFFICES ASSUME Init PROVE Outcome!Init
    OBVIOUS
  <2>1. \A p \in Payment : {q \in Request : Applying(q, p)} = {}
    BY DEF Init, IdleCall, Applying
  <2> QED
    BY <2>1 DEF Init, Outcome!Init
<1>2. IInv /\ BookInv /\ [Next]_vars => BookInv' /\ [Outcome!Next]_(Outcome!vars)
  BY StepRefines DEF Refines
<1> QED
  BY <1>1, <1>2, BookInitially, Invariance, PTL DEF Spec, ImplementsOutcome, Outcome!Spec

-----------------------------------------------------------------------------
(* What has been paid for is confirmed, booking by booking, when nothing     *)
(* fails and nobody cancels                                                *)

\* Request r has still to write booking b.
ToCome(r, b) == b \in call[r].todo /\ (At(r, "release") => b # Current(r))

Confirmed(b) == booking[b] \in {"confirmed", "completed"}

\* A booking whose only payment is a success is confirmed, or the request that
\* decided the payment has it to do; no request is about to cancel one.
PaidInv ==
  /\ \A r \in Request : call[r].pc # "userCancel"
  /\ \A b \in Booking, p \in Payment :
       PaymentsOf(b) = {p} /\ status[p] = "success" /\ ~Confirmed(b) =>
         \E r \in Request : Applying(r, p) /\ ToCome(r, b)

LEMMA PaidIsConfirmed == IInv /\ PaidInv => PayerGetsGroup
BY DEF PaidInv, PayerGetsGroup, Confirmed

LEMMA PaidInitially == Init => PaidInv
<1> SUFFICES ASSUME Init PROVE PaidInv
  OBVIOUS
<1>1. \A r \in Request : call[r].pc = "idle"
  BY DEF Init, IdleCall
<1>2. \A p \in Payment : status[p] = "absent"
  BY DEF Init
<1> QED
  BY <1>1, <1>2 DEF PaidInv

LEMMA CurrentIsToDo ==
  ASSUME NEW r \in Request, call[r].todo # {}
  PROVE  Current(r) \in call[r].todo
BY DEF Current

LEMMA CurrentStays ==
  ASSUME NEW r \in Request, call'[r].todo = call[r].todo, call'[r].bk = call[r].bk
  PROVE  Current(r)' = Current(r)
BY DEF Current

\* Payments keep their bookings, so the payments of a booking become more only.
LEMMA OnlyPayment ==
  ASSUME \A p \in Payment : status[p] # "absent" => status'[p] # "absent" /\ target'[p] = target[p],
         NEW b \in Booking, NEW p \in Payment, PaymentsOf(b)' = {p}, status[p] # "absent"
  PROVE  PaymentsOf(b) = {p}
<1>1. \A q \in PaymentsOf(b) : q \in PaymentsOf(b)'
  BY DEF PaymentsOf
<1>2. p \in PaymentsOf(b)
  BY DEF PaymentsOf
<1> QED
  BY <1>1, <1>2

\* A step of a request that applies no outcome before it, takes no booking that
\* is paid for and makes no payment a success.
LEMMA PaidMoves ==
  ASSUME PaidInv, NEW r \in Request,
         \A q \in Request \ {r} : call'[q] = call[q],
         call[r].pc \notin {"update", "release"}, call'[r].pc # "userCancel",
         \A b \in Booking : Confirmed(b) => Confirmed(b)',
         \A p \in Payment : status[p] # "absent" => status'[p] # "absent" /\ target'[p] = target[p],
         \A p \in Payment : status'[p] = "success" => status[p] = "success"
  PROVE  PaidInv'
<1>1. \A q \in Request : call'[q].pc # "userCancel"
  BY DEF PaidInv
<1>2. ASSUME NEW b \in Booking, NEW p \in Payment,
             PaymentsOf(b)' = {p}, status'[p] = "success", ~Confirmed(b)'
      PROVE  \E q \in Request : Applying(q, p)' /\ ToCome(q, b)'
  <2>1. status[p] = "success" /\ ~Confirmed(b)
    BY <1>2
  <2>2. PaymentsOf(b) = {p}
    BY <1>2, <2>1, OnlyPayment
  <2>3. PICK q \in Request : Applying(q, p) /\ ToCome(q, b)
    BY <2>1, <2>2 DEF PaidInv
  <2>4. q # r
    BY <2>3 DEF Applying
  <2>5. call'[q] = call[q]
    BY <2>4
  <2>6. Applying(q, p)'
    BY <2>3, <2>5 DEF Applying
  <2>7. Current(q)' = Current(q)
    BY <2>5, CurrentStays
  <2>8. ToCome(q, b)'
    BY <2>3, <2>5, <2>7 DEF ToCome, At
  <2> QED
    BY <2>6, <2>8
<1> QED
  BY <1>1, <1>2 DEF PaidInv

\* Most steps change neither bookings nor payments.
LEMMA PaidQuiet ==
  ASSUME PaidInv, NEW r \in Request,
         \A q \in Request \ {r} : call'[q] = call[q],
         call[r].pc \notin {"update", "release"}, call'[r].pc # "userCancel",
         UNCHANGED <<booking, status, target>>
  PROVE  PaidInv'
<1>1. \A b \in Booking : Confirmed(b) => Confirmed(b)'
  BY DEF Confirmed
<1> QED
  BY <1>1, PaidMoves

\* Where the steps of a call lead.
LEMMA Leads ==
  ASSUME IInv, NEW r \in Request
  PROVE  /\ \A c : Becomes(r, c) => call'[r] = c /\ \A q \in Request \ {r} : call'[q] = call[q]
         /\ \A l : Goto(r, l) => \E c : Becomes(r, c) /\ c.pc = l
         /\ Return(r) => \E c : Becomes(r, c) /\ c.pc = "idle"
         /\ \A b : EnsureReturns(r, b) => \E c : Becomes(r, c) /\ c.pc \in {"decide", "next", "idle"}
         /\ \A S : Locking(r, S) => \E c : Becomes(r, c) /\ c.pc \in {"lock", "insert"}
         /\ \A S, l, last : Continue(r, S, l, last) => \E c : Becomes(r, c) /\ c.pc \in {l, last, "idle"}
<1>0. call \in [Request -> Call] /\ call[r] \in Call
  BY DEF IInv, CallsOK
<1>1. ASSUME NEW c, Becomes(r, c)
      PROVE  call'[r] = c /\ \A q \in Request \ {r} : call'[q] = call[q]
  BY <1>0, <1>1 DEF Becomes
<1>2. ASSUME NEW l, Goto(r, l) PROVE \E c : Becomes(r, c) /\ c.pc = l
  <2>1. PICK c : c = [call[r] EXCEPT !.pc = l]
    OBVIOUS
  <2>2. c.pc = l
    BY <1>0, <2>1 DEF Call
  <2>3. Becomes(r, c)
    BY <1>2, <2>1 DEF Goto
  <2> QED
    BY <2>2, <2>3
<1>3. ASSUME Return(r) PROVE \E c : Becomes(r, c) /\ c.pc = "idle"
  BY <1>3, IdleIsCall DEF Return
<1>4. ASSUME NEW b, EnsureReturns(r, b)
      PROVE  \E c : Becomes(r, c) /\ c.pc \in {"decide", "next", "idle"}
  <2>1. PICK c : /\ Becomes(r, c)
                 /\ \/ c = [call[r] EXCEPT !.pc = "decide", !.out = "failed"]
                    \/ c = [IdleCall EXCEPT !.op = "reconcile", !.pc = "next", !.queue = call[r].queue]
                    \/ c = IdleCall
    BY <1>4 DEF EnsureReturns, Becomes
  <2>2. CASE c = [call[r] EXCEPT !.pc = "decide", !.out = "failed"]
    BY <1>0, <2>1, <2>2 DEF Call
  <2>3. CASE c = [IdleCall EXCEPT !.op = "reconcile", !.pc = "next", !.queue = call[r].queue]
    BY <2>1, <2>3 DEF IdleCall
  <2>4. CASE c = IdleCall
    BY <2>1, <2>4, IdleIsCall
  <2> QED
    BY <2>1, <2>2, <2>3, <2>4
<1>5. ASSUME NEW S, Locking(r, S) PROVE \E c : Becomes(r, c) /\ c.pc \in {"lock", "insert"}
  <2>1. PICK l \in {"insert", "lock"} :
          Becomes(r, [call[r] EXCEPT !.pc = l, !.slots = S, !.todo = S])
    BY <1>5 DEF Locking, Becomes
  <2>2. PICK c : c = [call[r] EXCEPT !.pc = l, !.slots = S, !.todo = S]
    OBVIOUS
  <2>3. Becomes(r, c) /\ c.pc = l
    BY <1>0, <2>1, <2>2 DEF Call
  <2> QED
    BY <2>3
<1>6. ASSUME NEW S, NEW l, NEW last, Continue(r, S, l, last)
      PROVE  \E c : Becomes(r, c) /\ c.pc \in {l, last, "idle"}
  <2>1. PICK c : /\ Becomes(r, c)
                 /\ \/ c = [call[r] EXCEPT !.todo = S, !.pc = l]
                    \/ c = IdleCall
                    \/ c = [call[r] EXCEPT !.todo = {}, !.pc = last]
    BY <1>6 DEF Continue, Becomes
  <2>2. CASE c = [call[r] EXCEPT !.todo = S, !.pc = l]
    BY <1>0, <2>1, <2>2 DEF Call
  <2>3. CASE c = IdleCall
    BY <2>1, <2>3, IdleIsCall
  <2>4. CASE c = [call[r] EXCEPT !.todo = {}, !.pc = last]
    BY <1>0, <2>1, <2>4 DEF Call
  <2> QED
    BY <2>1, <2>2, <2>3, <2>4
<1> QED
  BY <1>1, <1>2, <1>3, <1>4, <1>5, <1>6

\* An operation that begins leaves bookings and payments alone; that of a
\* cancelled booking is not begun.
LEMMA PaidBegins ==
  ASSUME IInv, PaidInv, "userCancel" \notin Ops, NEW r \in Request,
         \/ \E b \in Booking :
              CreateBooking(r, b) \/ CancelBooking(r, b) \/ CreatePayment(r, b)
         \/ \E p \in Payment : SettleCallback(r, p) \/ \E o : EnsureCurrentStatus(r, p, o)
         \/ Reconcile(r)
  PROVE  PaidInv'
<1>1. UNCHANGED <<booking, status, target>>
  BY DEF CreateBooking, CancelBooking, CreatePayment, SettleCallback, EnsureCurrentStatus,
         Reconcile, tables
<1>2. PICK o, c : Begin(r, o, c) /\ c \in Call /\ c.pc # "userCancel"
  <2>1. CASE \E b \in Booking : CreateBooking(r, b)
    <3>1. PICK b \in Booking : CreateBooking(r, b)
      BY <2>1
    <3>2. PICK c : c = [IdleCall EXCEPT !.pc = "bookCheck", !.bk = b, !.todo = GroupOf[b]]
      OBVIOUS
    <3>3. c \in Call /\ c.pc = "bookCheck"
      BY <3>2, IdleIsCall, BookingAssumption DEF IdleCall, Call, Label
    <3> QED
      BY <3>1, <3>2, <3>3 DEF CreateBooking
  <2>2. CASE \E b \in Booking : CancelBooking(r, b)
    BY <2>2 DEF CancelBooking, Begin
  <2>3. CASE \E b \in Booking : CreatePayment(r, b)
    <3>1. PICK b \in Booking : CreatePayment(r, b)
      BY <2>3
    <3>2. PICK c : c = [IdleCall EXCEPT !.pc = "find", !.bk = b]
      OBVIOUS
    <3>3. c \in Call /\ c.pc = "find"
      BY <3>2, IdleIsCall DEF IdleCall, Call, Label
    <3> QED
      BY <3>1, <3>2, <3>3 DEF CreatePayment
  <2>4. CASE \E p \in Payment : SettleCallback(r, p)
    <3>1. PICK p \in Payment : SettleCallback(r, p)
      BY <2>4
    <3>2. PICK o, c : /\ c = [IdleCall EXCEPT !.pc = "decide", !.pay = p, !.out = o]
                      /\ Begin(r, "callback", c) /\ o \in Terminal
      BY <3>1 DEF SettleCallback, Terminal
    <3>3. c \in Call /\ c.pc = "decide"
      BY <3>2, IdleIsCall DEF IdleCall, Call, Label
    <3> QED
      BY <3>2, <3>3
  <2>5. CASE \E p \in Payment : \E o : EnsureCurrentStatus(r, p, o)
    <3>1. PICK p \in Payment, o \in Ops : EnsureCurrentStatus(r, p, o)
      BY <2>5 DEF EnsureCurrentStatus, Begin
    <3>2. PICK c : c = [IdleCall EXCEPT !.pc = "query", !.pay = p]
      OBVIOUS
    <3>3. c \in Call /\ c.pc = "query"
      BY <3>2, IdleIsCall DEF IdleCall, Call, Label
    <3> QED
      BY <3>1, <3>2, <3>3 DEF EnsureCurrentStatus
  <2>6. CASE Reconcile(r)
    <3>1. PICK c : c = [IdleCall EXCEPT !.pc = "next", !.queue = FindPendingPayments]
      OBVIOUS
    <3>2. c \in Call /\ c.pc = "next"
      BY <3>1, IdleIsCall DEF IdleCall, Call, Label, FindPendingPayments
    <3> QED
      BY <2>6, <3>1, <3>2 DEF Reconcile
  <2> QED
    BY <2>1, <2>2, <2>3, <2>4, <2>5, <2>6
<1>3. PICK d : d = [c EXCEPT !.op = o]
  OBVIOUS
<1>4. d.pc = c.pc
  BY <1>2, <1>3 DEF Call
<1>5. Becomes(r, d) /\ call[r].pc = "idle"
  BY <1>2, <1>3 DEF Begin, At
<1> QED
  BY <1>1, <1>2, <1>4, <1>5, Leads, PaidQuiet

LEMMA PaidQuietSteps ==
  ASSUME IInv, PaidInv, NEW r \in Request,
         \/ CheckOverlap(r) \/ FindPending(r) \/ FindPendingFails(r) \/ LockSlot(r)
         \/ Rollback(r) \/ Unlock(r) \/ InsertFails(r) \/ CreateTicket(r)
         \/ CreateOrder(r) \/ OrderFails(r) \/ ReconcileNext(r)
         \/ QueryOrder(r) \/ CheckExpiry(r) \/ LoseDecision(r)
  PROVE  PaidInv'
<1>1. /\ call[r] \in Call /\ UNCHANGED <<booking, status, target>>
      /\ call[r].pc \notin {"update", "release"}
  BY DEF IInv, CallsOK, CheckOverlap, FindPending, FindPendingFails, LockSlot, Rollback, Unlock,
         InsertFails, CreateTicket, CreateOrder, OrderFails, ReconcileNext, QueryOrder,
         CheckExpiry, LoseDecision, At, tables
<1>2. ASSUME NEW c, Becomes(r, c), c.pc # "userCancel" PROVE PaidInv'
  BY <1>1, <1>2, Leads, PaidQuiet
<1>3. ASSUME \/ \E l \in {"order", "expiry"} : Goto(r, l)
             \/ Return(r)
             \/ \E b : EnsureReturns(r, b)
             \/ \E S : Locking(r, S)
             \/ \E S : \E l, last \in Label \ {"userCancel"} : Continue(r, S, l, last)
      PROVE  PaidInv'
  <2>1. PICK c : Becomes(r, c) /\ c.pc # "userCancel"
    BY <1>3, Leads
  <2> QED
    BY <1>2, <2>1
<1>4. ASSUME NEW c, Becomes(r, c),
             \/ \E p : c = [call[r] EXCEPT !.pc = "query", !.pay = p]
             \/ \E p, s : c = [call[r] EXCEPT !.pc = "query", !.pay = p, !.queue = s]
             \/ \E o : c = [call[r] EXCEPT !.pc = "decide", !.out = o]
             \/ \E o : c = [call[r] EXCEPT !.pc = "expiry", !.out = o]
      PROVE  PaidInv'
  <2>1. c.pc # "userCancel"
    BY <1>1, <1>4 DEF Call
  <2> QED
    BY <1>2, <1>4, <2>1
<1>5. CASE CheckOverlap(r)
  BY <1>3, <1>5 DEF CheckOverlap, Label
<1>6. CASE FindPending(r)
  <2>1. CASE \E p \in LatestPending(call[r].bk) :
               Becomes(r, [call[r] EXCEPT !.pc = "query", !.pay = p])
    <3>1. PICK p : Becomes(r, [call[r] EXCEPT !.pc = "query", !.pay = p])
      BY <2>1
    <3>2. PICK c : c = [call[r] EXCEPT !.pc = "query", !.pay = p]
      OBVIOUS
    <3> QED
      BY <1>4, <3>1, <3>2
  <2> QED
    BY <1>3, <1>6, <2>1 DEF FindPending
<1>7. CASE FindPendingFails(r)
  BY <1>3, <1>7 DEF FindPendingFails
<1>8. CASE LockSlot(r) \/ Rollback(r) \/ Unlock(r)
  BY <1>3, <1>8 DEF LockSlot, Rollback, Unlock, Label
<1>9. CASE InsertFails(r) \/ OrderFails(r)
  BY <1>3, <1>9 DEF InsertFails, OrderFails, Unlocking, Label
<1>10. CASE CreateTicket(r) \/ CreateOrder(r)
  BY <1>3, <1>10 DEF CreateTicket, CreateOrder
<1>11. CASE ReconcileNext(r)
  <2>1. PICK p, c : /\ c = [call[r] EXCEPT !.pc = "query", !.pay = p, !.queue = @ \ {p}]
                    /\ Becomes(r, c)
    BY <1>11 DEF ReconcileNext
  <2>2. \E s : c = [call[r] EXCEPT !.pc = "query", !.pay = p, !.queue = s]
    BY <1>1, <2>1 DEF Call
  <2> QED
    BY <1>4, <2>1, <2>2
<1>12. CASE QueryOrder(r)
  <2>1. CASE Becomes(r, [call[r] EXCEPT !.pc = "decide", !.out = "success"])
    <3>1. PICK c : c = [call[r] EXCEPT !.pc = "decide", !.out = "success"]
      OBVIOUS
    <3> QED
      BY <1>4, <2>1, <3>1
  <2> QED
    BY <1>3, <1>12, <2>1 DEF QueryOrder
<1>13. CASE CheckExpiry(r)
  <2>1. CASE Becomes(r, [call[r] EXCEPT !.pc = "decide", !.out = "expired"])
    <3>1. PICK c : c = [call[r] EXCEPT !.pc = "decide", !.out = "expired"]
      OBVIOUS
    <3> QED
      BY <1>4, <2>1, <3>1
  <2> QED
    BY <1>3, <1>13, <2>1 DEF CheckExpiry
<1>14. CASE LoseDecision(r)
  <2>1. CASE Becomes(r, [call[r] EXCEPT !.pc = "expiry", !.out = None])
    <3>1. PICK c : c = [call[r] EXCEPT !.pc = "expiry", !.out = None]
      OBVIOUS
    <3> QED
      BY <1>4, <2>1, <3>1
  <2> QED
    BY <1>3, <1>14, <2>1 DEF LoseDecision
<1> QED
  BY <1>5, <1>6, <1>7, <1>8, <1>9, <1>10, <1>11, <1>12, <1>13, <1>14

\* Bookings are inserted that were not there, and expire while they are pending.
LEMMA PaidTableSteps ==
  ASSUME IInv, BookInv, PaidInv, NEW r \in Request,
         \/ InsertBookings(r) \/ WriteCancelled(r) \/ MarkExpiredPendingBookings(r)
         \/ InsertPayment(r) \/ TicketFails(r)
  PROVE  PaidInv'
<1>1. /\ call \in [Request -> Call] /\ call[r] \in Call /\ booking \in [Booking -> BookingStatus]
      /\ status \in [Payment -> PaymentStatus] /\ target \in [Payment -> Booking \cup {None}]
  BY DEF IInv, TablesOK, CallsOK
<1>2. ~WriteCancelled(r)
  BY DEF PaidInv, WriteCancelled, At
<1>3. CASE InsertBookings(r)
  <2>1. Booker(r) /\ call[r].bk \in Absent /\ call[r].bk \in Booking
    BY <1>3 DEF InsertBookings, At, BookInv, Booker, Absent
  <2>2. \A b \in GroupOf[call[r].bk] : booking[b] = "absent"
    BY <2>1, BookingAssumption DEF BookInv, Absent
  <2>3. \A b \in Booking : Confirmed(b) => Confirmed(b)'
    BY <1>3, <2>2 DEF InsertBookings, Confirmed
  <2>4. /\ call'[r].pc = "idle" /\ \A q \in Request \ {r} : call'[q] = call[q]
        /\ call[r].pc \notin {"update", "release"}
    BY <1>3, Leads DEF InsertBookings, At
  <2>5. UNCHANGED <<status, target>>
    BY <1>3 DEF InsertBookings
  <2> QED
    BY <2>3, <2>4, <2>5, PaidMoves
<1>4. CASE MarkExpiredPendingBookings(r)
  <2>1. \A b \in Booking : Confirmed(b) => Confirmed(b)'
    BY <1>4 DEF MarkExpiredPendingBookings, Confirmed
  <2>2. /\ call'[r].pc = "idle" /\ \A q \in Request \ {r} : call'[q] = call[q]
        /\ call[r].pc \notin {"update", "release"}
    BY <1>4, Leads DEF MarkExpiredPendingBookings, At
  <2>3. UNCHANGED <<status, target>>
    BY <1>4 DEF MarkExpiredPendingBookings
  <2> QED
    BY <2>1, <2>2, <2>3, PaidMoves
<1>5. CASE InsertPayment(r)
  <2>1. PICK p \in Payment :
          /\ status[p] = "absent" /\ status' = [status EXCEPT ![p] = "pending"]
          /\ target' = [target EXCEPT ![p] = call[r].bk]
          /\ Becomes(r, [call[r] EXCEPT !.pc = "ticket", !.pay = p])
    BY <1>5 DEF InsertPayment
  <2>2. PICK c : c = [call[r] EXCEPT !.pc = "ticket", !.pay = p]
    OBVIOUS
  <2>3. Becomes(r, c) /\ c.pc = "ticket"
    BY <1>1, <2>1, <2>2 DEF Call
  <2>6. /\ call'[r].pc = "ticket" /\ \A q \in Request \ {r} : call'[q] = call[q]
        /\ call[r].pc \notin {"update", "release"}
    BY <1>5, <2>3, Leads DEF InsertPayment, At
  <2>4. ASSUME NEW q \in Payment
        PROVE  /\ status[q] # "absent" => status'[q] # "absent" /\ target'[q] = target[q]
               /\ status'[q] = "success" => status[q] = "success"
    <3>1. CASE q = p
      BY <1>1, <2>1, <3>1
    <3>2. CASE q # p
      BY <1>1, <2>1, <3>2
    <3> QED
      BY <3>1, <3>2
  <2>5. \A b \in Booking : Confirmed(b) => Confirmed(b)'
    BY <1>5 DEF InsertPayment, Confirmed
  <2> QED
    BY <2>4, <2>5, <2>6, PaidMoves
<1>6. CASE TicketFails(r)
  <2>1. ASSUME NEW q \in Payment
        PROVE  \/ status'[q] = status[q]
               \/ status[q] = "pending" /\ status'[q] = "failed"
    <3>1. PICK p : status' = [status EXCEPT ![p] = IF @ = "pending" THEN "failed" ELSE @]
      BY <1>6 DEF TicketFails
    <3> QED
      BY <1>1, <3>1
  <2>2. \E S : Continue(r, S, "unlock", "idle")
    BY <1>6 DEF TicketFails, Unlocking
  <2>3. /\ call'[r].pc \in {"unlock", "idle"} /\ \A q \in Request \ {r} : call'[q] = call[q]
        /\ call[r].pc \notin {"update", "release"}
    BY <1>6, <2>2, Leads DEF TicketFails, At
  <2>4. /\ \A q \in Payment : status[q] # "absent" => status'[q] # "absent" /\ target'[q] = target[q]
        /\ \A q \in Payment : status'[q] = "success" => status[q] = "success"
    BY <1>6, <2>1 DEF TicketFails
  <2>5. \A b \in Booking : Confirmed(b) => Confirmed(b)'
    BY <1>6 DEF TicketFails, Confirmed
  <2> QED
    BY <2>3, <2>4, <2>5, PaidMoves
<1> QED
  BY <1>2, <1>3, <1>4, <1>5, <1>6

\* With its decision a request takes on every booking of the group.
LEMMA PaidDecide ==
  ASSUME IInv, PaidInv, NEW r \in Request, Decide(r)
  PROVE  PaidInv'
<1>1. /\ call[r] \in Call /\ call[r].pay \in Payment /\ call[r].pc = "decide"
      /\ status \in [Payment -> PaymentStatus] /\ call[r].out \in Terminal
  BY DEF IInv, TablesOK, CallsOK, CallOK, Decide, At
<1>2. PICK p, c :
        /\ p = call[r].pay /\ status[p] = "pending" /\ status' = [status EXCEPT ![p] = call[r].out]
        /\ c = [call[r] EXCEPT !.pc = "update", !.bk = target[p], !.todo = GroupOf[target[p]]]
        /\ Becomes(r, c) /\ UNCHANGED <<booking, target>>
  BY DEF Decide
<1>3. c.pc = "update" /\ c.pay = p /\ c.todo = GroupOf[target[p]]
  BY <1>1, <1>2 DEF Call
<1>4. call'[r] = c /\ \A q \in Request \ {r} : call'[q] = call[q]
  BY <1>2, Leads
<1>5. \A q \in Request : call'[q].pc # "userCancel"
  BY <1>3, <1>4 DEF PaidInv
<1>6. ASSUME NEW b \in Booking, NEW s \in Payment,
             PaymentsOf(b)' = {s}, status'[s] = "success", ~Confirmed(b)'
      PROVE  \E q \in Request : Applying(q, s)' /\ ToCome(q, b)'
  <2>1. status[s] # "absent" /\ PaymentsOf(b) = {s}
    <3>1. \A q \in Payment : status[q] # "absent" <=> status'[q] # "absent"
      BY <1>1, <1>2 DEF Terminal
    <3> QED
      BY <1>2, <1>6, <3>1, OnlyPayment
  <2>2. CASE s = p
    <3>1. b \in call'[r].todo
      BY <1>2, <1>3, <1>4, <2>1, <2>2 DEF PaymentsOf
    <3> QED
      BY <1>3, <1>4, <2>2, <3>1 DEF Applying, ToCome, At
  <2>3. CASE s # p
    <3>1. status[s] = "success" /\ ~Confirmed(b)
      BY <1>1, <1>2, <1>6, <2>3 DEF Confirmed
    <3>2. PICK q \in Request : Applying(q, s) /\ ToCome(q, b)
      BY <2>1, <3>1 DEF PaidInv
    <3>3. call'[q] = call[q]
      BY <1>1, <1>4, <3>2 DEF Applying
    <3>4. Current(q)' = Current(q)
      BY <3>3, CurrentStays
    <3> QED
      BY <3>2, <3>3, <3>4 DEF Applying, ToCome, At
  <2> QED
    BY <2>2, <2>3
<1> QED
  BY <1>5, <1>6 DEF PaidInv

\* The booking written is confirmed; one that another payment pays for is not
\* written.
LEMMA PaidUpdate ==
  ASSUME IInv, PaidInv, MaxFaults = 0, NEW r \in Request, UpdateBooking(r)
  PROVE  PaidInv'
<1>1. /\ call[r] \in Call /\ call[r].pay \in Payment /\ call[r].pc = "update"
      /\ call[r].todo # {} /\ call[r].todo \subseteq GroupOf[call[r].bk]
      /\ call[r].bk = target[call[r].pay] /\ call[r].out = status[call[r].pay]
      /\ status[call[r].pay] \in Terminal /\ booking \in [Booking -> BookingStatus]
  BY DEF IInv, TablesOK, CallsOK, CallOK, UpdateBooking, At
<1>2. PICK p, d, c :
        /\ p = call[r].pay /\ d = Current(r)
        /\ booking' = [booking EXCEPT ![d] = SideEffect(call[r].out)]
        /\ c = [call[r] EXCEPT !.pc = "release"] /\ Becomes(r, c) /\ UNCHANGED <<status, target>>
  BY <1>1, NoFault DEF UpdateBooking, Goto
<1>3. c.pc = "release" /\ c.pay = p /\ c.todo = call[r].todo /\ c.bk = call[r].bk
  BY <1>1, <1>2 DEF Call
<1>4. call'[r] = c /\ \A q \in Request \ {r} : call'[q] = call[q]
  BY <1>2, Leads
<1>5. \A q \in Request : call'[q].pc # "userCancel"
  BY <1>3, <1>4 DEF PaidInv
<1>6. d \in GroupOf[target[p]] /\ Current(r)' = d
  BY <1>1, <1>2, <1>3, <1>4, CurrentIsToDo, CurrentStays
<1>7. ASSUME NEW b \in Booking, NEW s \in Payment,
             PaymentsOf(b)' = {s}, status'[s] = "success", ~Confirmed(b)'
      PROVE  \E q \in Request : Applying(q, s)' /\ ToCome(q, b)'
  <2>1. PaymentsOf(b) = {s} /\ status[s] = "success"
    BY <1>2, <1>7 DEF PaymentsOf
  <2>2. b # d
    <3>1. ASSUME b = d PROVE FALSE
      <4>1. p \in PaymentsOf(b)
        BY <1>1, <1>2, <1>6, <3>1 DEF PaymentsOf, Terminal
      <4>2. call[r].out = "success"
        BY <1>1, <1>2, <2>1, <4>1
      <4>3. booking'[b] = "confirmed"
        BY <1>1, <1>2, <3>1, <4>2 DEF SideEffect
      <4> QED
        BY <1>7, <4>3 DEF Confirmed
    <3> QED
      BY <3>1
  <2>3. ~Confirmed(b)
    BY <1>1, <1>2, <1>7, <2>2 DEF Confirmed
  <2>4. PICK q \in Request : Applying(q, s) /\ ToCome(q, b)
    BY <2>1, <2>3 DEF PaidInv
  <2>5. CASE q = r
    <3>1. s = p /\ b \in call'[r].todo
      BY <1>2, <1>3, <1>4, <2>4, <2>5 DEF Applying, ToCome
    <3>2. Applying(r, s)' /\ ToCome(r, b)'
      BY <1>3, <1>4, <1>6, <2>2, <3>1 DEF Applying, ToCome, At
    <3> QED
      BY <3>2
  <2>6. CASE q # r
    <3>1. call'[q] = call[q]
      BY <1>4, <2>6
    <3>2. Current(q)' = Current(q)
      BY <3>1, CurrentStays
    <3>3. Applying(q, s)' /\ ToCome(q, b)'
      BY <2>4, <3>1, <3>2 DEF Applying, ToCome, At
    <3> QED
      BY <3>3
  <2> QED
    BY <2>5, <2>6
<1> QED
  BY <1>5, <1>7 DEF PaidInv

\* The booking released has been written already.
LEMMA PaidRelease ==
  ASSUME IInv, PaidInv, NEW r \in Request, ReleaseBookingLock(r)
  PROVE  PaidInv'
<1>1. /\ call[r] \in Call /\ call[r].pc = "release" /\ UNCHANGED <<booking, status, target>>
  BY DEF IInv, CallsOK, ReleaseBookingLock, At
<1>2. PICK rest : rest = call[r].todo \ {Current(r)}
  OBVIOUS
<1>3. PICK c : /\ Becomes(r, c) /\ c.pc # "userCancel"
               /\ rest # {} => c.pc = "update" /\ c.pay = call[r].pay /\ c.todo = rest
  <2>1. CASE rest = {}
    BY <1>2, <2>1, Leads DEF ReleaseBookingLock
  <2>2. CASE rest # {}
    <3>1. PICK c : c = [call[r] EXCEPT !.pc = "update", !.todo = rest]
      OBVIOUS
    <3>2. c.pc = "update" /\ c.pay = call[r].pay /\ c.todo = rest
      BY <1>1, <3>1 DEF Call
    <3>3. Becomes(r, c)
      BY <1>2, <2>2, <3>1 DEF ReleaseBookingLock
    <3> QED
      BY <3>2, <3>3
  <2> QED
    BY <2>1, <2>2
<1>4. call'[r] = c /\ \A q \in Request \ {r} : call'[q] = call[q]
  BY <1>3, Leads
<1>5. \A q \in Request : call'[q].pc # "userCancel"
  BY <1>3, <1>4 DEF PaidInv
<1>6. ASSUME NEW b \in Booking, NEW s \in Payment,
             PaymentsOf(b)' = {s}, status'[s] = "success", ~Confirmed(b)'
      PROVE  \E q \in Request : Applying(q, s)' /\ ToCome(q, b)'
  <2>1. PaymentsOf(b) = {s} /\ status[s] = "success" /\ ~Confirmed(b)
    BY <1>1, <1>6 DEF PaymentsOf, Confirmed
  <2>2. PICK q \in Request : Applying(q, s) /\ ToCome(q, b)
    BY <2>1 DEF PaidInv
  <2>3. CASE q = r
    <3>1. b \in rest /\ s = call[r].pay
      BY <1>1, <1>2, <2>2, <2>3 DEF Applying, ToCome, At
    <3>2. Applying(r, s)' /\ ToCome(r, b)'
      BY <1>3, <1>4, <3>1 DEF Applying, ToCome, At
    <3> QED
      BY <3>2
  <2>4. CASE q # r
    <3>1. call'[q] = call[q]
      BY <1>4, <2>4
    <3>2. Current(q)' = Current(q)
      BY <3>1, CurrentStays
    <3>3. Applying(q, s)' /\ ToCome(q, b)'
      BY <2>2, <3>1, <3>2 DEF Applying, ToCome, At
    <3> QED
      BY <3>3
  <2> QED
    BY <2>3, <2>4
<1> QED
  BY <1>5, <1>6 DEF PaidInv

LEMMA PaidOutside ==
  ASSUME IInv, PaidInv,
         \/ UNCHANGED vars
         \/ \E b \in Booking : AgeBooking(b) \/ MarkCompletedBookings(b)
         \/ \E p \in Payment : PassDeadline(p) \/ Pays(p)
         \/ \E s \in Slot : ExpireLock(s)
  PROVE  PaidInv'
<1>1. UNCHANGED <<call, status, target>>
  BY DEF vars, tables, AgeBooking, MarkCompletedBookings, PassDeadline, Pays, ExpireLock
<1>2. \A b \in Booking : Confirmed(b) => Confirmed(b)'
  BY DEF IInv, TablesOK, Confirmed, vars, tables, AgeBooking, MarkCompletedBookings,
         PassDeadline, Pays, ExpireLock
<1>3. ASSUME NEW b \in Booking, NEW p \in Payment,
             PaymentsOf(b)' = {p}, status'[p] = "success", ~Confirmed(b)'
      PROVE  \E q \in Request : Applying(q, p)' /\ ToCome(q, b)'
  <2>1. PaymentsOf(b) = {p} /\ status[p] = "success" /\ ~Confirmed(b)
    BY <1>1, <1>2, <1>3 DEF PaymentsOf
  <2>2. PICK q \in Request : Applying(q, p) /\ ToCome(q, b)
    BY <2>1 DEF PaidInv
  <2>3. Current(q)' = Current(q)
    BY <1>1, CurrentStays
  <2> QED
    BY <1>1, <2>2, <2>3 DEF Applying, ToCome, At
<1> QED
  BY <1>1, <1>3 DEF PaidInv

LEMMA PaidStep ==
  ASSUME MaxFaults = 0, "userCancel" \notin Ops, IInv, BookInv, PaidInv, [Next]_vars
  PROVE  PaidInv'
<1>1. ASSUME NEW r \in Request,
             \/ \E b \in Booking :
                  \/ CreateBooking(r, b) \/ CancelBooking(r, b)
                  \/ CreatePayment(r, b) \/ GetBookingPayment(r, b)
             \/ \E p \in Payment :
                  SettleCallback(r, p) \/ GetPayment(r, p) \/ CancelPayment(r, p)
             \/ Reconcile(r)
      PROVE  PaidInv'
  <2>1. CASE \/ \E b \in Booking : GetBookingPayment(r, b)
             \/ \E p \in Payment : GetPayment(r, p) \/ CancelPayment(r, p)
    <3>1. \E p \in Payment : \E o : EnsureCurrentStatus(r, p, o)
      BY <2>1 DEF GetBookingPayment, GetPayment, CancelPayment, LatestPending, PendingOf
    <3> QED
      BY <3>1, PaidBegins
  <2> QED
    BY <1>1, <2>1, PaidBegins
<1>2. ASSUME NEW r \in Request, Step(r) PROVE PaidInv'
  <2>1. CASE LookupFails(r)
    BY <2>1, NoFault DEF LookupFails
  <2> QED
    BY <1>2, <2>1, PaidQuietSteps, PaidTableSteps, PaidDecide, PaidUpdate, PaidRelease DEF Step
<1>3. ASSUME NEW r \in Request, Abandon(r) PROVE PaidInv'
  BY <1>3, NoFault DEF Abandon
<1> QED
  BY <1>1, <1>2, <1>3, PaidOutside DEF Next

\* When nothing fails and no customer cancels a booking, who pays in time for a
\* group, and has no second payment for it, gets every booking of the group.
THEOREM PayerIsServed ==
  ASSUME MaxFaults = 0, "userCancel" \notin Ops
  PROVE  Spec => []PayerGetsGroup
<1>1. IInv /\ BookInv /\ [Next]_vars => BookInv'
  BY StepRefines
<1>2. IInv /\ BookInv /\ PaidInv /\ [Next]_vars => PaidInv'
  BY PaidStep
<1>3. IInv /\ PaidInv => PayerGetsGroup
  BY PaidIsConfirmed
<1> QED
  BY <1>1, <1>2, <1>3, BookInitially, PaidInitially, Invariance, PTL DEF Spec

=============================================================================
