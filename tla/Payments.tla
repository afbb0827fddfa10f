------------------------------ MODULE Payments ------------------------------
(***************************************************************************)
(* Court bookings and the ZaloPay payments that pay for them: the bookings *)
(* and payments tables, the Redis slot locks, the orders at the gateway,   *)
(* and every call of PaymentService and of the booking half of             *)
(* AvailabilityService that changes them.                                  *)
(*                                                                         *)
(* A call is executed by a request: an HTTP handler, a websocket callback  *)
(* or a cron job of any server instance.  A request takes one step per     *)
(* database, Redis or gateway round trip, so the steps of several requests *)
(* interleave freely; requests share nothing but the tables and the locks. *)
(***************************************************************************)
EXTENDS Naturals, FiniteSets

CONSTANTS
  Payment,    \* payment identifiers, numbered in the order of their INSERTs
  Booking,    \* booking identifiers
  Slot,       \* keys of booking:lock: sub-court, date, start and end time
  Request,    \* concurrent calls, of all server instances
  SlotOf,     \* [Booking -> Slot]: the slot a booking asks for
  GroupOf,    \* [Booking -> SUBSET Booking]: the bookings of one group_id
  Ops,        \* the operations this instance exercises
  MaxFaults,  \* bound on failed round trips and abandoned requests
  None        \* no payment, no booking

Operation == {"book", "userCancel", "create", "callback", "get", "cancel",
              "reconcile"}

ASSUME PaymentAssumption == Payment \subseteq Nat /\ None \notin Payment
ASSUME BookingAssumption ==
  /\ None \notin Booking
  /\ SlotOf \in [Booking -> Slot]
  /\ GroupOf \in [Booking -> SUBSET Booking]
  /\ \A b \in Booking :
       b \in GroupOf[b] /\ \A c \in GroupOf[b] : GroupOf[c] = GroupOf[b]
ASSUME BoundAssumption == MaxFaults \in Nat /\ Ops \subseteq Operation

VARIABLES
  booking,  \* bookings.status, "absent" before the INSERT
  aged,     \* the booking was created more than PaymentValiditySeconds ago
  status,   \* payments.status, "absent" before the INSERT
  target,   \* payments.booking_id
  due,      \* the clock has reached ExpireAt(payment)
  order,    \* the order at the gateway
  lock,     \* Redis: booking:lock:<slot> -> booking id
  call,     \* the call each request executes and how far it has come
  faults    \* failures so far

tables == <<booking, aged, status, target, due, order, lock>>
vars == <<tables, call, faults>>

Terminal == {"success", "failed", "expired"}
BookingStatus == {"absent", "pending", "confirmed", "cancelled", "completed"}
PaymentStatus == {"absent", "pending"} \cup Terminal
OrderState == {"none", "open", "paid", "late"}
Label == {"idle", "bookCheck", "bookInsert", "userCancel", "find", "lock",
          "rollback", "insert", "ticket", "order", "unlock", "query",
          "expiry", "decide", "update", "release", "next"}

\* pc is the round trip the call makes next; slots the bookings whose slots it
\* locks; todo the bookings it still has to check, lock, unlock or update; out
\* the status it is about to give the payment, or has given it; queue the
\* reconciliation job's list.
Call == [op    : Operation \cup {None},
         pc    : Label,
         bk    : Booking \cup {None},
         pay   : Payment \cup {None},
         out   : Terminal \cup {None},
         slots : SUBSET Booking,
         todo  : SUBSET Booking,
         queue : SUBSET Payment]

IdleCall == [op |-> None, pc |-> "idle", bk |-> None, pay |-> None,
             out |-> None, slots |-> {}, todo |-> {}, queue |-> {}]

\* Tables, locks and calls have their types, failures included: a booking never
\* gets the status of a payment, whichever handler writes it.
TypeOK ==
  /\ booking \in [Booking -> BookingStatus]
  /\ aged \in [Booking -> BOOLEAN]
  /\ status \in [Payment -> PaymentStatus]
  /\ target \in [Payment -> Booking \cup {None}]
  /\ due \in [Payment -> BOOLEAN]
  /\ order \in [Payment -> OrderState]
  /\ lock \in [Slot -> Booking \cup {None}]
  /\ call \in [Request -> Call]
  /\ faults \in 0 .. MaxFaults

Init ==
  /\ booking = [b \in Booking |-> "absent"]
  /\ aged = [b \in Booking |-> FALSE]
  /\ status = [p \in Payment |-> "absent"]
  /\ target = [p \in Payment |-> None]
  /\ due = [p \in Payment |-> FALSE]
  /\ order = [p \in Payment |-> "none"]
  /\ lock = [s \in Slot |-> None]
  /\ call = [r \in Request |-> IdleCall]
  /\ faults = 0

-----------------------------------------------------------------------------
(* Helpers *)

At(r, l) == call[r].pc = l

Becomes(r, c) == call' = [call EXCEPT ![r] = c]

Goto(r, l) == Becomes(r, [call[r] EXCEPT !.pc = l])

Return(r) == Becomes(r, IdleCall)

\* The next round trip works on the bookings in S, or is the last one.
Continue(r, S, l, last) ==
  Becomes(r, IF S # {} THEN [call[r] EXCEPT !.todo = S, !.pc = l]
             ELSE IF last = "idle" THEN IdleCall
             ELSE [call[r] EXCEPT !.todo = {}, !.pc = last])

\* A request that is free takes up operation o; c gives its operands.
Begin(r, o, c) ==
  /\ o \in Ops
  /\ At(r, "idle")
  /\ Becomes(r, [c EXCEPT !.op = o])

Fault == faults < MaxFaults /\ faults' = faults + 1

PendingOf(b) == {p \in Payment : status[p] = "pending" /\ target[p] = b}

\* ORDER BY created_at DESC LIMIT 1
LatestPending(b) == {p \in PendingOf(b) : \A q \in PendingOf(b) : q <= p}

\* ReleaseSlotLock deletes the key only while booking b owns it.
Released(b) ==
  IF lock[SlotOf[b]] = b THEN [lock EXCEPT ![SlotOf[b]] = None] ELSE lock

\* EnsurePaymentCurrent returns to its caller: CancelPayment goes on when it
\* was told "pending", the reconciliation job takes its next payment, every
\* other caller only answers.
EnsureReturns(r, pending) ==
  Becomes(r,
    CASE call[r].op = "cancel" /\ pending -> [call[r] EXCEPT !.pc = "decide", !.out = "failed"]
      [] call[r].op = "reconcile"         -> [IdleCall EXCEPT !.op = "reconcile", !.pc = "next",
                                                              !.queue = call[r].queue]
      [] OTHER                            -> IdleCall)

-----------------------------------------------------------------------------
(* Time, the payer and the scheduler's MarkCompletedBookings *)

\* The 300 seconds after which MarkExpiredPendingBookings takes a booking; a
\* group is created by one transaction.
AgeBooking(b) ==
  /\ booking[b] # "absent" /\ ~aged[b]
  /\ aged' = [c \in Booking |-> aged[c] \/ c \in GroupOf[b]]
  /\ UNCHANGED <<booking, status, target, due, order, lock, call, faults>>

\* The 300 seconds of a payment: it is younger than its booking and than the
\* payments inserted before it.
PassDeadline(p) ==
  /\ status[p] # "absent" /\ ~due[p]
  /\ aged[target[p]] /\ \A q \in Payment : q < p => due[q]
  /\ due' = [due EXCEPT ![p] = TRUE]
  /\ UNCHANGED <<booking, aged, status, target, order, lock, call, faults>>

\* The order stays payable at the gateway for 300 seconds from its own,
\* later, creation: it can be paid after the payment's ExpireAt, and no call
\* of the code withdraws it.
Pays(p) ==
  /\ order[p] = "open"
  /\ order' = [order EXCEPT ![p] = IF due[p] THEN "late" ELSE "paid"]
  /\ UNCHANGED <<booking, aged, status, target, due, lock, call, faults>>

\* The TTL of a lock is 300 seconds too and starts one or two round trips
\* before the payment is inserted: it is taken to end with the payment's own
\* 300 seconds, and not while the request that set the lock is still at work.
ExpireLock(s) ==
  /\ lock[s] # None
  /\ aged[lock[s]]
  /\ \A p \in Payment :
       status[p] # "absent" /\ lock[s] \in GroupOf[target[p]] => due[p]
  /\ \A r \in Request :
       call[r].pc \in {"lock", "rollback", "insert", "ticket", "order", "unlock"}
         => lock[s] \notin call[r].slots
  /\ lock' = [lock EXCEPT ![s] = None]
  /\ UNCHANGED <<booking, aged, status, target, due, order, call, faults>>

MarkCompletedBookings(b) ==
  /\ booking[b] = "confirmed"
  /\ booking' = [booking EXCEPT ![b] = "completed"]
  /\ UNCHANGED <<aged, status, target, due, order, lock, call, faults>>

-----------------------------------------------------------------------------
(* AvailabilityService.CreateBooking and CancelBooking *)

CreateBooking(r, b) ==
  /\ Begin(r, "book", [IdleCall EXCEPT !.pc = "bookCheck", !.bk = b, !.todo = GroupOf[b]])
  /\ booking[b] = "absent"
  /\ \A q \in Request : call[q].op = "book" => b \notin GroupOf[call[q].bk]
  /\ UNCHANGED <<tables, faults>>

\* HasOverlappingBooking looks at confirmed bookings only.
CheckOverlap(r) ==
  /\ At(r, "bookCheck")
  /\ \E c \in call[r].todo :
       IF \E d \in Booking : SlotOf[d] = SlotOf[c] /\ booking[d] = "confirmed"
       THEN Return(r)
       ELSE Continue(r, call[r].todo \ {c}, "bookCheck", "bookInsert")
  /\ UNCHANGED <<tables, faults>>

\* One transaction inserts the whole group.
InsertBookings(r) ==
  /\ At(r, "bookInsert")
  /\ booking' = [c \in Booking |->
                   IF c \in GroupOf[call[r].bk] THEN "pending" ELSE booking[c]]
  /\ Return(r)
  /\ UNCHANGED <<aged, status, target, due, order, lock, faults>>

CancelBooking(r, b) ==
  /\ Begin(r, "userCancel", [IdleCall EXCEPT !.pc = "userCancel", !.bk = b])
  /\ booking[b] \notin {"absent", "cancelled", "completed"}
  /\ UNCHANGED <<tables, faults>>

\* The UPDATE does not look at the status again, and leaves the booking's
\* payment and locks alone.
WriteCancelled(r) ==
  /\ At(r, "userCancel")
  /\ booking' = [booking EXCEPT ![call[r].bk] = "cancelled"]
  /\ Return(r)
  /\ UNCHANGED <<aged, status, target, due, order, lock, faults>>

-----------------------------------------------------------------------------
(* PaymentService.CreatePayment *)

\* Bound: there is an identifier left for the payment a call may insert.
IdentifierLeft ==
  Cardinality({r \in Request : call[r].op = "create" /\ call[r].pay = None})
    < Cardinality({p \in Payment : status[p] = "absent"})

CreatePayment(r, b) ==
  /\ Begin(r, "create", [IdleCall EXCEPT !.pc = "find", !.bk = b])
  /\ booking[b] = "pending" /\ IdentifierLeft
  /\ UNCHANGED <<tables, faults>>

\* The request goes on to lock the slots of the bookings in S.
Locking(r, S) ==
  Becomes(r, [call[r] EXCEPT !.pc = IF S = {} THEN "insert" ELSE "lock",
                             !.slots = S, !.todo = S])

\* A pending payment of this booking is refreshed and offered again;
\* otherwise the slots of the whole group are locked.
FindPending(r) ==
  LET b == call[r].bk
  IN  /\ At(r, "find")
      /\ \/ \E p \in LatestPending(b) : Becomes(r, [call[r] EXCEPT !.pc = "query", !.pay = p])
         \/ PendingOf(b) = {} /\ Locking(r, GroupOf[b])
      /\ UNCHANGED <<tables, faults>>

\* A failed look-up is not an error of the call: without the pending payment
\* it takes there to be none, without the group it locks one slot, and a
\* booking whose row it cannot read is not locked at all.
FindPendingFails(r) ==
  /\ At(r, "find") /\ Fault
  /\ \E S \in SUBSET GroupOf[call[r].bk] : Locking(r, S)
  /\ UNCHANGED tables

\* Mutant of LockSlot: the first slot taken ends the call at once.
KeepAcquired(r) ==
  /\ At(r, "lock")
  /\ \E c \in call[r].todo :
       \/ /\ lock[SlotOf[c]] = None
          /\ lock' = [lock EXCEPT ![SlotOf[c]] = c]
          /\ Continue(r, call[r].todo \ {c}, "lock", "insert")
       \/ lock[SlotOf[c]] # None /\ Return(r) /\ UNCHANGED lock
  /\ UNCHANGED <<booking, aged, status, target, due, order, faults>>

\* SET NX on the slots one by one; the first one taken makes the request
\* give back what it has.
LockSlot(r) ==
  /\ At(r, "lock")
  /\ \E c \in call[r].todo :
       \/ /\ lock[SlotOf[c]] = None
          /\ lock' = [lock EXCEPT ![SlotOf[c]] = c]
          /\ Continue(r, call[r].todo \ {c}, "lock", "insert")
       \/ /\ lock[SlotOf[c]] # None
          /\ Continue(r, call[r].slots \ call[r].todo, "rollback", "idle")
          /\ UNCHANGED lock
  /\ UNCHANGED <<booking, aged, status, target, due, order, faults>>

\* DEL of the keys acquired so far, whoever holds them now.
Rollback(r) ==
  /\ At(r, "rollback")
  /\ \E c \in call[r].todo :
       /\ lock' = [lock EXCEPT ![SlotOf[c]] = None]
       /\ Continue(r, call[r].todo \ {c}, "rollback", "idle")
  /\ UNCHANGED <<booking, aged, status, target, due, order, faults>>

\* releaseSlotLocks on a failure after locking.
Unlocking(r) == Continue(r, call[r].slots, "unlock", "idle")

Unlock(r) ==
  /\ At(r, "unlock")
  /\ \E c \in call[r].todo :
       /\ lock' = Released(c)
       /\ Continue(r, call[r].todo \ {c}, "unlock", "idle")
  /\ UNCHANGED <<booking, aged, status, target, due, order, faults>>

InsertPayment(r) ==
  /\ At(r, "insert")
  /\ \E p \in Payment :
       /\ status[p] = "absent"
       /\ \A q \in Payment : q < p => status[q] # "absent"
       /\ status' = [status EXCEPT ![p] = "pending"]
       /\ target' = [target EXCEPT ![p] = call[r].bk]
       /\ Becomes(r, [call[r] EXCEPT !.pc = "ticket", !.pay = p])
  /\ UNCHANGED <<booking, aged, due, order, lock, faults>>

InsertFails(r) ==
  /\ At(r, "insert") /\ Fault
  /\ Unlocking(r)
  /\ UNCHANGED tables

CreateTicket(r) ==
  /\ At(r, "ticket") /\ ~due[call[r].pay]
  /\ Goto(r, "order")
  /\ UNCHANGED <<tables, faults>>

\* failPaymentWSTicket: no ticket, so the payment is given up, without the
\* side effects of a cancellation.
TicketFails(r) ==
  /\ At(r, "ticket")
  /\ \/ due[call[r].pay] /\ UNCHANGED faults
     \/ Fault
  /\ status' = [status EXCEPT ![call[r].pay] = IF @ = "pending" THEN "failed" ELSE @]
  /\ Unlocking(r)
  /\ UNCHANGED <<booking, aged, target, due, order, lock>>

CreateOrder(r) ==
  /\ At(r, "order")
  /\ order' = [order EXCEPT ![call[r].pay] = "open"]
  /\ Return(r)
  /\ UNCHANGED <<booking, aged, status, target, due, lock, faults>>

\* The gateway refuses: the locks go, the payment stays pending.
OrderFails(r) ==
  /\ At(r, "order") /\ Fault
  /\ Unlocking(r)
  /\ UNCHANGED tables

-----------------------------------------------------------------------------
(* Settlement *)

\* Mutant of PaidInTime: no look at the time of the success.
PaidAtAnyTime(p, stamped) == order[p] \in {"paid", "late"}

\* The time of a success is the gateway's time stamp, or the clock when the
\* answer carries none.
PaidInTime(p, stamped) ==
  /\ order[p] \in {"paid", "late"}
  /\ IF stamped THEN order[p] = "paid" ELSE ~due[p]

\* SettleCallback.  The gateway may send its callback at any time after the
\* payer has paid, and more than once.
SettleCallback(r, p) ==
  /\ order[p] \in {"paid", "late"}
  /\ status[p] = "pending"
  /\ \E stamped \in BOOLEAN :
       Begin(r, "callback",
         [IdleCall EXCEPT !.pc = "decide", !.pay = p,
                          !.out = IF PaidInTime(p, stamped) THEN "success" ELSE "expired"])
  /\ UNCHANGED <<tables, faults>>

\* The look-up a read ("get") or a cancellation ("cancel") begins with.
EnsureCurrentStatus(r, p, o) ==
  /\ status[p] = "pending"
  /\ Begin(r, o, [IdleCall EXCEPT !.pc = "query", !.pay = p])
  /\ UNCHANGED <<tables, faults>>

\* A client that polls, and the snapshot of a websocket.
GetPayment(r, p) == EnsureCurrentStatus(r, p, "get")

GetBookingPayment(r, b) == \E p \in LatestPending(b) : GetPayment(r, p)

\* The payer cancels, or the websocket of the payer has closed.
CancelPayment(r, p) == EnsureCurrentStatus(r, p, "cancel")

FindPendingPayments == {p \in Payment : status[p] = "pending"}

\* ReconcilePendingPayments lists the pending payments once, ...
Reconcile(r) ==
  /\ Begin(r, "reconcile", [IdleCall EXCEPT !.pc = "next", !.queue = FindPendingPayments])
  /\ UNCHANGED <<tables, faults>>

\* ... refreshes them oldest first, as it read them, ...
ReconcileNext(r) ==
  /\ At(r, "next")
  /\ \E p \in call[r].queue :
       /\ \A q \in call[r].queue : p <= q
       /\ Becomes(r, [call[r] EXCEPT !.pc = "query", !.pay = p, !.queue = @ \ {p}])
  /\ UNCHANGED <<tables, faults>>

\* Mutant of MarkExpiredPendingBookings: the statement fails every time.
KeepPendingBookings(r) ==
  /\ At(r, "next") /\ call[r].queue = {}
  /\ Return(r)
  /\ UNCHANGED <<tables, faults>>

\* ... and ends with MarkExpiredPendingBookings.
MarkExpiredPendingBookings(r) ==
  /\ At(r, "next") /\ call[r].queue = {}
  /\ booking' = [b \in Booking |->
                   IF booking[b] = "pending" /\ aged[b] THEN "cancelled" ELSE booking[b]]
  /\ Return(r)
  /\ UNCHANGED <<aged, status, target, due, order, lock, faults>>

\* queryAndSettleSuccess up to its UPDATE.  An error, "not paid" and "paid
\* too late" all fall through to the expiry check.
QueryOrder(r) ==
  /\ At(r, "query")
  /\ \/ /\ \E stamped \in BOOLEAN :
             IF PaidInTime(call[r].pay, stamped)
             THEN Becomes(r, [call[r] EXCEPT !.pc = "decide", !.out = "success"])
             ELSE Goto(r, "expiry")
        /\ UNCHANGED faults
     \/ Fault /\ Goto(r, "expiry")
  /\ UNCHANGED tables

\* Mutant of CheckExpiry: the payment is returned as read, due or not.
NeverExpire(r) ==
  /\ At(r, "expiry")
  /\ EnsureReturns(r, TRUE)
  /\ UNCHANGED <<tables, faults>>

\* The rest of EnsurePaymentCurrent: before ExpireAt the caller gets the
\* payment as it was read, pending, whatever its status is by now.
CheckExpiry(r) ==
  /\ At(r, "expiry")
  /\ IF due[call[r].pay]
     THEN Becomes(r, [call[r] EXCEPT !.pc = "decide", !.out = "expired"])
     ELSE EnsureReturns(r, TRUE)
  /\ UNCHANGED <<tables, faults>>

\* Mutant of Decide: UPDATE ... WHERE id = $1, whatever the status.
DecideUnguarded(r) ==
  LET p == call[r].pay
  IN  /\ At(r, "decide")
      /\ status' = [status EXCEPT ![p] = call[r].out]
      /\ Becomes(r, [call[r] EXCEPT !.pc = "update", !.bk = target[p],
                                    !.todo = GroupOf[target[p]]])
      /\ UNCHANGED <<booking, aged, target, due, order, lock, faults>>

\* UPDATE payments ... WHERE status = 'pending'.  The request whose UPDATE
\* finds the row pending goes on to the side effects ...
Decide(r) ==
  LET p == call[r].pay
  IN  /\ At(r, "decide")
      /\ status[p] = "pending"
      /\ status' = [status EXCEPT ![p] = call[r].out]
      /\ Becomes(r, [call[r] EXCEPT !.pc = "update", !.bk = target[p],
                                    !.todo = GroupOf[target[p]]])
      /\ UNCHANGED <<booking, aged, target, due, order, lock, faults>>

\* Mutant of LoseDecision: the loser of the race repeats the side effects of
\* the status it finds.
RepeatEffects(r) ==
  LET p == call[r].pay
  IN  /\ At(r, "decide")
      /\ status[p] # "pending"
      /\ Becomes(r, [call[r] EXCEPT !.pc = "update", !.bk = target[p], !.out = status[p],
                                    !.todo = GroupOf[target[p]]])
      /\ UNCHANGED <<tables, faults>>

\* ... and any other one, and one whose UPDATE fails, refetches the payment
\* and returns it, except that a query that lost to something else than a
\* success falls back to the expiry check.
LoseDecision(r) ==
  LET p == call[r].pay
  IN  /\ At(r, "decide")
      /\ \/ status[p] # "pending" /\ UNCHANGED faults
         \/ Fault
      /\ IF /\ call[r].out = "success" /\ call[r].op # "callback"
            /\ status[p] # "success"
         THEN Becomes(r, [call[r] EXCEPT !.pc = "expiry", !.out = None])
         ELSE EnsureReturns(r, FALSE)
      /\ UNCHANGED tables

\* confirmBookingPayment and cancelBookingPayment: the payment's own booking
\* first, then the others of its group, each with an UPDATE that does not
\* look at the booking's present status and whose error is ignored, ...
Current(r) ==
  IF call[r].bk \in call[r].todo THEN call[r].bk ELSE CHOOSE c \in call[r].todo : TRUE

\* Mutant of SideEffect: only a failure cancels.
ConfirmUnlessFailed(o) == IF o = "failed" THEN "cancelled" ELSE "confirmed"

\* Mutant of SideEffect: the payment's status is written to the booking.
PaymentStatusAsIs(o) == o

SideEffect(o) == IF o = "success" THEN "confirmed" ELSE "cancelled"

UpdateBooking(r) ==
  /\ At(r, "update")
  /\ \/ /\ booking' = [booking EXCEPT ![Current(r)] = SideEffect(call[r].out)]
        /\ UNCHANGED faults
     \/ Fault /\ UNCHANGED booking
  /\ Goto(r, "release")
  /\ UNCHANGED <<aged, status, target, due, order, lock>>

\* ... except that a failed look-up of the booking, or of its group, ends the
\* side effects there.
LookupFails(r) ==
  /\ At(r, "update") /\ Fault
  /\ call[r].todo \in {GroupOf[call[r].bk], GroupOf[call[r].bk] \ {call[r].bk}}
  /\ EnsureReturns(r, FALSE)
  /\ UNCHANGED tables

\* Mutant of ReleaseBookingLock: the rest of the group is forgotten.
ForgetGroup(r) ==
  /\ At(r, "release")
  /\ lock' = Released(Current(r))
  /\ EnsureReturns(r, FALSE)
  /\ UNCHANGED <<booking, aged, status, target, due, order, faults>>

\* Each UPDATE is followed by the release of that booking's lock.  After the
\* last one the subscriber is notified and the call returns.
ReleaseBookingLock(r) ==
  LET rest == call[r].todo \ {Current(r)}
  IN  /\ At(r, "release")
      /\ \/ lock' = Released(Current(r)) /\ UNCHANGED faults
         \/ Fault /\ UNCHANGED lock
      /\ IF rest = {} THEN EnsureReturns(r, FALSE)
         ELSE Becomes(r, [call[r] EXCEPT !.pc = "update", !.todo = rest])
      /\ UNCHANGED <<booking, aged, status, target, due, order>>

\* A request dies with its process, or with its context: RequestTimeout
\* cancels the context after the latency budget and every later round trip
\* of the request fails.  Nothing it has done is undone.  A Redis error inside
\* AcquireSlotLocks returns without releasing what it has acquired, and has
\* the same effect.
Abandon(r) ==
  /\ call[r].pc # "idle" /\ Fault
  /\ Return(r)
  /\ UNCHANGED tables

-----------------------------------------------------------------------------

Step(r) ==
  \/ CheckOverlap(r) \/ InsertBookings(r) \/ WriteCancelled(r)
  \/ FindPending(r) \/ FindPendingFails(r) \/ LockSlot(r) \/ Rollback(r) \/ Unlock(r)
  \/ InsertPayment(r) \/ InsertFails(r) \/ CreateTicket(r) \/ TicketFails(r)
  \/ CreateOrder(r) \/ OrderFails(r)
  \/ ReconcileNext(r) \/ MarkExpiredPendingBookings(r)
  \/ QueryOrder(r) \/ CheckExpiry(r) \/ Decide(r) \/ LoseDecision(r)
  \/ UpdateBooking(r) \/ LookupFails(r) \/ ReleaseBookingLock(r)

Next ==
  \/ \E b \in Booking : AgeBooking(b) \/ MarkCompletedBookings(b)
  \/ \E p \in Payment : PassDeadline(p) \/ Pays(p)
  \/ \E s \in Slot : ExpireLock(s)
  \/ \E r \in Request :
       \/ \E b \in Booking :
            \/ CreateBooking(r, b) \/ CancelBooking(r, b)
            \/ CreatePayment(r, b) \/ GetBookingPayment(r, b)
       \/ \E p \in Payment :
            SettleCallback(r, p) \/ GetPayment(r, p) \/ CancelPayment(r, p)
       \/ Reconcile(r)
       \/ Step(r)
       \/ Abandon(r)

Spec == Init /\ [][Next]_vars

\* The processes run, time passes, and the scheduler of some server starts
\* ReconcilePendingPayments again and again; it needs a free request, and the
\* goroutine cron gives it is one.  Nothing else is promised: no payer pays,
\* no callback arrives, nobody polls.
Fairness ==
  /\ \A r \in Request : WF_vars(Step(r))
  /\ SF_vars(\E r \in Request : Reconcile(r))
  /\ \A b \in Booking : WF_vars(AgeBooking(b))
  /\ \A p \in Payment : WF_vars(PassDeadline(p))

FairSpec == Spec /\ Fairness

-----------------------------------------------------------------------------
(* Properties *)

Applying(r, p) == call[r].pc \in {"update", "release"} /\ call[r].pay = p

\* EnsurePaymentCurrent, SettleCallback and CancelPayment race for a payment
\* from every server: only the request whose UPDATE ... WHERE status =
\* 'pending' found the row carries the outcome over to the bookings, so what
\* it writes is what the payment says, and no second request ever writes.
OneWinner ==
  /\ \A r \in Request, p \in Payment :
       Applying(r, p) => call[r].out = status[p] /\ status[p] \in Terminal
  /\ \A q, r \in Request, p \in Payment :
       Applying(q, p) /\ Applying(r, p) => q = r

\* A payment is a success only if the payer paid before ExpireAt, whichever of
\* callback and query brings the news, and however late it is brought.
SuccessWasPaid ==
  \A p \in Payment : status[p] = "success" => order[p] = "paid"

\* A court is given away only against money: a confirmed booking has a
\* successful payment for its group, whatever fails, dies or is retried.
ConfirmedIsPaid ==
  \A b \in Booking : booking[b] \in {"confirmed", "completed"} =>
    \E p \in Payment : status[p] = "success" /\ b \in GroupOf[target[p]]

\* Whoever asks, cancels or reconciles, and whenever, a decided payment keeps
\* its status, the bookings change only the way PaymentOutcome allows.
Outcome == INSTANCE PaymentOutcome WITH
  outcome <- status,
  applying <- [p \in Payment |->
                {<<r, call[r].out>> : r \in {q \in Request : Applying(q, p)}}],
  booked <- booking

ImplementsOutcome == Outcome!Spec

PaymentsOf(b) == {p \in Payment : status[p] # "absent" /\ b \in GroupOf[target[p]]}

\* When nothing fails, the payer who paid in time for a group that has no
\* other payment gets every booking of it: neither the clean-up of pending
\* bookings nor a slow competitor takes one away.
PayerGetsGroup ==
  \A b \in Booking, p \in Payment :
    /\ PaymentsOf(b) = {p}
    /\ status[p] = "success"
    /\ \A r \in Request : ~Applying(r, p)
    => booking[b] \in {"confirmed", "completed"}

\* When nothing fails no way out of CreatePayment and of the settlement leaves a
\* slot locked: who loses the race for the second slot of a group, whose ticket
\* comes too late, whose payment another request decides, and who applies the
\* outcome of a group booking by booking gives back every lock, or has it to do.
LocksHaveReason ==
  \A s \in Slot : lock[s] # None =>
    \/ \E p \in Payment : status[p] = "pending" /\ lock[s] \in GroupOf[target[p]]
    \/ \E r \in Request :
         \/ At(r, "lock") /\ lock[s] \in call[r].slots \ call[r].todo
         \/ At(r, "insert") /\ lock[s] \in call[r].slots
         \/ call[r].pc \in {"rollback", "unlock", "update", "release"} /\ lock[s] \in call[r].todo

\* A slot is sold once: of two bookings that ask for the same slot at most one
\* is confirmed.
NoDoubleBooking ==
  \A b, c \in Booking :
    /\ SlotOf[b] = SlotOf[c]
    /\ booking[b] = "confirmed" /\ booking[c] = "confirmed"
    => b = c

\* Every payment is decided, even if the payer walks away, the callback is
\* lost and the request that made the payment dies.
PaymentsAreDecided ==
  \A p \in Payment : status[p] = "pending" ~> status[p] \in Terminal

\* No booking stays pending: it is paid for or given back.
BookingsAreDecided ==
  \A b \in Booking : booking[b] = "pending" ~> booking[b] # "pending"
-----------------------------------------------------------------------------
(* The inductive invariant behind OneWinner, SuccessWasPaid and              *)
(* ConfirmedIsPaid.                                                        *)

TablesOK ==
  /\ booking \in [Booking -> BookingStatus]
  /\ aged \in [Booking -> BOOLEAN]
  /\ status \in [Payment -> PaymentStatus]
  /\ target \in [Payment -> Booking \cup {None}]
  /\ due \in [Payment -> BOOLEAN]
  /\ order \in [Payment -> OrderState]
  /\ lock \in [Slot -> Booking \cup {None}]
  /\ faults \in 0 .. MaxFaults

\* A payment row has a booking, there is no order without a row, and an order
\* paid late stays late.
RowsOK ==
  \A p \in Payment :
    /\ status[p] # "absent" => target[p] \in Booking
    /\ status[p] = "absent" => order[p] = "none"
    /\ order[p] = "late" => due[p]

\* What a call knows when it is about to make its next round trip.
CallOK(c) ==
  /\ c \in Call
  /\ c.pc \in {"bookCheck", "bookInsert", "userCancel", "find", "lock", "rollback",
              "insert", "ticket", "order", "unlock", "update", "release"}
       => c.bk \in Booking
  /\ c.pc \in {"ticket", "order", "query", "expiry", "decide", "update", "release"}
       => c.pay \in Payment
  /\ c.pc \in {"ticket", "order"} => status[c.pay] # "absent" /\ order[c.pay] = "none"
  /\ c.pc = "decide" => c.out \in Terminal
  /\ c.pc = "decide" /\ c.out = "success" => order[c.pay] = "paid"
  /\ c.pc \in {"update", "release"} =>
       /\ status[c.pay] \in Terminal /\ c.out = status[c.pay]
       /\ c.bk = target[c.pay]
       /\ c.todo # {} /\ c.todo \subseteq GroupOf[c.bk]

CallsOK == call \in [Request -> Call] /\ \A r \in Request : CallOK(call[r])

\* Only the request that inserted a payment orders it, and only the winner
\* applies its outcome.
SoleOwner ==
  \A q, r \in Request :
    q # r /\ call[q].pay = call[r].pay =>
      /\ ~(/\ call[q].pc \in {"ticket", "order"}
           /\ call[r].pc \in {"ticket", "order"})
      /\ ~(/\ call[q].pc \in {"update", "release"}
           /\ call[r].pc \in {"update", "release"})

\* In every state that requests, deaths and failures can lead to.
IInv == TablesOK /\ RowsOK /\ CallsOK /\ SoleOwner /\ SuccessWasPaid /\ ConfirmedIsPaid

=============================================================================
