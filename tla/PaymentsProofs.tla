--------------------------- MODULE PaymentsProofs ---------------------------
(***************************************************************************)
(* Proofs about Payments: the invariant IInv is inductive, and with it      *)
(* OneWinner, SuccessWasPaid and ConfirmedIsPaid hold for every number of   *)
(* payments, bookings, requests and failures.  The last section shows      *)
(* LocksHaveReason: where no round trip fails, every slot lock has a       *)
(* pending payment or a call that is about to give it back, for any groups *)
(* and however many of their bookings are paid for at the same time.       *)
(***************************************************************************)
EXTENDS Payments, TLAPS

LEMMA IdleCallOK == CallOK(IdleCall)
BY DEF CallOK, Call, IdleCall, Operation, Label, Terminal

\* What every step does to the rows: a payment keeps its booking, a decided
\* one its status, a paid order stays paid.
Advance ==
  \A p \in Payment :
    /\ status[p] # "absent" => status'[p] # "absent" /\ target'[p] = target[p]
    /\ status[p] \in Terminal => status'[p] = status[p]
    /\ order[p] = "paid" => order'[p] = "paid"

\* A request that does not move keeps what it knows when the rows advance.
LEMMA Frame ==
  ASSUME Advance, NEW c, CallOK(c),
         c.pc \in {"ticket", "order"} => order'[c.pay] = order[c.pay]
  PROVE  CallOK(c)'
<1>1. /\ c \in Call
      /\ c.pc \in {"ticket", "order", "query", "expiry", "decide", "update", "release"}
           => c.pay \in Payment
  BY DEF CallOK
<1>2. c.pc \in {"ticket", "order"} => status'[c.pay] # "absent" /\ order'[c.pay] = "none"
  BY <1>1 DEF CallOK, Advance
<1>3. c.pc = "decide" /\ c.out = "success" => order'[c.pay] = "paid"
  BY <1>1 DEF CallOK, Advance
<1>4. c.pc \in {"update", "release"} =>
        /\ status'[c.pay] \in Terminal /\ c.out = status'[c.pay]
        /\ c.bk = target'[c.pay]
  BY <1>1 DEF CallOK, Advance, Terminal
<1> QED
  BY <1>1, <1>2, <1>3, <1>4 DEF CallOK

\* A step of request r leaves every call in order if it leaves r's in order.
LEMMA OneMoves ==
  ASSUME CallsOK, Advance, NEW r \in Request, NEW c, CallOK(c)', Becomes(r, c),
         \A q \in Request \ {r} :
           call[q].pc \in {"ticket", "order"} => order'[call[q].pay] = order[call[q].pay]
  PROVE  CallsOK'
<1>1. c \in Call
  BY DEF CallOK
<1>2. call' \in [Request -> Call] /\ call'[r] = c
  BY <1>1 DEF CallsOK, Becomes
<1>3. ASSUME NEW q \in Request, q # r
      PROVE  CallOK(call[q])' /\ call'[q] = call[q]
  <2>1. CallOK(call[q])
    BY DEF CallsOK
  <2>2. call'[q] = call[q]
    BY <1>3 DEF CallsOK, Becomes
  <2>3. CallOK(call[q])'
    BY <2>1, <1>3, <2>2, Frame
  <2> QED
    BY <2>2, <2>3
<1> QED
  BY <1>2, <1>3 DEF CallsOK

\* A request that goes on keeps what it owns and takes up nothing that has an
\* owner already.
Inherits(r, c) ==
  /\ c.pc \in {"ticket", "order"} =>
       call[r].pc \in {"ticket", "order"} /\ c.pay = call[r].pay
  /\ c.pc \in {"update", "release"} =>
       call[r].pc \in {"update", "release"} /\ c.pay = call[r].pay

LEMMA SoleOwnerKept ==
  ASSUME CallsOK, SoleOwner, NEW r \in Request, NEW c, Becomes(r, c), Inherits(r, c)
  PROVE  SoleOwner'
BY DEF CallsOK, SoleOwner, Becomes, Inherits

\* Most steps only move their request, and the locks.
LEMMA QuietStep ==
  ASSUME IInv, NEW r \in Request,
         \E c : Becomes(r, c) /\ CallOK(c)' /\ Inherits(r, c),
         UNCHANGED <<booking, aged, status, target, due, order>>,
         lock' \in [Slot -> Booking \cup {None}], faults' \in 0 .. MaxFaults
  PROVE  IInv'
<1>0. PICK c : Becomes(r, c) /\ CallOK(c)' /\ Inherits(r, c)
  OBVIOUS
<1>1. Advance
  BY DEF Advance, Terminal
<1>2. CallsOK'
  BY <1>0, <1>1, OneMoves DEF IInv
<1>3. SoleOwner'
  BY <1>0, SoleOwnerKept DEF IInv
<1>4. TablesOK' /\ RowsOK' /\ SuccessWasPaid' /\ ConfirmedIsPaid'
  BY DEF IInv, TablesOK, RowsOK, SuccessWasPaid, ConfirmedIsPaid
<1> QED
  BY <1>2, <1>3, <1>4 DEF IInv

Silent == {"idle", "bookCheck", "bookInsert", "userCancel", "find", "lock",
           "rollback", "insert", "unlock", "next"}

\* Continue keeps the call in order when the call has a booking.
LEMMA ContinueOK ==
  ASSUME CallsOK, NEW r \in Request, call[r].bk \in Booking,
         NEW S \in SUBSET Booking, NEW l \in Silent, NEW last \in Silent,
         Continue(r, S, l, last)
  PROVE  \E c : Becomes(r, c) /\ CallOK(c)' /\ Inherits(r, c)
<1>0. call[r] \in Call
  BY DEF CallsOK
<1>1. CASE S # {}
  <2>0. PICK c : c = [call[r] EXCEPT !.todo = S, !.pc = l]
    OBVIOUS
  <2>1. c \in Call /\ c.pc = l /\ c.bk \in Booking
    BY <1>0, <2>0 DEF Call, Silent, Label
  <2>2. CallOK(c)' /\ Inherits(r, c)
    BY <2>1 DEF CallOK, Inherits, Silent
  <2>3. Becomes(r, c)
    BY <1>1, <2>0 DEF Continue, Becomes
  <2> QED
    BY <2>2, <2>3
<1>2. CASE S = {} /\ last = "idle"
  <2>1. Becomes(r, IdleCall)
    BY <1>2 DEF Continue, Becomes
  <2>2. CallOK(IdleCall)' /\ Inherits(r, IdleCall)
    BY DEF CallOK, Inherits, Call, IdleCall, Operation, Label, Terminal
  <2> QED
    BY <2>1, <2>2
<1>3. CASE S = {} /\ last # "idle"
  <2>0. PICK c : c = [call[r] EXCEPT !.todo = {}, !.pc = last]
    OBVIOUS
  <2>1. c \in Call /\ c.pc = last /\ c.bk \in Booking
    BY <1>0, <2>0 DEF Call, Silent, Label
  <2>2. CallOK(c)' /\ Inherits(r, c)
    BY <2>1 DEF CallOK, Inherits, Silent
  <2>3. Becomes(r, c)
    BY <1>3, <2>0 DEF Continue, Becomes
  <2> QED
    BY <2>2, <2>3
<1> QED
  BY <1>1, <1>2, <1>3

\* So does the return from EnsurePaymentCurrent when the call has a payment.
LEMMA EnsureReturnsOK ==
  ASSUME CallsOK, NEW r \in Request, call[r].pay \in Payment,
         NEW pending \in BOOLEAN, EnsureReturns(r, pending)
  PROVE  \E c : Becomes(r, c) /\ CallOK(c)' /\ Inherits(r, c)
<1>0. call[r] \in Call
  BY DEF CallsOK
<1>1. CASE call[r].op = "cancel" /\ pending
  <2>0. PICK c : c = [call[r] EXCEPT !.pc = "decide", !.out = "failed"]
    OBVIOUS
  <2>1. c \in Call /\ c.pc = "decide" /\ c.out = "failed" /\ c.pay \in Payment
    BY <1>0, <2>0 DEF Call, Label, Terminal
  <2>2. CallOK(c)' /\ Inherits(r, c)
    BY <2>1 DEF CallOK, Inherits, Terminal
  <2>3. Becomes(r, c)
    BY <1>1, <2>0 DEF EnsureReturns, Becomes
  <2> QED
    BY <2>2, <2>3
<1>2. CASE call[r].op = "reconcile"
  <2>0. PICK c : c = [IdleCall EXCEPT !.op = "reconcile", !.pc = "next", !.queue = call[r].queue]
    OBVIOUS
  <2>1. c \in Call /\ c.pc = "next"
    BY <1>0, <2>0 DEF Call, IdleCall, Label, Operation
  <2>2. CallOK(c)' /\ Inherits(r, c)
    BY <2>1 DEF CallOK, Inherits
  <2>3. Becomes(r, c)
    BY <1>2, <2>0 DEF EnsureReturns, Becomes
  <2> QED
    BY <2>2, <2>3
<1>3. CASE ~(call[r].op = "cancel" /\ pending) /\ call[r].op # "reconcile"
  <2>1. Becomes(r, IdleCall)
    BY <1>3 DEF EnsureReturns, Becomes
  <2>2. CallOK(IdleCall)' /\ Inherits(r, IdleCall)
    BY DEF CallOK, Inherits, Call, IdleCall, Operation, Label, Terminal
  <2> QED
    BY <2>1, <2>2
<1> QED
  BY <1>1, <1>2, <1>3

LEMMA FaultType == ASSUME TablesOK, Fault PROVE faults' \in 0 .. MaxFaults
BY BoundAssumption DEF TablesOK, Fault

LEMMA ReleasedType ==
  ASSUME TablesOK, NEW b
  PROVE  Released(b) \in [Slot -> Booking \cup {None}]
BY DEF TablesOK, Released

\* A call that starts, or goes on, at a place where nothing is known of the
\* tables needs only its operands.
LEMMA PlainCall ==
  ASSUME NEW c, c \in Call, NEW r,
         \/ c.pc \in {"idle", "next"}
         \/ c.pc \in Silent /\ c.bk \in Booking
         \/ c.pc \in {"query", "expiry"} /\ c.pay \in Payment
  PROVE  CallOK(c)' /\ Inherits(r, c)
BY DEF CallOK, Inherits, Silent

LEMMA BookingSteps ==
  ASSUME IInv, NEW r \in Request,
         \/ \E b \in Booking : CreateBooking(r, b) \/ CancelBooking(r, b) \/ CreatePayment(r, b)
         \/ CheckOverlap(r)
  PROVE  IInv'
<1>0. /\ call[r] \in Call /\ TablesOK /\ CallsOK /\ CallOK(call[r])
  BY DEF IInv, CallsOK
<1>1. ASSUME NEW b \in Booking, CreateBooking(r, b)
      PROVE  IInv'
  <2>0. PICK c : c = [IdleCall EXCEPT !.pc = "bookCheck", !.bk = b, !.todo = GroupOf[b], !.op = "book"]
    OBVIOUS
  <2>1. c \in Call /\ c.pc = "bookCheck" /\ c.bk = b
    BY <2>0, BookingAssumption DEF Call, IdleCall, Label, Operation
  <2>2. Becomes(r, c) /\ UNCHANGED <<tables, faults>>
    BY <1>1, <2>0 DEF CreateBooking, Begin, IdleCall, Becomes
  <2> QED
    BY <1>0, <2>1, <2>2, PlainCall, QuietStep DEF Silent, tables, TablesOK
<1>2. ASSUME NEW b \in Booking, CancelBooking(r, b)
      PROVE  IInv'
  <2>0. PICK c : c = [IdleCall EXCEPT !.pc = "userCancel", !.bk = b, !.op = "userCancel"]
    OBVIOUS
  <2>1. c \in Call /\ c.pc = "userCancel" /\ c.bk = b
    BY <2>0 DEF Call, IdleCall, Label, Operation
  <2>2. Becomes(r, c) /\ UNCHANGED <<tables, faults>>
    BY <1>2, <2>0 DEF CancelBooking, Begin, IdleCall, Becomes
  <2> QED
    BY <1>0, <2>1, <2>2, PlainCall, QuietStep DEF Silent, tables, TablesOK
<1>3. ASSUME NEW b \in Booking, CreatePayment(r, b)
      PROVE  IInv'
  <2>0. PICK c : c = [IdleCall EXCEPT !.pc = "find", !.bk = b, !.op = "create"]
    OBVIOUS
  <2>1. c \in Call /\ c.pc = "find" /\ c.bk = b
    BY <2>0 DEF Call, IdleCall, Label, Operation
  <2>2. Becomes(r, c) /\ UNCHANGED <<tables, faults>>
    BY <1>3, <2>0 DEF CreatePayment, Begin, IdleCall, Becomes
  <2> QED
    BY <1>0, <2>1, <2>2, PlainCall, QuietStep DEF Silent, tables, TablesOK
<1>4. ASSUME CheckOverlap(r)
      PROVE  IInv'
  <2>1. call[r].bk \in Booking /\ UNCHANGED <<tables, faults>>
    BY <1>0, <1>4 DEF CheckOverlap, At, CallOK
  <2>2. CASE Return(r)
    <3>1. IdleCall \in Call /\ IdleCall.pc = "idle"
      BY IdleCallOK DEF CallOK, IdleCall
    <3> QED
      BY <1>0, <2>1, <2>2, <3>1, PlainCall, QuietStep DEF Return, tables, TablesOK
  <2>3. ASSUME NEW d \in call[r].todo, Continue(r, call[r].todo \ {d}, "bookCheck", "bookInsert")
        PROVE  IInv'
    <3>1. call[r].todo \ {d} \in SUBSET Booking
      BY <1>0 DEF Call
    <3> QED
      BY <1>0, <2>1, <2>3, <3>1, ContinueOK, QuietStep DEF Silent, tables, TablesOK
  <2> QED
    BY <1>4, <2>2, <2>3 DEF CheckOverlap
<1> QED
  BY <1>1, <1>2, <1>3, <1>4

\* releaseSlotLocks after a failure.
LEMMA UnlockingOK ==
  ASSUME CallsOK, NEW r \in Request, call[r].bk \in Booking, Unlocking(r)
  PROVE  \E c : Becomes(r, c) /\ CallOK(c)' /\ Inherits(r, c)
<1>1. call[r].slots \in SUBSET Booking
  BY DEF CallsOK, Call
<1> QED
  BY <1>1, ContinueOK DEF Unlocking, Silent

LEMMA LockingOK ==
  ASSUME CallsOK, NEW r \in Request, call[r].bk \in Booking,
         NEW S \in SUBSET Booking, Locking(r, S)
  PROVE  \E c : Becomes(r, c) /\ CallOK(c)' /\ Inherits(r, c)
<1>0. PICK c : c = [call[r] EXCEPT !.pc = IF S = {} THEN "insert" ELSE "lock",
                                   !.slots = S, !.todo = S]
  OBVIOUS
<1>1. c \in Call /\ c.pc \in {"insert", "lock"} /\ c.bk \in Booking
  <2>1. call[r] \in Call
    BY DEF CallsOK
  <2>2. c.pc \in {"insert", "lock"} /\ c.bk = call[r].bk
    BY <1>0, <2>1 DEF Call
  <2>3. c \in Call
    BY <1>0, <2>1 DEF Call, Label
  <2> QED
    BY <2>2, <2>3
<1> QED
  BY <1>0, <1>1, PlainCall DEF Locking, Becomes, Silent

\* The steps of CreatePayment that only move the request and the locks.
LEMMA LockSteps ==
  ASSUME IInv, NEW r \in Request,
         \/ FindPending(r) \/ FindPendingFails(r) \/ LockSlot(r) \/ Rollback(r)
         \/ Unlock(r) \/ InsertFails(r) \/ CreateTicket(r) \/ OrderFails(r)
  PROVE  IInv'
<1>0. call[r] \in Call /\ TablesOK /\ CallsOK /\ CallOK(call[r])
  BY DEF IInv, CallsOK
<1> USE <1>0
<1>1. CASE FindPending(r)
  <2>1. call[r].bk \in Booking /\ UNCHANGED <<tables, faults>>
    BY <1>1 DEF FindPending, At, CallOK
  <2>2. ASSUME NEW p \in LatestPending(call[r].bk),
               Becomes(r, [call[r] EXCEPT !.pc = "query", !.pay = p])
        PROVE  IInv'
    <3>0. PICK c : c = [call[r] EXCEPT !.pc = "query", !.pay = p]
      OBVIOUS
    <3>1. c \in Call /\ c.pc = "query" /\ c.pay \in Payment
      BY <3>0 DEF Call, Label, LatestPending, PendingOf
    <3>9. CallOK(c)' /\ Inherits(r, c)
      BY <3>1, PlainCall
    <3> QED
      BY <2>1, <2>2, <3>0, <3>1, <3>9, QuietStep DEF tables, TablesOK
  <2>3. CASE Locking(r, GroupOf[call[r].bk])
    <3>1. GroupOf[call[r].bk] \in SUBSET Booking
      BY <2>1, BookingAssumption
    <3> QED
      BY <2>1, <2>3, <3>1, LockingOK, QuietStep DEF tables, TablesOK
  <2> QED
    BY <1>1, <2>2, <2>3 DEF FindPending
<1>2. CASE FindPendingFails(r)
  <2>1. call[r].bk \in Booking /\ UNCHANGED tables /\ Fault
    BY <1>2 DEF FindPendingFails, At, CallOK
  <2>2. PICK S \in SUBSET GroupOf[call[r].bk] : Locking(r, S)
    BY <1>2 DEF FindPendingFails
  <2>3. S \in SUBSET Booking
    BY <2>1, BookingAssumption
  <2> QED
    BY <2>1, <2>2, <2>3, LockingOK, FaultType, QuietStep DEF tables, TablesOK
<1>3. CASE LockSlot(r)
  <2>1. /\ call[r].bk \in Booking /\ call[r].todo \in SUBSET Booking
        /\ call[r].slots \in SUBSET Booking
        /\ UNCHANGED <<booking, aged, status, target, due, order, faults>>
    BY <1>3 DEF LockSlot, At, CallOK, Call
  <2>2. PICK d \in call[r].todo :
          \/ /\ lock' = [lock EXCEPT ![SlotOf[d]] = d]
             /\ Continue(r, call[r].todo \ {d}, "lock", "insert")
          \/ /\ Continue(r, call[r].slots \ call[r].todo, "rollback", "idle")
             /\ UNCHANGED lock
    BY <1>3 DEF LockSlot
  <2>3. lock' \in [Slot -> Booking \cup {None}]
    BY <2>1, <2>2 DEF TablesOK
  <2>4. \E c : Becomes(r, c) /\ CallOK(c)' /\ Inherits(r, c)
    <3>1. call[r].todo \ {d} \in SUBSET Booking /\ call[r].slots \ call[r].todo \in SUBSET Booking
      BY <2>1
    <3> QED
      BY <2>1, <2>2, <3>1, ContinueOK DEF Silent
  <2> QED
    BY <2>1, <2>3, <2>4, QuietStep DEF TablesOK
<1>4. CASE Rollback(r)
  <2>1. /\ call[r].bk \in Booking /\ call[r].todo \in SUBSET Booking
        /\ UNCHANGED <<booking, aged, status, target, due, order, faults>>
    BY <1>4 DEF Rollback, At, CallOK, Call
  <2>2. PICK d \in call[r].todo :
          /\ lock' = [lock EXCEPT ![SlotOf[d]] = None]
          /\ Continue(r, call[r].todo \ {d}, "rollback", "idle")
    BY <1>4 DEF Rollback
  <2>3. lock' \in [Slot -> Booking \cup {None}] /\ call[r].todo \ {d} \in SUBSET Booking
    BY <2>1, <2>2 DEF TablesOK
  <2> QED
    BY <2>1, <2>2, <2>3, ContinueOK, QuietStep DEF TablesOK, Silent
<1>5. CASE Unlock(r)
  <2>1. /\ call[r].bk \in Booking /\ call[r].todo \in SUBSET Booking
        /\ UNCHANGED <<booking, aged, status, target, due, order, faults>>
    BY <1>5 DEF Unlock, At, CallOK, Call
  <2>2. PICK d \in call[r].todo :
          /\ lock' = Released(d)
          /\ Continue(r, call[r].todo \ {d}, "unlock", "idle")
    BY <1>5 DEF Unlock
  <2>3. lock' \in [Slot -> Booking \cup {None}] /\ call[r].todo \ {d} \in SUBSET Booking
    BY <2>1, <2>2, ReleasedType
  <2> QED
    BY <2>1, <2>2, <2>3, ContinueOK, QuietStep DEF TablesOK, Silent
<1>6. CASE InsertFails(r)
  <2>1. call[r].bk \in Booking /\ UNCHANGED tables /\ Fault /\ Unlocking(r)
    BY <1>6 DEF InsertFails, At, CallOK
  <2> QED
    BY <2>1, UnlockingOK, FaultType, QuietStep DEF tables, TablesOK
<1>7. CASE CreateTicket(r)
  <2>0. PICK c : c = [call[r] EXCEPT !.pc = "order"]
    OBVIOUS
  <2>1. Becomes(r, c) /\ UNCHANGED <<tables, faults>> /\ call[r].pc = "ticket"
    BY <1>7, <2>0 DEF CreateTicket, Goto, Becomes, At
  <2>2. c \in Call /\ c.pc = "order" /\ c.bk = call[r].bk /\ c.pay = call[r].pay
    BY <2>0 DEF Call, Label
  <2>3. CallOK(c)' /\ Inherits(r, c)
    BY <2>1, <2>2 DEF CallOK, Inherits, tables
  <2> QED
    BY <2>1, <2>3, QuietStep DEF tables, TablesOK
<1>8. CASE OrderFails(r)
  <2>1. call[r].bk \in Booking /\ UNCHANGED tables /\ Fault /\ Unlocking(r)
    BY <1>8 DEF OrderFails, At, CallOK
  <2> QED
    BY <2>1, UnlockingOK, FaultType, QuietStep DEF tables, TablesOK
<1> QED
  BY <1>1, <1>2, <1>3, <1>4, <1>5, <1>6, <1>7, <1>8

\* The steps of a settlement that only move the request and the locks.
LEMMA SettleSteps ==
  ASSUME IInv, NEW r \in Request,
         \/ \E p \in Payment : \/ SettleCallback(r, p)
                              \/ \E o \in {"get", "cancel"} : EnsureCurrentStatus(r, p, o)
         \/ Reconcile(r) \/ ReconcileNext(r) \/ QueryOrder(r) \/ CheckExpiry(r)
         \/ LoseDecision(r) \/ LookupFails(r) \/ ReleaseBookingLock(r) \/ Abandon(r)
  PROVE  IInv'
<1>0. call[r] \in Call /\ TablesOK /\ CallsOK /\ CallOK(call[r]) /\ RowsOK
  BY DEF IInv, CallsOK
<1> USE <1>0
<1>a. ASSUME NEW p \in Payment, NEW s \in BOOLEAN, PaidInTime(p, s)
      PROVE  order[p] = "paid"
  BY <1>a DEF PaidInTime, RowsOK, TablesOK
<1>1. ASSUME NEW p \in Payment, SettleCallback(r, p)
      PROVE  IInv'
  <2>1. PICK s \in BOOLEAN :
          Begin(r, "callback",
            [IdleCall EXCEPT !.pc = "decide", !.pay = p,
                             !.out = IF PaidInTime(p, s) THEN "success" ELSE "expired"])
    BY <1>1 DEF SettleCallback
  <2>0. PICK c : c = [IdleCall EXCEPT !.pc = "decide", !.pay = p, !.op = "callback",
                             !.out = IF PaidInTime(p, s) THEN "success" ELSE "expired"]
    OBVIOUS
  <2>2. Becomes(r, c) /\ UNCHANGED <<tables, faults>>
    BY <1>1, <2>0, <2>1 DEF SettleCallback, Begin, IdleCall, Becomes
  <2>3. /\ c \in Call /\ c.pc = "decide" /\ c.pay = p
        /\ c.out \in Terminal /\ (c.out = "success" => order[p] = "paid")
    BY <2>0, <1>a DEF Call, IdleCall, Label, Operation, Terminal
  <2>4. CallOK(c)' /\ Inherits(r, c)
    BY <2>2, <2>3 DEF CallOK, Inherits, tables
  <2> QED
    BY <2>2, <2>4, QuietStep DEF tables, TablesOK
<1>2. ASSUME NEW p \in Payment, NEW o \in {"get", "cancel"}, EnsureCurrentStatus(r, p, o)
      PROVE  IInv'
  <2>0. PICK c : c = [IdleCall EXCEPT !.pc = "query", !.pay = p, !.op = o]
    OBVIOUS
  <2>1. c \in Call /\ c.pc = "query" /\ c.pay \in Payment
    BY <2>0 DEF Call, IdleCall, Label, Operation
  <2>2. Becomes(r, c) /\ UNCHANGED <<tables, faults>>
    BY <1>2, <2>0 DEF EnsureCurrentStatus, Begin, IdleCall, Becomes
  <2> QED
    BY <2>1, <2>2, PlainCall, QuietStep DEF tables, TablesOK
<1>3. CASE Reconcile(r)
  <2>0. PICK c : c = [IdleCall EXCEPT !.pc = "next", !.op = "reconcile",
                                      !.queue = FindPendingPayments]
    OBVIOUS
  <2>1. c \in Call /\ c.pc = "next"
    BY <2>0 DEF FindPendingPayments, Call, IdleCall, Label, Operation
  <2>2. Becomes(r, c) /\ UNCHANGED <<tables, faults>>
    BY <1>3, <2>0 DEF Reconcile, Begin, IdleCall, Becomes
  <2> QED
    BY <2>1, <2>2, PlainCall, QuietStep DEF tables, TablesOK
<1>4. CASE ReconcileNext(r)
  <2>1. PICK p \in call[r].queue :
          Becomes(r, [call[r] EXCEPT !.pc = "query", !.pay = p, !.queue = @ \ {p}])
    BY <1>4 DEF ReconcileNext
  <2>0. PICK c : c = [call[r] EXCEPT !.pc = "query", !.pay = p, !.queue = @ \ {p}]
    OBVIOUS
  <2>2. c \in Call /\ c.pc = "query" /\ c.pay \in Payment
    BY <2>0 DEF Call, Label
  <2>9. CallOK(c)' /\ Inherits(r, c)
    BY <2>2, PlainCall
  <2> QED
    BY <1>4, <2>0, <2>1, <2>2, <2>9, QuietStep DEF ReconcileNext, tables, TablesOK
<1>5. CASE QueryOrder(r)
  <2>1. call[r].pay \in Payment /\ UNCHANGED tables /\ call[r].pc = "query"
    BY <1>5 DEF QueryOrder, At, CallOK
  <2>2. faults' \in 0 .. MaxFaults
    BY <1>5, FaultType DEF QueryOrder, TablesOK
  <2>3. CASE Goto(r, "expiry")
    <3>0. PICK c : c = [call[r] EXCEPT !.pc = "expiry"]
      OBVIOUS
    <3>1. c \in Call /\ c.pc = "expiry" /\ c.pay \in Payment
      BY <2>1, <3>0 DEF Call, Label
    <3>9. CallOK(c)' /\ Inherits(r, c)
      BY <3>1, PlainCall
    <3> QED
      BY <2>1, <2>2, <2>3, <3>0, <3>1, <3>9, QuietStep DEF Goto, tables, TablesOK
  <2>4. ASSUME NEW s \in BOOLEAN, PaidInTime(call[r].pay, s),
               Becomes(r, [call[r] EXCEPT !.pc = "decide", !.out = "success"])
        PROVE  IInv'
    <3>0. PICK c : c = [call[r] EXCEPT !.pc = "decide", !.out = "success"]
      OBVIOUS
    <3>1. c \in Call /\ c.pc = "decide" /\ c.pay = call[r].pay /\ c.out = "success"
      BY <3>0 DEF Call, Label, Terminal
    <3>2. CallOK(c)' /\ Inherits(r, c)
      BY <2>1, <2>4, <1>a, <3>1 DEF CallOK, Inherits, tables, Terminal
    <3> QED
      BY <2>1, <2>2, <2>4, <3>0, <3>2, QuietStep DEF tables, TablesOK
  <2> QED
    BY <1>5, <2>3, <2>4 DEF QueryOrder
<1>6. CASE CheckExpiry(r)
  <2>1. call[r].pay \in Payment /\ UNCHANGED <<tables, faults>>
    BY <1>6 DEF CheckExpiry, At, CallOK
  <2>2. CASE Becomes(r, [call[r] EXCEPT !.pc = "decide", !.out = "expired"])
    <3>0. PICK c : c = [call[r] EXCEPT !.pc = "decide", !.out = "expired"]
      OBVIOUS
    <3>1. c \in Call /\ c.pc = "decide" /\ c.pay \in Payment /\ c.out = "expired"
      BY <2>1, <3>0 DEF Call, Label, Terminal
    <3>2. CallOK(c)' /\ Inherits(r, c)
      BY <3>1 DEF CallOK, Inherits, Terminal
    <3> QED
      BY <2>1, <2>2, <3>0, <3>2, QuietStep DEF tables, TablesOK
  <2>3. CASE EnsureReturns(r, TRUE)
    BY <2>1, <2>3, EnsureReturnsOK, QuietStep DEF tables, TablesOK
  <2> QED
    BY <1>6, <2>2, <2>3 DEF CheckExpiry
<1>7. CASE LoseDecision(r)
  <2>1. call[r].pay \in Payment /\ UNCHANGED tables /\ faults' \in 0 .. MaxFaults
    BY <1>7, FaultType DEF LoseDecision, At, CallOK, TablesOK
  <2>2. CASE Becomes(r, [call[r] EXCEPT !.pc = "expiry", !.out = None])
    <3>0. PICK c : c = [call[r] EXCEPT !.pc = "expiry", !.out = None]
      OBVIOUS
    <3>1. c \in Call /\ c.pc = "expiry" /\ c.pay \in Payment
      BY <2>1, <3>0 DEF Call, Label
    <3>9. CallOK(c)' /\ Inherits(r, c)
      BY <3>1, PlainCall
    <3> QED
      BY <2>1, <2>2, <3>0, <3>1, <3>9, QuietStep DEF tables, TablesOK
  <2>3. CASE EnsureReturns(r, FALSE)
    BY <2>1, <2>3, EnsureReturnsOK, QuietStep DEF tables, TablesOK
  <2> QED
    BY <1>7, <2>2, <2>3 DEF LoseDecision
<1>8. CASE LookupFails(r)
  <2>1. /\ call[r].pay \in Payment /\ UNCHANGED tables /\ faults' \in 0 .. MaxFaults
        /\ EnsureReturns(r, FALSE)
    BY <1>8, FaultType DEF LookupFails, At, CallOK
  <2> QED
    BY <2>1, EnsureReturnsOK, QuietStep DEF tables, TablesOK
<1>9. CASE ReleaseBookingLock(r)
  <2> DEFINE rest == call[r].todo \ {Current(r)}
  <2>1. /\ call[r].pay \in Payment /\ call[r].pc = "release"
        /\ UNCHANGED <<booking, aged, status, target, due, order>>
        /\ faults' \in 0 .. MaxFaults /\ lock' \in [Slot -> Booking \cup {None}]
    BY <1>9, FaultType, ReleasedType DEF ReleaseBookingLock, At, CallOK, TablesOK
  <2>2. CASE rest = {} /\ EnsureReturns(r, FALSE)
    BY <2>1, <2>2, EnsureReturnsOK, QuietStep
  <2>3. CASE rest # {} /\ Becomes(r, [call[r] EXCEPT !.pc = "update", !.todo = rest])
    <3>0. PICK c : c = [call[r] EXCEPT !.pc = "update", !.todo = rest]
      OBVIOUS
    <3>1. /\ c \in Call /\ c.pc = "update" /\ c.pay = call[r].pay /\ c.bk = call[r].bk
          /\ c.out = call[r].out /\ c.todo = rest
      BY <3>0 DEF Call, Label
    <3>2. CallOK(c)' /\ Inherits(r, c)
      BY <2>1, <2>3, <3>1 DEF CallOK, Inherits
    <3> QED
      BY <2>1, <2>3, <3>0, <3>2, QuietStep
  <2> QED
    BY <1>9, <2>2, <2>3 DEF ReleaseBookingLock
<1>10. CASE Abandon(r)
  <2>1. Becomes(r, IdleCall) /\ UNCHANGED tables /\ faults' \in 0 .. MaxFaults
    BY <1>10, FaultType DEF Abandon, Return
  <2>2. IdleCall \in Call /\ IdleCall.pc = "idle"
    BY IdleCallOK DEF CallOK, IdleCall
  <2> QED
    BY <2>1, <2>2, PlainCall, QuietStep DEF tables, TablesOK
<1> QED
  BY <1>1, <1>2, <1>3, <1>4, <1>5, <1>6, <1>7, <1>8, <1>9, <1>10

\* Time, the payer and MarkCompletedBookings move no request.
LEMMA OutsideSteps ==
  ASSUME IInv,
         \/ \E b \in Booking : AgeBooking(b) \/ MarkCompletedBookings(b)
         \/ \E p \in Payment : PassDeadline(p) \/ Pays(p)
         \/ \E s \in Slot : ExpireLock(s)
  PROVE  IInv'
<1>0. TablesOK /\ RowsOK /\ CallsOK /\ SoleOwner /\ SuccessWasPaid /\ ConfirmedIsPaid
  BY DEF IInv
<1> USE <1>0
<1>1. ASSUME UNCHANGED call, Advance,
             \A r \in Request : call[r].pc \in {"ticket", "order"}
               => order'[call[r].pay] = order[call[r].pay]
      PROVE  CallsOK' /\ SoleOwner'
  <2>1. ASSUME NEW r \in Request
        PROVE  CallOK(call[r])' /\ call'[r] = call[r]
    <3>1. CallOK(call[r])
      BY DEF CallsOK
    <3> QED
      BY <1>1, <3>1, Frame
  <2> QED
    BY <1>1, <2>1 DEF CallsOK, SoleOwner
<1>2. ASSUME NEW b \in Booking, AgeBooking(b)
      PROVE  IInv'
  <2>1. CallsOK' /\ SoleOwner'
    BY <1>1, <1>2 DEF AgeBooking, Advance
  <2>2. TablesOK' /\ RowsOK' /\ SuccessWasPaid' /\ ConfirmedIsPaid'
    BY <1>2 DEF AgeBooking, TablesOK, RowsOK, SuccessWasPaid, ConfirmedIsPaid
  <2> QED
    BY <2>1, <2>2 DEF IInv
<1>3. ASSUME NEW b \in Booking, MarkCompletedBookings(b)
      PROVE  IInv'
  <2>1. CallsOK' /\ SoleOwner'
    BY <1>1, <1>3 DEF MarkCompletedBookings, Advance
  <2>2. TablesOK' /\ RowsOK' /\ SuccessWasPaid'
    BY <1>3 DEF MarkCompletedBookings, TablesOK, RowsOK, SuccessWasPaid, BookingStatus
  <2>3. ConfirmedIsPaid'
    BY <1>3 DEF MarkCompletedBookings, TablesOK, ConfirmedIsPaid
  <2> QED
    BY <2>1, <2>2, <2>3 DEF IInv
<1>4. ASSUME NEW p \in Payment, PassDeadline(p)
      PROVE  IInv'
  <2>1. CallsOK' /\ SoleOwner'
    BY <1>1, <1>4 DEF PassDeadline, Advance
  <2>2. TablesOK' /\ RowsOK' /\ SuccessWasPaid' /\ ConfirmedIsPaid'
    BY <1>4 DEF PassDeadline, TablesOK, RowsOK, SuccessWasPaid, ConfirmedIsPaid
  <2> QED
    BY <2>1, <2>2 DEF IInv
<1>5. ASSUME NEW p \in Payment, Pays(p)
      PROVE  IInv'
  <2>1. Advance
    BY <1>5 DEF Pays, Advance, TablesOK
  <2>2. ASSUME NEW r \in Request, call[r].pc \in {"ticket", "order"}
        PROVE  order'[call[r].pay] = order[call[r].pay]
    <3>1. order[call[r].pay] = "none"
      BY <2>2 DEF CallsOK, CallOK
    <3> QED
      BY <1>5, <3>1 DEF Pays, TablesOK
  <2>3. CallsOK' /\ SoleOwner'
    BY <1>1, <1>5, <2>1, <2>2 DEF Pays
  <2>4. TablesOK' /\ RowsOK' /\ SuccessWasPaid' /\ ConfirmedIsPaid'
    BY <1>5 DEF Pays, TablesOK, RowsOK, SuccessWasPaid, ConfirmedIsPaid, OrderState
  <2> QED
    BY <2>3, <2>4 DEF IInv
<1>6. ASSUME NEW s \in Slot, ExpireLock(s)
      PROVE  IInv'
  <2>1. CallsOK' /\ SoleOwner'
    BY <1>1, <1>6 DEF ExpireLock, Advance
  <2>2. TablesOK' /\ RowsOK' /\ SuccessWasPaid' /\ ConfirmedIsPaid'
    BY <1>6 DEF ExpireLock, TablesOK, RowsOK, SuccessWasPaid, ConfirmedIsPaid
  <2> QED
    BY <2>1, <2>2 DEF IInv
<1> QED
  BY <1>2, <1>3, <1>4, <1>5, <1>6

\* A booking that is newly confirmed must be paid for; any other change of the
\* bookings table is harmless.
LEMMA BookingsChange ==
  ASSUME IInv, NEW r \in Request,
         \E c : Becomes(r, c) /\ CallOK(c)' /\ Inherits(r, c),
         UNCHANGED <<aged, status, target, due, order, lock>>,
         booking' \in [Booking -> BookingStatus], faults' \in 0 .. MaxFaults,
         \A b \in Booking : booking'[b] \in {"confirmed", "completed"} =>
           \/ booking'[b] = booking[b]
           \/ \E p \in Payment : status[p] = "success" /\ b \in GroupOf[target[p]]
  PROVE  IInv'
<1>0. PICK c : Becomes(r, c) /\ CallOK(c)' /\ Inherits(r, c)
  OBVIOUS
<1>1. Advance
  BY DEF Advance, Terminal
<1>2. CallsOK' /\ SoleOwner'
  BY <1>0, <1>1, OneMoves, SoleOwnerKept DEF IInv
<1>3. TablesOK' /\ RowsOK' /\ SuccessWasPaid'
  BY DEF IInv, TablesOK, RowsOK, SuccessWasPaid
<1>4. ConfirmedIsPaid'
  BY DEF IInv, ConfirmedIsPaid
<1> QED
  BY <1>2, <1>3, <1>4 DEF IInv

LEMMA BookingWrites ==
  ASSUME IInv, NEW r \in Request,
         InsertBookings(r) \/ WriteCancelled(r) \/ MarkExpiredPendingBookings(r) \/ UpdateBooking(r)
  PROVE  IInv'
<1>0. call[r] \in Call /\ TablesOK /\ CallsOK /\ CallOK(call[r]) /\ RowsOK
  BY DEF IInv, CallsOK
<1> USE <1>0
<1>i. Return(r) => \E c : Becomes(r, c) /\ CallOK(c)' /\ Inherits(r, c)
  <2>1. IdleCall \in Call /\ IdleCall.pc = "idle"
    BY IdleCallOK DEF CallOK, IdleCall
  <2>2. CallOK(IdleCall)' /\ Inherits(r, IdleCall)
    BY <2>1, PlainCall
  <2> QED
    BY <2>2 DEF Return
<1>1. CASE InsertBookings(r)
  <2>1. /\ booking' \in [Booking -> BookingStatus] /\ faults' \in 0 .. MaxFaults
        /\ \A b \in Booking : booking'[b] \in {"confirmed", "completed"} => booking'[b] = booking[b]
    BY <1>1 DEF InsertBookings, TablesOK, BookingStatus
  <2> QED
    BY <1>1, <1>i, <2>1, BookingsChange DEF InsertBookings
<1>2. CASE WriteCancelled(r)
  <2>1. /\ booking' \in [Booking -> BookingStatus] /\ faults' \in 0 .. MaxFaults
        /\ \A b \in Booking : booking'[b] \in {"confirmed", "completed"} => booking'[b] = booking[b]
    BY <1>2 DEF WriteCancelled, TablesOK, BookingStatus
  <2> QED
    BY <1>2, <1>i, <2>1, BookingsChange DEF WriteCancelled
<1>3. CASE MarkExpiredPendingBookings(r)
  <2>1. /\ booking' \in [Booking -> BookingStatus] /\ faults' \in 0 .. MaxFaults
        /\ \A b \in Booking : booking'[b] \in {"confirmed", "completed"} => booking'[b] = booking[b]
    BY <1>3 DEF MarkExpiredPendingBookings, TablesOK, BookingStatus
  <2> QED
    BY <1>3, <1>i, <2>1, BookingsChange DEF MarkExpiredPendingBookings
<1>4. CASE UpdateBooking(r)
  <2>0. PICK c : c = [call[r] EXCEPT !.pc = "release"]
    OBVIOUS
  <2>1. /\ Becomes(r, c) /\ UNCHANGED <<aged, status, target, due, order, lock>>
        /\ call[r].pc = "update" /\ faults' \in 0 .. MaxFaults
    BY <1>4, <2>0, FaultType DEF UpdateBooking, Goto, At, TablesOK
  <2>2. /\ c \in Call /\ c.pc = "release" /\ c.pay = call[r].pay /\ c.bk = call[r].bk
        /\ c.out = call[r].out /\ c.todo = call[r].todo
    BY <2>0 DEF Call, Label
  <2>3. CallOK(c)' /\ Inherits(r, c)
    BY <2>1, <2>2 DEF CallOK, Inherits
  <2>4. /\ call[r].pay \in Payment /\ call[r].bk = target[call[r].pay]
        /\ call[r].out = status[call[r].pay]
        /\ Current(r) \in GroupOf[call[r].bk] /\ Current(r) \in Booking
    BY <2>1 DEF CallOK, Current, Call
  <2>5. booking' \in [Booking -> BookingStatus]
    BY <1>4 DEF UpdateBooking, TablesOK, BookingStatus, SideEffect
  <2>6. ASSUME NEW b \in Booking, booking'[b] \in {"confirmed", "completed"}, booking'[b] # booking[b]
        PROVE  \E p \in Payment : status[p] = "success" /\ b \in GroupOf[target[p]]
    <3>1. b = Current(r) /\ SideEffect(call[r].out) \in {"confirmed", "completed"}
      BY <1>4, <2>6 DEF UpdateBooking, TablesOK
    <3>2. call[r].out = "success"
      BY <3>1 DEF SideEffect
    <3> QED
      BY <2>4, <3>1, <3>2
  <2> QED
    BY <2>1, <2>3, <2>5, <2>6, BookingsChange
<1> QED
  BY <1>1, <1>2, <1>3, <1>4

LEMMA PaymentWrites ==
  ASSUME IInv, NEW r \in Request,
         InsertPayment(r) \/ TicketFails(r) \/ CreateOrder(r) \/ Decide(r)
  PROVE  IInv'
<1>0. /\ call[r] \in Call /\ TablesOK /\ CallsOK /\ CallOK(call[r]) /\ RowsOK
      /\ SoleOwner /\ SuccessWasPaid /\ ConfirmedIsPaid
  BY DEF IInv, CallsOK
<1> USE <1>0
<1>1. CASE InsertPayment(r)
  <2>1. PICK p \in Payment :
          /\ status[p] = "absent"
          /\ status' = [status EXCEPT ![p] = "pending"]
          /\ target' = [target EXCEPT ![p] = call[r].bk]
          /\ Becomes(r, [call[r] EXCEPT !.pc = "ticket", !.pay = p])
    BY <1>1 DEF InsertPayment
  <2>2. call[r].pc = "insert" /\ call[r].bk \in Booking
        /\ UNCHANGED <<booking, aged, due, order, lock, faults>>
    BY <1>1 DEF InsertPayment, At, CallOK
  <2>0. PICK c : c = [call[r] EXCEPT !.pc = "ticket", !.pay = p]
    OBVIOUS
  <2>3. c \in Call /\ c.pc = "ticket" /\ c.pay = p /\ c.bk = call[r].bk
    BY <2>0 DEF Call, Label
  <2>4. Advance
    BY <2>1, <2>2 DEF Advance, TablesOK, Terminal
  <2>5. order[p] = "none"
    BY <2>1 DEF RowsOK
  <2>6. CallOK(c)'
    BY <2>1, <2>2, <2>3, <2>5 DEF CallOK, TablesOK
  <2>7. CallsOK'
    BY <2>0, <2>1, <2>2, <2>4, <2>6, OneMoves
  <2>8. SoleOwner'
    <3>1. ASSUME NEW q \in Request, q # r, call[q].pc \in {"ticket", "order"}
          PROVE  call[q].pay # p
      BY <3>1, <2>1 DEF CallsOK, CallOK
    <3>2. /\ call'[r] = c
          /\ \A q \in Request \ {r} : call'[q] = call[q]
      BY <2>0, <2>1 DEF Becomes, CallsOK
    <3> QED
      BY <2>3, <3>1, <3>2 DEF SoleOwner
  <2>9. TablesOK'
    BY <2>1, <2>2 DEF TablesOK, PaymentStatus
  <2>10. RowsOK'
    BY <2>1, <2>2, <2>5 DEF TablesOK, RowsOK
  <2>11. SuccessWasPaid' /\ ConfirmedIsPaid'
    BY <2>1, <2>2 DEF TablesOK, SuccessWasPaid, ConfirmedIsPaid
  <2> QED
    BY <2>7, <2>8, <2>9, <2>10, <2>11 DEF IInv
<1>2. CASE TicketFails(r)
  <2> DEFINE p == call[r].pay
  <2>1. /\ call[r].pc = "ticket" /\ p \in Payment /\ call[r].bk \in Booking
        /\ Unlocking(r) /\ faults' \in 0 .. MaxFaults
        /\ status' = [status EXCEPT ![p] = IF @ = "pending" THEN "failed" ELSE @]
        /\ UNCHANGED <<booking, aged, target, due, order, lock>>
    BY <1>2, FaultType DEF TicketFails, At, CallOK, TablesOK
  <2>2. Advance
    BY <2>1 DEF Advance, TablesOK, Terminal
  <2>3. PICK c : Becomes(r, c) /\ CallOK(c)' /\ Inherits(r, c)
    BY <2>1, UnlockingOK
  <2>4. CallsOK' /\ SoleOwner'
    BY <2>1, <2>2, <2>3, OneMoves, SoleOwnerKept
  <2>5. TablesOK'
    BY <2>1 DEF TablesOK, PaymentStatus, Terminal
  <2>6. RowsOK' /\ SuccessWasPaid' /\ ConfirmedIsPaid'
    BY <2>1 DEF TablesOK, RowsOK, SuccessWasPaid, ConfirmedIsPaid
  <2> QED
    BY <2>4, <2>5, <2>6 DEF IInv
<1>3. CASE CreateOrder(r)
  <2> DEFINE p == call[r].pay
  <2>1. /\ call[r].pc = "order" /\ p \in Payment /\ order[p] = "none" /\ status[p] # "absent"
        /\ Becomes(r, IdleCall)
        /\ order' = [order EXCEPT ![p] = "open"]
        /\ UNCHANGED <<booking, aged, status, target, due, lock, faults>>
    BY <1>3 DEF CreateOrder, At, CallOK, Return
  <2>2. Advance
    BY <2>1 DEF Advance, TablesOK
  <2>3. ASSUME NEW q \in Request \ {r}, call[q].pc \in {"ticket", "order"}
        PROVE  order'[call[q].pay] = order[call[q].pay]
    BY <2>1, <2>3 DEF SoleOwner, TablesOK, CallsOK, CallOK
  <2>4. CallOK(IdleCall)' /\ Inherits(r, IdleCall)
    <3>1. IdleCall \in Call /\ IdleCall.pc = "idle"
      BY IdleCallOK DEF CallOK, IdleCall
    <3> QED
      BY <3>1, PlainCall
  <2>5. CallsOK' /\ SoleOwner'
    BY <2>1, <2>2, <2>3, <2>4, OneMoves, SoleOwnerKept
  <2>6. TablesOK' /\ RowsOK' /\ SuccessWasPaid' /\ ConfirmedIsPaid'
    BY <2>1 DEF TablesOK, RowsOK, SuccessWasPaid, ConfirmedIsPaid, OrderState
  <2> QED
    BY <2>5, <2>6 DEF IInv
<1>4. CASE Decide(r)
  <2> DEFINE p == call[r].pay
  <2>1. /\ call[r].pc = "decide" /\ p \in Payment /\ status[p] = "pending"
        /\ call[r].out \in Terminal /\ (call[r].out = "success" => order[p] = "paid")
        /\ status' = [status EXCEPT ![p] = call[r].out]
        /\ UNCHANGED <<booking, aged, target, due, order, lock, faults>>
    BY <1>4 DEF Decide, At, CallOK
  <2>2. target[p] \in Booking
    BY <2>1 DEF RowsOK
  <2>0. PICK c : c = [call[r] EXCEPT !.pc = "update", !.bk = target[p], !.todo = GroupOf[target[p]]]
    OBVIOUS
  <2>3. Becomes(r, c)
    BY <1>4, <2>0 DEF Decide
  <2>4. /\ c \in Call /\ c.pc = "update" /\ c.pay = p /\ c.bk = target[p]
        /\ c.out = call[r].out /\ c.todo = GroupOf[target[p]]
    BY <2>0, <2>2, BookingAssumption DEF Call, Label
  <2>5. GroupOf[target[p]] # {}
    BY <2>2, BookingAssumption
  <2>6. status'[p] = call[r].out
    BY <2>1 DEF TablesOK
  <2>7. CallOK(c)'
    BY <2>1, <2>2, <2>4, <2>5, <2>6 DEF CallOK
  <2>8. Advance
    BY <2>1 DEF Advance, TablesOK, Terminal
  <2>9. CallsOK'
    BY <2>1, <2>3, <2>7, <2>8, OneMoves
  <2>10. SoleOwner'
    <3>1. ASSUME NEW q \in Request, q # r, call[q].pc \in {"update", "release"}
          PROVE  call[q].pay # p
      BY <3>1, <2>1 DEF CallsOK, CallOK, Terminal
    <3>2. /\ call'[r] = c
          /\ \A q \in Request \ {r} : call'[q] = call[q]
      BY <2>3, <2>4 DEF Becomes, CallsOK
    <3> QED
      BY <2>4, <3>1, <3>2 DEF SoleOwner
  <2>11. TablesOK' /\ RowsOK'
    BY <2>1 DEF TablesOK, RowsOK, PaymentStatus, Terminal
  <2>12. SuccessWasPaid' /\ ConfirmedIsPaid'
    BY <2>1 DEF TablesOK, SuccessWasPaid, ConfirmedIsPaid
  <2> QED
    BY <2>9, <2>10, <2>11, <2>12 DEF IInv
<1> QED
  BY <1>1, <1>2, <1>3, <1>4

LEMMA InitIInv == Init => IInv
<1> SUFFICES ASSUME Init PROVE IInv
  OBVIOUS
<1>1. TablesOK
  BY BoundAssumption DEF Init, TablesOK, BookingStatus, PaymentStatus, OrderState
<1>2. \A r \in Request : call[r] = IdleCall
  BY DEF Init
<1>3. CallsOK
  BY <1>2, IdleCallOK DEF Init, CallsOK, CallOK
<1>4. SoleOwner
  BY <1>2 DEF SoleOwner, IdleCall
<1>5. RowsOK /\ SuccessWasPaid /\ ConfirmedIsPaid
  BY DEF Init, RowsOK, SuccessWasPaid, ConfirmedIsPaid
<1> QED
  BY <1>1, <1>3, <1>4, <1>5 DEF IInv

LEMMA NextIInv == IInv /\ [Next]_vars => IInv'
<1> SUFFICES ASSUME IInv, [Next]_vars PROVE IInv'
  OBVIOUS
<1>1. CASE UNCHANGED vars
  BY <1>1 DEF vars, tables, IInv, TablesOK, RowsOK, CallsOK, CallOK, SoleOwner,
              SuccessWasPaid, ConfirmedIsPaid
<1>2. CASE \/ \E b \in Booking : AgeBooking(b) \/ MarkCompletedBookings(b)
           \/ \E p \in Payment : PassDeadline(p) \/ Pays(p)
           \/ \E s \in Slot : ExpireLock(s)
  BY <1>2, OutsideSteps
<1>3. ASSUME NEW r \in Request,
             \/ \E b \in Booking :
                  \/ CreateBooking(r, b) \/ CancelBooking(r, b)
                  \/ CreatePayment(r, b) \/ GetBookingPayment(r, b)
             \/ \E p \in Payment :
                  SettleCallback(r, p) \/ GetPayment(r, p) \/ CancelPayment(r, p)
             \/ Reconcile(r)
             \/ Step(r)
             \/ Abandon(r)
      PROVE  IInv'
  <2>1. CASE \/ \E b \in Booking : GetBookingPayment(r, b)
             \/ \E p \in Payment : GetPayment(r, p) \/ CancelPayment(r, p)
    <3>1. \E p \in Payment, o \in {"get", "cancel"} : EnsureCurrentStatus(r, p, o)
      BY <2>1 DEF GetBookingPayment, GetPayment, CancelPayment, LatestPending, PendingOf
    <3> QED
      BY <3>1, SettleSteps
  <2>2. CASE \E b \in Booking :
               CreateBooking(r, b) \/ CancelBooking(r, b) \/ CreatePayment(r, b)
    BY <2>2, BookingSteps
  <2>3. CASE \E p \in Payment : SettleCallback(r, p)
    BY <2>3, SettleSteps
  <2>4. CASE Reconcile(r) \/ Step(r) \/ Abandon(r)
    BY <2>4, BookingSteps, LockSteps, SettleSteps, BookingWrites, PaymentWrites DEF Step
  <2> QED
    BY <1>3, <2>1, <2>2, <2>3, <2>4
<1> QED
  BY <1>1, <1>2, <1>3 DEF Next

\* Every reachable state satisfies the inductive invariant.
THEOREM Invariance == Spec => []IInv
BY InitIInv, NextIInv, PTL DEF Spec

\* Type correctness of the tables, the locks and the calls.
THEOREM TypeCorrect == Spec => []TypeOK
<1>1. IInv => TypeOK
  BY DEF IInv, TypeOK, TablesOK, CallsOK
<1> QED
  BY <1>1, Invariance, PTL

\* Of all calls that race for a payment one carries its outcome to the
\* bookings, and what it writes is the status the payment has.
THEOREM WinnerIsAlone == Spec => []OneWinner
<1>1. IInv => OneWinner
  BY DEF IInv, OneWinner, Applying, CallsOK, CallOK, SoleOwner
<1> QED
  BY <1>1, Invariance, PTL

\* No payment succeeds that was not paid before its ExpireAt.
THEOREM SuccessIsPaid == Spec => []SuccessWasPaid
<1>1. IInv => SuccessWasPaid
  BY DEF IInv
<1> QED
  BY <1>1, Invariance, PTL

\* No booking is confirmed without a successful payment for its group.
THEOREM ConfirmationIsPaid == Spec => []ConfirmedIsPaid
<1>1. IInv => ConfirmedIsPaid
  BY DEF IInv
<1> QED
  BY <1>1, Invariance, PTL

-----------------------------------------------------------------------------
(* Slot locks *)

\* The bookings whose locks a call answers for.
Holds(c) ==
  IF c.pc = "lock" THEN c.slots \ c.todo
  ELSE IF c.pc = "insert" THEN c.slots
  ELSE IF c.pc \in {"rollback", "unlock", "update", "release"} THEN c.todo
  ELSE {}

\* The bookings whose locks a pending payment answers for.
Pledged == {b \in Booking : \E p \in Payment : status[p] = "pending" /\ b \in GroupOf[target[p]]}

\* CreatePayment works on the whole group of its booking.
LockCall(c) ==
  /\ c.pc \in {"lock", "insert", "ticket"} => c.slots = GroupOf[c.bk]
  /\ c.pc = "lock" => c.todo \subseteq c.slots
  /\ c.pc = "ticket" => c.bk = target[c.pay]

LockInv ==
  /\ \A s \in Slot : lock[s] # None => SlotOf[lock[s]] = s
  /\ \A r \in Request : LockCall(call[r])
  /\ \A s \in Slot : lock[s] # None =>
       lock[s] \in Pledged \/ \E r \in Request : lock[s] \in Holds(call[r])

LEMMA ReasonIsHeld == TablesOK /\ LockInv => LocksHaveReason
BY BookingAssumption DEF TablesOK, LockInv, LocksHaveReason, Holds, Pledged, At

LEMMA NoFault == ASSUME MaxFaults = 0, IInv, Fault PROVE FALSE
BY DEF Fault, IInv, TablesOK

\* What a step of request r has to answer for.
LEMMA Moves ==
  ASSUME IInv, LockInv, NEW r \in Request,
         \A q \in Request \ {r} : call'[q] = call[q],
         LockCall(call[r])',
         \A p \in Payment : status[p] # "absent" => target'[p] = target[p],
         \A s \in Slot : lock'[s] # None =>
            /\ SlotOf[lock'[s]] = s
            /\ lock'[s] \in Holds(call'[r]) \/ lock'[s] = lock[s],
         \A s \in Slot :
            /\ lock'[s] # None /\ lock'[s] = lock[s]
            /\ lock[s] \in Pledged \/ lock[s] \in Holds(call[r])
            => lock[s] \in Pledged' \/ lock[s] \in Holds(call'[r])
  PROVE  LockInv'
<1>1. ASSUME NEW q \in Request PROVE LockCall(call[q])'
  <2>1. CASE q = r
    BY <2>1
  <2>2. CASE q # r
    <3>1. call'[q] = call[q] /\ LockCall(call[q]) /\ CallOK(call[q])
      BY <2>2 DEF LockInv, IInv, CallsOK
    <3>2. call[q].pc = "ticket" => target'[call[q].pay] = target[call[q].pay]
      BY <3>1 DEF CallOK
    <3> QED
      BY <3>1, <3>2 DEF LockCall
  <2> QED
    BY <2>1, <2>2
<1>2. ASSUME NEW s \in Slot, lock'[s] # None
      PROVE  lock'[s] \in Pledged' \/ \E q \in Request : lock'[s] \in Holds(call'[q])
  <2>1. CASE lock'[s] \in Holds(call'[r])
    BY <2>1
  <2>2. CASE lock'[s] = lock[s]
    <3>1. CASE lock[s] \in Pledged \/ lock[s] \in Holds(call[r])
      BY <1>2, <2>2, <3>1
    <3>2. CASE \E q \in Request \ {r} : lock[s] \in Holds(call[q])
      BY <2>2, <3>2
    <3> QED
      BY <1>2, <2>2, <3>1, <3>2 DEF LockInv
  <2> QED
    BY <1>2, <2>1, <2>2
<1> QED
  BY <1>1, <1>2 DEF LockInv, Holds

\* Points at which a call has nothing to do with locks.
Free == {"idle", "bookCheck", "bookInsert", "userCancel", "find", "order", "query",
         "expiry", "decide", "next"}

LEMMA FreeStep ==
  ASSUME IInv, LockInv, NEW r \in Request, NEW c, Becomes(r, c),
         call[r].pc \in Free, c.pc \in Free, UNCHANGED <<lock, status, target>>
  PROVE  LockInv'
<1>1. call'[r] = c /\ \A q \in Request \ {r} : call'[q] = call[q]
  BY DEF Becomes, IInv, CallsOK
<1>2. Holds(call[r]) = {} /\ LockCall(call[r])'
  BY <1>1 DEF Holds, Free, LockCall
<1>3. Pledged' = Pledged
  BY DEF Pledged
<1> QED
  BY <1>1, <1>2, <1>3, Moves DEF LockInv

LEMMA FreeBegin ==
  ASSUME IInv, LockInv, NEW r \in Request, NEW o, NEW c, c \in Call, Begin(r, o, c),
         c.pc \in Free, UNCHANGED <<lock, status, target>>
  PROVE  LockInv'
<1>1. PICK d : d = [c EXCEPT !.op = o]
  OBVIOUS
<1>2. d.pc \in Free /\ Becomes(r, d)
  BY <1>1 DEF Begin, Call, Becomes
<1>3. call[r].pc \in Free
  BY DEF Begin, At, Free
<1> QED
  BY <1>2, <1>3, FreeStep

\* EnsurePaymentCurrent returns to where there are no locks.
LEMMA ReturnsFree ==
  ASSUME IInv, NEW r \in Request, NEW b, EnsureReturns(r, b)
  PROVE  \E c : Becomes(r, c) /\ c.pc \in Free
<1>1. PICK c : /\ Becomes(r, c)
               /\ \/ c = [call[r] EXCEPT !.pc = "decide", !.out = "failed"]
                  \/ c = [IdleCall EXCEPT !.op = "reconcile", !.pc = "next", !.queue = call[r].queue]
                  \/ c = IdleCall
  BY DEF EnsureReturns, Becomes
<1>2. call[r] \in Call
  BY DEF IInv, CallsOK
<1>3. CASE c = [call[r] EXCEPT !.pc = "decide", !.out = "failed"]
  BY <1>1, <1>2, <1>3 DEF Call, Free
<1>4. CASE c = [IdleCall EXCEPT !.op = "reconcile", !.pc = "next", !.queue = call[r].queue]
  BY <1>1, <1>4 DEF IdleCall, Free
<1>5. CASE c = IdleCall
  BY <1>1, <1>5 DEF IdleCall, Free
<1> QED
  BY <1>1, <1>3, <1>4, <1>5

LEMMA IdleIsCall == IdleCall \in Call /\ IdleCall.pc = "idle"
BY IdleCallOK DEF CallOK, IdleCall

-----------------------------------------------------------------------------
(* Steps that take or give back no lock *)

LEMMA BeginSteps ==
  ASSUME IInv, LockInv, NEW r \in Request,
         \/ \E b \in Booking :
              CreateBooking(r, b) \/ CancelBooking(r, b) \/ CreatePayment(r, b)
         \/ \E p \in Payment : SettleCallback(r, p) \/ \E o : EnsureCurrentStatus(r, p, o)
         \/ Reconcile(r)
  PROVE  LockInv'
<1> USE DEF tables
<1>1. ASSUME NEW b \in Booking, CreateBooking(r, b) PROVE LockInv'
  <2>1. PICK c : c = [IdleCall EXCEPT !.pc = "bookCheck", !.bk = b, !.todo = GroupOf[b]]
    OBVIOUS
  <2>2. c \in Call /\ c.pc \in Free
    BY <2>1, IdleIsCall, BookingAssumption DEF IdleCall, Call, Free, Label
  <2> QED
    BY <1>1, <2>1, <2>2, FreeBegin DEF CreateBooking
<1>2. ASSUME NEW b \in Booking, CancelBooking(r, b) PROVE LockInv'
  <2>1. PICK c : c = [IdleCall EXCEPT !.pc = "userCancel", !.bk = b]
    OBVIOUS
  <2>2. c \in Call /\ c.pc \in Free
    BY <2>1, IdleIsCall DEF IdleCall, Call, Free, Label
  <2> QED
    BY <1>2, <2>1, <2>2, FreeBegin DEF CancelBooking
<1>3. ASSUME NEW b \in Booking, CreatePayment(r, b) PROVE LockInv'
  <2>1. PICK c : c = [IdleCall EXCEPT !.pc = "find", !.bk = b]
    OBVIOUS
  <2>2. c \in Call /\ c.pc \in Free
    BY <2>1, IdleIsCall DEF IdleCall, Call, Free, Label
  <2> QED
    BY <1>3, <2>1, <2>2, FreeBegin DEF CreatePayment
<1>4. ASSUME NEW p \in Payment, SettleCallback(r, p) PROVE LockInv'
  <2>1. PICK stamped \in BOOLEAN :
          Begin(r, "callback",
            [IdleCall EXCEPT !.pc = "decide", !.pay = p,
                             !.out = IF PaidInTime(p, stamped) THEN "success" ELSE "expired"])
    BY <1>4 DEF SettleCallback
  <2>2. PICK o : o = IF PaidInTime(p, stamped) THEN "success" ELSE "expired"
    OBVIOUS
  <2>3. PICK c : c = [IdleCall EXCEPT !.pc = "decide", !.pay = p, !.out = o]
    OBVIOUS
  <2>4. c \in Call /\ c.pc \in Free
    BY <2>2, <2>3, IdleIsCall DEF IdleCall, Call, Free, Label, Terminal
  <2> QED
    BY <1>4, <2>1, <2>2, <2>3, <2>4, FreeBegin DEF SettleCallback
<1>5. ASSUME NEW p \in Payment, NEW o, EnsureCurrentStatus(r, p, o) PROVE LockInv'
  <2>1. PICK c : c = [IdleCall EXCEPT !.pc = "query", !.pay = p]
    OBVIOUS
  <2>2. c \in Call /\ c.pc \in Free
    BY <2>1, IdleIsCall DEF IdleCall, Call, Free, Label
  <2> QED
    BY <1>5, <2>1, <2>2, FreeBegin DEF EnsureCurrentStatus
<1>6. CASE Reconcile(r)
  <2>1. PICK c : c = [IdleCall EXCEPT !.pc = "next", !.queue = FindPendingPayments]
    OBVIOUS
  <2>2. c \in Call /\ c.pc \in Free
    BY <2>1, IdleIsCall DEF IdleCall, Call, Free, Label, FindPendingPayments
  <2> QED
    BY <1>6, <2>1, <2>2, FreeBegin DEF Reconcile
<1> QED
  BY <1>1, <1>2, <1>3, <1>4, <1>5, <1>6

LEMMA FreeSteps ==
  ASSUME MaxFaults = 0, IInv, LockInv, NEW r \in Request,
         \/ CheckOverlap(r) \/ InsertBookings(r) \/ WriteCancelled(r) \/ CreateOrder(r)
         \/ ReconcileNext(r) \/ MarkExpiredPendingBookings(r)
         \/ QueryOrder(r) \/ CheckExpiry(r) \/ LoseDecision(r)
  PROVE  LockInv'
<1> USE DEF tables
<1>1. UNCHANGED <<lock, status, target>> /\ call[r].pc \in Free
  BY DEF CheckOverlap, InsertBookings, WriteCancelled, CreateOrder, ReconcileNext,
         MarkExpiredPendingBookings, QueryOrder, CheckExpiry, LoseDecision, At, Free
<1>2. call[r] \in Call
  BY DEF IInv, CallsOK
<1>3. CASE InsertBookings(r) \/ WriteCancelled(r) \/ CreateOrder(r) \/ MarkExpiredPendingBookings(r)
  <2>1. Becomes(r, IdleCall)
    BY <1>3 DEF InsertBookings, WriteCancelled, CreateOrder, MarkExpiredPendingBookings,
                Return, Becomes
  <2> QED
    BY <1>1, <2>1, IdleIsCall, FreeStep DEF Free
<1>4. CASE CheckOverlap(r)
  <2>1. PICK c \in call[r].todo :
          Return(r) \/ Continue(r, call[r].todo \ {c}, "bookCheck", "bookInsert")
    BY <1>4 DEF CheckOverlap
  <2>2. CASE Return(r)
    BY <1>1, <2>2, IdleIsCall, FreeStep DEF Free, Return
  <2>3. CASE Continue(r, call[r].todo \ {c}, "bookCheck", "bookInsert")
    <3>1. PICK d : /\ Becomes(r, d)
                   /\ \/ d = [call[r] EXCEPT !.todo = call[r].todo \ {c}, !.pc = "bookCheck"]
                      \/ d = [call[r] EXCEPT !.todo = {}, !.pc = "bookInsert"]
      BY <2>3 DEF Continue, Becomes
    <3>2. d.pc \in Free
      BY <1>2, <3>1 DEF Call, Free
    <3> QED
      BY <1>1, <3>1, <3>2, FreeStep
  <2> QED
    BY <2>1, <2>2, <2>3
<1>5. CASE ReconcileNext(r)
  <2>1. PICK p \in call[r].queue :
          Becomes(r, [call[r] EXCEPT !.pc = "query", !.pay = p, !.queue = @ \ {p}])
    BY <1>5 DEF ReconcileNext
  <2>2. PICK c : c = [call[r] EXCEPT !.pc = "query", !.pay = p, !.queue = call[r].queue \ {p}]
    OBVIOUS
  <2>3. Becomes(r, c) /\ c.pc \in Free
    BY <1>2, <2>1, <2>2 DEF Call, Free, Becomes
  <2> QED
    BY <1>1, <2>3, FreeStep
<1>6. CASE QueryOrder(r)
  <2>1. PICK c : /\ Becomes(r, c)
                 /\ \/ c = [call[r] EXCEPT !.pc = "decide", !.out = "success"]
                    \/ c = [call[r] EXCEPT !.pc = "expiry"]
    BY <1>6 DEF QueryOrder, Goto, Becomes
  <2>2. c.pc \in Free
    BY <1>2, <2>1 DEF Call, Free
  <2> QED
    BY <1>1, <2>1, <2>2, FreeStep
<1>7. CASE CheckExpiry(r)
  <2>1. CASE EnsureReturns(r, TRUE)
    BY <1>1, <2>1, ReturnsFree, FreeStep
  <2>2. CASE Becomes(r, [call[r] EXCEPT !.pc = "decide", !.out = "expired"])
    <3>1. PICK c : c = [call[r] EXCEPT !.pc = "decide", !.out = "expired"]
      OBVIOUS
    <3>2. Becomes(r, c) /\ c.pc \in Free
      BY <1>2, <2>2, <3>1 DEF Call, Free
    <3> QED
      BY <1>1, <3>2, FreeStep
  <2> QED
    BY <1>7, <2>1, <2>2 DEF CheckExpiry
<1>8. CASE LoseDecision(r)
  <2>1. CASE EnsureReturns(r, FALSE)
    BY <1>1, <2>1, ReturnsFree, FreeStep
  <2>2. CASE Becomes(r, [call[r] EXCEPT !.pc = "expiry", !.out = None])
    <3>1. PICK c : c = [call[r] EXCEPT !.pc = "expiry", !.out = None]
      OBVIOUS
    <3>2. Becomes(r, c) /\ c.pc \in Free
      BY <1>2, <2>2, <3>1 DEF Call, Free
    <3> QED
      BY <1>1, <3>2, FreeStep
  <2> QED
    BY <1>8, <2>1, <2>2 DEF LoseDecision
<1> QED
  BY <1>3, <1>4, <1>5, <1>6, <1>7, <1>8

-----------------------------------------------------------------------------
(* Steps that do *)

\* A call that goes on with a set of bookings, or is over.
LEMMA ContinuesWith ==
  ASSUME IInv, NEW r \in Request, NEW S, NEW l, NEW last, Continue(r, S, l, last),
         last \in {"idle", "insert"}
  PROVE  /\ S # {} => /\ call'[r].pc = l /\ call'[r].todo = S
                      /\ call'[r].slots = call[r].slots /\ call'[r].bk = call[r].bk
                      /\ call'[r].pay = call[r].pay
         /\ S = {} /\ last = "idle" => call'[r] = IdleCall
         /\ S = {} /\ last = "insert" => /\ call'[r].pc = "insert"
                                         /\ call'[r].slots = call[r].slots
                                         /\ call'[r].bk = call[r].bk
         /\ \A q \in Request \ {r} : call'[q] = call[q]
<1>1. call \in [Request -> Call] /\ call[r] \in Call
  BY DEF IInv, CallsOK
<1>2. CASE S # {}
  <2>1. call' = [call EXCEPT ![r] = [call[r] EXCEPT !.todo = S, !.pc = l]]
    BY <1>2 DEF Continue, Becomes
  <2> QED
    BY <1>1, <1>2, <2>1 DEF Call
<1>3. CASE S = {} /\ last = "idle"
  <2>1. call' = [call EXCEPT ![r] = IdleCall]
    BY <1>3 DEF Continue, Becomes
  <2> QED
    BY <1>1, <1>3, <2>1
<1>4. CASE S = {} /\ last = "insert"
  <2>1. call' = [call EXCEPT ![r] = [call[r] EXCEPT !.todo = {}, !.pc = "insert"]]
    BY <1>4 DEF Continue, Becomes
  <2> QED
    BY <1>1, <1>4, <2>1 DEF Call
<1> QED
  BY <1>2, <1>3, <1>4

LEMMA FindPendingKeeps ==
  ASSUME IInv, LockInv, NEW r \in Request, FindPending(r)
  PROVE  LockInv'
<1>1. call \in [Request -> Call] /\ call[r] \in Call /\ call[r].pc = "find"
  BY DEF IInv, CallsOK, FindPending, At
<1>2. UNCHANGED <<lock, status, target>>
  BY DEF FindPending, tables
<1>3. ASSUME NEW p, Becomes(r, [call[r] EXCEPT !.pc = "query", !.pay = p]) PROVE LockInv'
  <2>1. PICK c : c = [call[r] EXCEPT !.pc = "query", !.pay = p]
    OBVIOUS
  <2>2. Becomes(r, c) /\ c.pc \in Free /\ call[r].pc \in Free
    BY <1>1, <1>3, <2>1 DEF Call, Free
  <2> QED
    BY <1>2, <2>2, FreeStep
<1>4. CASE Locking(r, GroupOf[call[r].bk])
  <2>1. call[r].bk \in Booking
    BY <1>1 DEF IInv, CallsOK, CallOK
  <2>2. GroupOf[call[r].bk] # {}
    BY <2>1, BookingAssumption
  <2>3. call' = [call EXCEPT ![r] = [call[r] EXCEPT !.pc = "lock",
                                       !.slots = GroupOf[call[r].bk], !.todo = GroupOf[call[r].bk]]]
    BY <1>4, <2>2 DEF Locking, Becomes
  <2>4. /\ call'[r].pc = "lock" /\ call'[r].bk = call[r].bk
        /\ call'[r].slots = GroupOf[call[r].bk] /\ call'[r].todo = GroupOf[call[r].bk]
        /\ \A q \in Request \ {r} : call'[q] = call[q]
    BY <1>1, <2>3 DEF Call
  <2>5. LockCall(call[r])' /\ Holds(call[r]) = {}
    BY <1>1, <2>4 DEF LockCall, Holds
  <2>6. Pledged' = Pledged
    BY <1>2 DEF Pledged
  <2> QED
    BY <1>2, <2>4, <2>5, <2>6, Moves DEF LockInv
<1> QED
  BY <1>3, <1>4 DEF FindPending

LEMMA LockSlotKeeps ==
  ASSUME IInv, LockInv, NEW r \in Request, LockSlot(r)
  PROVE  LockInv'
<1>1. /\ call[r].pc = "lock" /\ call[r] \in Call /\ call[r].bk \in Booking
      /\ lock \in [Slot -> Booking \cup {None}]
  BY DEF IInv, TablesOK, CallsOK, CallOK, LockSlot, At
<1>2. UNCHANGED <<status, target>>
  BY DEF LockSlot
<1>3. call[r].slots = GroupOf[call[r].bk] /\ call[r].todo \subseteq call[r].slots
  BY <1>1 DEF LockInv, LockCall
<1>4. Pledged' = Pledged
  BY <1>2 DEF Pledged
<1>5. Holds(call[r]) = call[r].slots \ call[r].todo
  BY <1>1 DEF Holds
<1>6. ASSUME NEW c \in call[r].todo, lock[SlotOf[c]] = None,
             lock' = [lock EXCEPT ![SlotOf[c]] = c],
             Continue(r, call[r].todo \ {c}, "lock", "insert")
      PROVE  LockInv'
  <2>1. c \in Booking /\ SlotOf[c] \in Slot
    BY <1>1, BookingAssumption DEF Call
  <2>2. /\ call'[r].pc \in {"lock", "insert"}
        /\ call'[r].pc = "lock" => call'[r].todo = call[r].todo \ {c}
        /\ call'[r].pc = "insert" => call[r].todo \ {c} = {}
        /\ call'[r].slots = call[r].slots /\ call'[r].bk = call[r].bk
        /\ \A q \in Request \ {r} : call'[q] = call[q]
    BY <1>6, ContinuesWith
  <2>3. Holds(call'[r]) = (call[r].slots \ call[r].todo) \cup {c}
    BY <1>3, <2>2 DEF Holds
  <2>4. LockCall(call[r])'
    BY <1>3, <2>2 DEF LockCall
  <2>5. \A s \in Slot : lock'[s] = IF s = SlotOf[c] THEN c ELSE lock[s]
    BY <1>1, <1>6
  <2>6. \A s \in Slot : lock'[s] # None =>
            /\ SlotOf[lock'[s]] = s
            /\ lock'[s] \in Holds(call'[r]) \/ lock'[s] = lock[s]
    BY <2>3, <2>5 DEF LockInv
  <2> QED
    BY <1>2, <1>4, <1>5, <2>2, <2>3, <2>4, <2>6, Moves
<1>7. ASSUME Continue(r, call[r].slots \ call[r].todo, "rollback", "idle"), UNCHANGED lock
      PROVE  LockInv'
  <2>1. /\ call'[r].pc \in {"rollback", "idle"}
        /\ call'[r].pc = "rollback" => call'[r].todo = call[r].slots \ call[r].todo
        /\ call'[r].pc = "idle" => call[r].slots \ call[r].todo = {}
        /\ \A q \in Request \ {r} : call'[q] = call[q]
    BY <1>7, ContinuesWith, IdleIsCall
  <2>2. Holds(call'[r]) = Holds(call[r])
    BY <1>5, <2>1 DEF Holds
  <2>3. LockCall(call[r])'
    BY <2>1 DEF LockCall
  <2> QED
    BY <1>2, <1>4, <1>7, <2>1, <2>2, <2>3, Moves DEF LockInv
<1> QED
  BY <1>6, <1>7 DEF LockSlot

\* Rollback and release: the lock of the booking is gone or was another's.
LEMMA GiveBackKeeps ==
  ASSUME IInv, LockInv, NEW r \in Request, NEW c \in call[r].todo, NEW pc,
         pc \in {"rollback", "unlock"}, call[r].pc = pc,
         lock' = [lock EXCEPT ![SlotOf[c]] = None] \/ lock' = Released(c),
         Continue(r, call[r].todo \ {c}, pc, "idle"), UNCHANGED <<status, target>>
  PROVE  LockInv'
<1>1. call[r] \in Call /\ lock \in [Slot -> Booking \cup {None}]
  BY DEF IInv, TablesOK, CallsOK
<1>2. c \in Booking /\ SlotOf[c] \in Slot /\ c # None
  BY <1>1, BookingAssumption DEF Call
<1>3. \A s \in Slot : lock'[s] # None => lock'[s] = lock[s] /\ lock[s] # c
  BY <1>1, <1>2 DEF Released, LockInv
<1>4. /\ call'[r].pc \in {pc, "idle"}
      /\ call'[r].pc = pc => call'[r].todo = call[r].todo \ {c}
      /\ call'[r].pc = "idle" => call[r].todo \ {c} = {}
      /\ \A q \in Request \ {r} : call'[q] = call[q]
  BY ContinuesWith, IdleIsCall
<1>5. Holds(call'[r]) = Holds(call[r]) \ {c}
  BY <1>4 DEF Holds
<1>6. LockCall(call[r])'
  BY <1>4 DEF LockCall
<1>7. Pledged' = Pledged
  BY DEF Pledged
<1> QED
  BY <1>3, <1>4, <1>5, <1>6, <1>7, Moves DEF LockInv

LEMMA InsertPaymentKeeps ==
  ASSUME IInv, LockInv, NEW r \in Request, InsertPayment(r)
  PROVE  LockInv'
<1>1. /\ call[r].pc = "insert" /\ call[r] \in Call /\ call[r].bk \in Booking
      /\ status \in [Payment -> PaymentStatus] /\ target \in [Payment -> Booking \cup {None}]
      /\ call \in [Request -> Call]
  BY DEF IInv, TablesOK, CallsOK, CallOK, InsertPayment, At
<1>2. PICK p \in Payment :
       /\ status[p] = "absent"
       /\ status' = [status EXCEPT ![p] = "pending"]
       /\ target' = [target EXCEPT ![p] = call[r].bk]
       /\ Becomes(r, [call[r] EXCEPT !.pc = "ticket", !.pay = p])
  BY DEF InsertPayment
<1>3. /\ call'[r].pc = "ticket" /\ call'[r].pay = p /\ call'[r].bk = call[r].bk
      /\ call'[r].slots = call[r].slots
      /\ \A q \in Request \ {r} : call'[q] = call[q]
  BY <1>1, <1>2 DEF Becomes, Call
<1>4. /\ status'[p] = "pending" /\ target'[p] = call[r].bk
      /\ \A q \in Payment \ {p} : status'[q] = status[q] /\ target'[q] = target[q]
  BY <1>1, <1>2
<1>5. call[r].slots = GroupOf[call[r].bk]
  BY <1>1 DEF LockInv, LockCall
<1>6. LockCall(call[r])'
  BY <1>3, <1>4, <1>5 DEF LockCall
<1>7. Pledged \subseteq Pledged'
  BY <1>2, <1>4 DEF Pledged
<1>8. Holds(call[r]) \subseteq Pledged'
  <2>1. GroupOf[call[r].bk] \subseteq Booking
    BY <1>1, BookingAssumption
  <2> QED
    BY <1>1, <1>4, <1>5, <2>1 DEF Holds, Pledged
<1>9. UNCHANGED lock
  BY DEF InsertPayment
<1> QED
  BY <1>2, <1>3, <1>4, <1>6, <1>7, <1>8, <1>9, Moves DEF LockInv

LEMMA TicketKeeps ==
  ASSUME MaxFaults = 0, IInv, LockInv, NEW r \in Request, CreateTicket(r) \/ TicketFails(r)
  PROVE  LockInv'
<1>1. /\ call[r].pc = "ticket" /\ call[r] \in Call /\ call[r].pay \in Payment
      /\ call \in [Request -> Call] /\ status \in [Payment -> PaymentStatus]
  BY DEF IInv, TablesOK, CallsOK, CallOK, CreateTicket, TicketFails, At
<1>2. Holds(call[r]) = {}
  BY <1>1 DEF Holds
<1>3. CASE CreateTicket(r)
  <2>1. /\ call'[r].pc = "order" /\ \A q \in Request \ {r} : call'[q] = call[q]
    BY <1>1, <1>3 DEF CreateTicket, Goto, Becomes, Call
  <2>2. LockCall(call[r])' /\ UNCHANGED <<lock, status, target>>
    BY <1>3, <2>1 DEF LockCall, CreateTicket, tables
  <2>3. Pledged' = Pledged
    BY <2>2 DEF Pledged
  <2> QED
    BY <1>2, <2>1, <2>2, <2>3, Moves DEF LockInv
<1>4. CASE TicketFails(r)
  <2>1. /\ status' = [status EXCEPT ![call[r].pay] = IF @ = "pending" THEN "failed" ELSE @]
        /\ Continue(r, call[r].slots, "unlock", "idle")
        /\ UNCHANGED <<lock, target>>
    BY <1>4 DEF TicketFails, Unlocking
  <2>2. call[r].slots = GroupOf[target[call[r].pay]] /\ call[r].slots = GroupOf[call[r].bk]
    BY <1>1 DEF LockInv, LockCall
  <2>3. call[r].bk \in Booking
    BY <1>1 DEF IInv, CallsOK, CallOK
  <2>4. call[r].slots # {}
    BY <2>2, <2>3, BookingAssumption
  <2>5. /\ call'[r].pc = "unlock" /\ call'[r].todo = call[r].slots
        /\ \A q \in Request \ {r} : call'[q] = call[q]
    BY <2>1, <2>4, ContinuesWith
  <2>6. Holds(call'[r]) = GroupOf[target[call[r].pay]]
    BY <2>2, <2>5 DEF Holds
  <2>7. LockCall(call[r])'
    BY <2>5 DEF LockCall
  <2>8. \A q \in Payment \ {call[r].pay} : status'[q] = status[q]
    BY <1>1, <2>1
  <2>9. \A b \in Pledged : b \in Pledged' \/ b \in Holds(call'[r])
    BY <2>1, <2>6, <2>8 DEF Pledged
  <2> QED
    BY <1>2, <2>1, <2>5, <2>7, <2>9, Moves DEF LockInv
<1> QED
  BY <1>3, <1>4

\* The pending payment hands its group over to whoever has decided it.
LEMMA DecideKeeps ==
  ASSUME IInv, LockInv, NEW r \in Request, Decide(r)
  PROVE  LockInv'
<1>1. /\ call[r].pc = "decide" /\ call[r] \in Call /\ call[r].pay \in Payment
      /\ call[r].out \in Terminal
      /\ call \in [Request -> Call] /\ status \in [Payment -> PaymentStatus]
  BY DEF IInv, TablesOK, CallsOK, CallOK, Decide, At
<1>2. PICK p \in Payment :
       /\ p = call[r].pay
       /\ status' = [status EXCEPT ![p] = call[r].out]
       /\ Becomes(r, [call[r] EXCEPT !.pc = "update", !.bk = target[p], !.todo = GroupOf[target[p]]])
       /\ UNCHANGED <<lock, target>>
  BY <1>1 DEF Decide
<1>3. /\ call'[r].pc = "update" /\ call'[r].todo = GroupOf[target[p]]
      /\ \A q \in Request \ {r} : call'[q] = call[q]
  BY <1>1, <1>2 DEF Becomes, Call
<1>4. Holds(call'[r]) = GroupOf[target[p]] /\ Holds(call[r]) = {}
  BY <1>1, <1>3 DEF Holds
<1>5. LockCall(call[r])'
  BY <1>3 DEF LockCall
<1>6. \A q \in Payment \ {p} : status'[q] = status[q]
  BY <1>1, <1>2
<1>7. \A b \in Pledged : b \in Pledged' \/ b \in Holds(call'[r])
  BY <1>2, <1>4, <1>6 DEF Pledged
<1> QED
  BY <1>2, <1>3, <1>4, <1>5, <1>7, Moves DEF LockInv

LEMMA UpdateBookingKeeps ==
  ASSUME IInv, LockInv, NEW r \in Request, UpdateBooking(r)
  PROVE  LockInv'
<1>1. call[r].pc = "update" /\ call[r] \in Call /\ call \in [Request -> Call]
  BY DEF IInv, CallsOK, UpdateBooking, At
<1>2. UNCHANGED <<lock, status, target>>
  BY DEF UpdateBooking
<1>3. /\ call'[r].pc = "release" /\ call'[r].todo = call[r].todo
      /\ \A q \in Request \ {r} : call'[q] = call[q]
  BY <1>1 DEF UpdateBooking, Goto, Becomes, Call
<1>4. Holds(call'[r]) = Holds(call[r]) /\ LockCall(call[r])'
  BY <1>1, <1>3 DEF Holds, LockCall
<1>5. Pledged' = Pledged
  BY <1>2 DEF Pledged
<1> QED
  BY <1>2, <1>3, <1>4, <1>5, Moves DEF LockInv

LEMMA ReleaseKeeps ==
  ASSUME MaxFaults = 0, IInv, LockInv, NEW r \in Request, ReleaseBookingLock(r)
  PROVE  LockInv'
<1>1. /\ call[r].pc = "release" /\ call[r] \in Call /\ call \in [Request -> Call]
      /\ call[r].todo # {} /\ lock \in [Slot -> Booking \cup {None}]
  BY DEF IInv, TablesOK, CallsOK, CallOK, ReleaseBookingLock, At
<1>2. PICK c : c = Current(r)
  OBVIOUS
<1>3. c \in call[r].todo
  BY <1>1, <1>2 DEF Current
<1>4. c \in Booking /\ SlotOf[c] \in Slot /\ c # None
  BY <1>1, <1>3, BookingAssumption DEF Call
<1>5. lock' = Released(c) /\ UNCHANGED <<status, target>>
  BY <1>2, NoFault DEF ReleaseBookingLock
<1>6. \A s \in Slot : lock'[s] # None => lock'[s] = lock[s] /\ lock[s] # c
  BY <1>1, <1>4, <1>5 DEF Released, LockInv
<1>7. Holds(call[r]) = call[r].todo /\ Pledged' = Pledged
  BY <1>1, <1>5 DEF Holds, Pledged
<1>8. CASE call[r].todo \ {c} = {}
  <2>1. PICK d : Becomes(r, d) /\ d.pc \in Free
    BY <1>2, <1>8, ReturnsFree DEF ReleaseBookingLock
  <2>2. call'[r] = d /\ \A q \in Request \ {r} : call'[q] = call[q]
    BY <1>1, <2>1 DEF Becomes
  <2>3. LockCall(call[r])'
    BY <2>1, <2>2 DEF LockCall, Free
  <2>4. Holds(call[r]) \subseteq {c}
    BY <1>7, <1>8
  <2> QED
    BY <1>5, <1>6, <1>7, <2>2, <2>3, <2>4, Moves DEF LockInv
<1>9. CASE call[r].todo \ {c} # {}
  <2>1. Becomes(r, [call[r] EXCEPT !.pc = "update", !.todo = call[r].todo \ {c}])
    BY <1>2, <1>9 DEF ReleaseBookingLock
  <2>2. /\ call'[r].pc = "update" /\ call'[r].todo = call[r].todo \ {c}
        /\ \A q \in Request \ {r} : call'[q] = call[q]
    BY <1>1, <2>1 DEF Becomes, Call
  <2>3. LockCall(call[r])' /\ Holds(call'[r]) = Holds(call[r]) \ {c}
    BY <1>7, <2>2 DEF LockCall, Holds
  <2> QED
    BY <1>5, <1>6, <1>7, <2>2, <2>3, Moves DEF LockInv
<1> QED
  BY <1>8, <1>9

LEMMA OutsideKeeps ==
  ASSUME LockInv, UNCHANGED <<call, status, target>>,
         lock' = lock \/ \E s \in Slot : lock' = [lock EXCEPT ![s] = None],
         lock \in [Slot -> Booking \cup {None}]
  PROVE  LockInv'
<1>1. \A s \in Slot : lock'[s] # None => lock'[s] = lock[s]
  OBVIOUS
<1>2. Pledged' = Pledged
  BY DEF Pledged
<1>3. \A s \in Slot : lock'[s] # None => SlotOf[lock'[s]] = s
  BY <1>1 DEF LockInv
<1>4. \A r \in Request : LockCall(call[r])'
  BY DEF LockInv, LockCall
<1>5. \A s \in Slot : lock'[s] # None =>
        lock'[s] \in Pledged' \/ \E r \in Request : lock'[s] \in Holds(call'[r])
  BY <1>1, <1>2 DEF LockInv
<1> QED
  BY <1>3, <1>4, <1>5 DEF LockInv, Holds

LEMMA StepKeepsLocks ==
  ASSUME MaxFaults = 0, IInv, LockInv, NEW r \in Request, Step(r)
  PROVE  LockInv'
<1>1. CASE Rollback(r) \/ Unlock(r)
  <2>1. PICK c \in call[r].todo, pc \in {"rollback", "unlock"} :
          /\ call[r].pc = pc
          /\ lock' = [lock EXCEPT ![SlotOf[c]] = None] \/ lock' = Released(c)
          /\ Continue(r, call[r].todo \ {c}, pc, "idle")
    BY <1>1 DEF Rollback, Unlock, At
  <2>2. UNCHANGED <<status, target>>
    BY <1>1 DEF Rollback, Unlock
  <2> QED
    BY <2>1, <2>2, GiveBackKeeps
<1>2. CASE FindPendingFails(r) \/ InsertFails(r) \/ OrderFails(r) \/ LookupFails(r)
  BY <1>2, NoFault DEF FindPendingFails, InsertFails, OrderFails, LookupFails
<1> QED
  BY <1>1, <1>2, FreeSteps, FindPendingKeeps, LockSlotKeeps, InsertPaymentKeeps, TicketKeeps,
     DecideKeeps, UpdateBookingKeeps, ReleaseKeeps DEF Step

LEMMA LocksKept ==
  ASSUME MaxFaults = 0, IInv, LockInv, [Next]_vars
  PROVE  LockInv'
<1>1. lock \in [Slot -> Booking \cup {None}]
  BY DEF IInv, TablesOK
<1>2. CASE \/ UNCHANGED vars
           \/ \E b \in Booking : AgeBooking(b) \/ MarkCompletedBookings(b)
           \/ \E p \in Payment : PassDeadline(p) \/ Pays(p)
           \/ \E s \in Slot : ExpireLock(s)
  <2>1. /\ UNCHANGED <<call, status, target>>
        /\ lock' = lock \/ \E s \in Slot : lock' = [lock EXCEPT ![s] = None]
    BY <1>2 DEF vars, tables, AgeBooking, MarkCompletedBookings, PassDeadline, Pays, ExpireLock
  <2> QED
    BY <1>1, <2>1, OutsideKeeps
<1>3. ASSUME NEW r \in Request,
             \/ \E b \in Booking :
                  \/ CreateBooking(r, b) \/ CancelBooking(r, b)
                  \/ CreatePayment(r, b) \/ GetBookingPayment(r, b)
             \/ \E p \in Payment :
                  SettleCallback(r, p) \/ GetPayment(r, p) \/ CancelPayment(r, p)
             \/ Reconcile(r)
      PROVE  LockInv'
  <2>1. CASE \/ \E b \in Booking : GetBookingPayment(r, b)
             \/ \E p \in Payment : GetPayment(r, p) \/ CancelPayment(r, p)
    <3>1. \E p \in Payment : \E o : EnsureCurrentStatus(r, p, o)
      BY <2>1 DEF GetBookingPayment, GetPayment, CancelPayment, LatestPending, PendingOf
    <3> QED
      BY <3>1, BeginSteps
  <2> QED
    BY <1>3, <2>1, BeginSteps
<1>4. ASSUME NEW r \in Request, Step(r) PROVE LockInv'
  BY <1>4, StepKeepsLocks
<1>5. ASSUME NEW r \in Request, Abandon(r) PROVE LockInv'
  BY <1>5, NoFault DEF Abandon
<1> QED
  BY <1>2, <1>3, <1>4, <1>5 DEF Next

-----------------------------------------------------------------------------
(* Theorem *)

LEMMA LockInitially == Init => LockInv
<1> SUFFICES ASSUME Init PROVE LockInv
  OBVIOUS
<1>1. \A r \in Request : LockCall(call[r])
  BY DEF Init, LockCall, IdleCall
<1> QED
  BY <1>1 DEF Init, LockInv

\* When nothing fails no call and no outcome leaves a slot locked behind it.
THEOREM NoLockLeaks == ASSUME MaxFaults = 0 PROVE Spec => []LocksHaveReason
<1>1. IInv /\ LockInv /\ [Next]_vars => LockInv'
  BY LocksKept
<1>2. IInv /\ LockInv => LocksHaveReason
  BY ReasonIsHeld DEF IInv
<1> QED
  BY <1>1, <1>2, LockInitially, Invariance, PTL DEF Spec

=============================================================================
