----------------------------- MODULE PaymentHub -----------------------------
(***************************************************************************)
(* The payment half of the websocket hub: which connection listens to      *)
(* which payment, the single-use tickets in Redis that let it in, the      *)
(* snapshot it is sent, the notification of a decided payment, and the     *)
(* cancellation of the payment when its listener is gone.                  *)
(*                                                                         *)
(* Every server instance has a hub of its own; a connection lives on one   *)
(* of them and is served by one goroutine.  A payment may be decided by a  *)
(* request on any instance, and is announced on the hub of that instance.  *)
(* What happens under the hub's mutex is one step; Redis and the database  *)
(* are asked without it.                                                   *)
(***************************************************************************)
EXTENDS Naturals, FiniteSets

CONSTANTS
  Conn,       \* connections; one that is closed does not come back
  Payment,    \* payments that have been created
  Ticket,     \* tickets that may be issued for them
  Server,     \* server instances
  HomeOf,     \* [Conn -> Server]: the load balancer's choice
  PaymentOf,  \* [Ticket -> Payment]
  Patient,    \* connections whose client neither unsubscribes nor leaves, and
              \* whose snapshot can be read
  Failures,   \* whether round trips may fail and instances may crash
  None

ASSUME HubAssumption ==
  /\ HomeOf \in [Conn -> Server]
  /\ PaymentOf \in [Ticket -> Payment]
  /\ Patient \subseteq Conn
  /\ Failures \in BOOLEAN
  /\ None \notin Conn /\ None \notin Payment
  /\ None \notin {"pending", "success", "failed", "expired"}
  /\ Conn \cap {"unissued", "live", "gone"} = {}

VARIABLES
  status,       \* payments.status
  ticket,       \* "unissued", "live", "gone", or the connection it let in
  paymentConn,  \* of each hub: payment -> connection
  connPayment,  \* connection -> payment, in the hub of its instance
  open,         \* the client is still at the other end
  call,         \* what the goroutine of each connection does
  news,         \* <<s, p>>: a request on s has decided p and will announce it
  heard         \* the last status of a payment that reached the client

registry == <<paymentConn, connPayment>>
vars == <<status, ticket, registry, open, call, news, heard>>

Terminal == {"success", "failed", "expired"}
PaymentStatus == {"pending"} \cup Terminal
Label == {"offline", "read", "check", "validate", "register", "snapshot", "tell",
          "answer", "cancel", "tellLast", "gone"}

Call == [pc : Label, pay : Payment \cup {None}, ticket : Ticket \cup {None},
         seen : PaymentStatus \cup {None}]

Idle(l) == [pc |-> l, pay |-> None, ticket |-> None, seen |-> None]

\* Registry, tickets and calls have their types, crashes and failures included:
\* neither map of the hub ever holds a key of the other.
TypeOK ==
  /\ status \in [Payment -> PaymentStatus]
  /\ ticket \in [Ticket -> Conn \cup {"unissued", "live", "gone"}]
  /\ paymentConn \in [Server -> [Payment -> Conn \cup {None}]]
  /\ connPayment \in [Conn -> Payment \cup {None}]
  /\ open \in [Conn -> BOOLEAN]
  /\ call \in [Conn -> Call]
  /\ news \subseteq Server \X Payment
  /\ heard \in [Conn -> [Payment -> PaymentStatus \cup {None}]]

Init ==
  /\ status = [p \in Payment |-> "pending"]
  /\ ticket = [t \in Ticket |-> "unissued"]
  /\ paymentConn = [s \in Server |-> [p \in Payment |-> None]]
  /\ connPayment = [c \in Conn |-> None]
  /\ open = [c \in Conn |-> FALSE]
  /\ call = [c \in Conn |-> Idle("offline")]
  /\ news = {}
  /\ heard = [c \in Conn |-> [p \in Payment |-> None]]

-----------------------------------------------------------------------------
(* Helpers *)

At(c, l) == call[c].pc = l

Goto(c, l) == call' = [call EXCEPT ![c].pc = l]

\* The goroutine is back at ReadMessage.
Resume(c) == call' = [call EXCEPT ![c] = Idle("read")]

Subscriber(s, p) == paymentConn[s][p]

\* Connection c stops listening to payment p.
Forget(c, p) ==
  /\ paymentConn' = [paymentConn EXCEPT ![HomeOf[c]][p] = None]
  /\ connPayment' = [connPayment EXCEPT ![c] = None]

\* A write to a connection whose client has left is lost.
Write(c, p, st) ==
  heard' = IF open[c] THEN [heard EXCEPT ![c][p] = st] ELSE heard

\* Mutant of NotifyPaymentStatus: only one of the two maps is cleared.
NotifyHalf(s, p) ==
  IF Subscriber(s, p) = None
  THEN UNCHANGED <<registry, heard>>
  ELSE /\ paymentConn' = [paymentConn EXCEPT ![s][p] = None]
       /\ UNCHANGED connPayment
       /\ Write(Subscriber(s, p), p, status[p])

\* Only decided payments are announced: the subscriber is told and forgotten.
NotifyPaymentStatus(s, p) ==
  IF Subscriber(s, p) = None
  THEN UNCHANGED <<registry, heard>>
  ELSE /\ Forget(Subscriber(s, p), p)
       /\ Write(Subscriber(s, p), p, status[p])

-----------------------------------------------------------------------------
(* Tickets, settlement and clients *)

\* CreatePayment answers with a fresh ticket while the payment is pending.
IssueTicket(t) ==
  /\ ticket[t] = "unissued" /\ status[PaymentOf[t]] = "pending"
  /\ ticket' = [ticket EXCEPT ![t] = "live"]
  /\ UNCHANGED <<status, registry, open, call, news, heard>>

TicketExpires(t) ==
  /\ ticket[t] = "live"
  /\ ticket' = [ticket EXCEPT ![t] = "gone"]
  /\ UNCHANGED <<status, registry, open, call, news, heard>>

\* A callback, a poll, a cancellation or the scheduler's job on instance s
\* decides a payment, ...
Settle(s, p, o) ==
  /\ status[p] = "pending"
  /\ status' = [status EXCEPT ![p] = o]
  /\ news' = news \cup {<<s, p>>}
  /\ UNCHANGED <<ticket, registry, open, call, heard>>

\* ... and announces it after its side effects.
Announce(s, p) ==
  /\ <<s, p>> \in news
  /\ news' = news \ {<<s, p>>}
  /\ NotifyPaymentStatus(s, p)
  /\ UNCHANGED <<status, ticket, open, call>>

Connect(c) ==
  /\ At(c, "offline")
  /\ open' = [open EXCEPT ![c] = TRUE]
  /\ Resume(c)
  /\ UNCHANGED <<status, ticket, registry, news, heard>>

\* The client goes away, or its network does; the goroutine finds out when it
\* reads the next time.
Leave(c) ==
  /\ c \notin Patient /\ open[c]
  /\ open' = [open EXCEPT ![c] = FALSE]
  /\ UNCHANGED <<status, ticket, registry, call, news, heard>>

-----------------------------------------------------------------------------
(* ServePayments: the goroutine of a connection *)

\* From the URL of the upgrade or a subscribe message.
Subscribe(c, p, t) ==
  /\ At(c, "read") /\ open[c]
  /\ ticket[t] # "unissued"
  /\ call' = [call EXCEPT ![c] = [Idle("check") EXCEPT !.pay = p, !.ticket = t]]
  /\ UNCHANGED <<status, ticket, registry, open, news, heard>>

\* subscribePayment looks at the registry before it spends the ticket ...
CheckFree(c) ==
  LET p == call[c].pay
      q == Subscriber(HomeOf[c], p)
  IN  /\ At(c, "check")
      /\ \/ connPayment[c] = p /\ Goto(c, "snapshot")
         \/ connPayment[c] \notin {None, p} /\ Resume(c)
         \/ connPayment[c] = None /\ q # None /\ Resume(c)
         \/ connPayment[c] = None /\ q = None /\ Goto(c, "validate")
      /\ UNCHANGED <<status, ticket, registry, open, news, heard>>

\* Mutant of ConsumeTicket: the script forgets to compare the payment.
ConsumeAnyTicket(c) ==
  LET t == call[c].ticket
  IN  /\ At(c, "validate")
      /\ IF ticket[t] = "live"
         THEN ticket' = [ticket EXCEPT ![t] = c] /\ Goto(c, "register")
         ELSE UNCHANGED ticket /\ Resume(c)
      /\ UNCHANGED <<status, registry, open, news, heard>>

\* ... in Redis, without the mutex, where comparing and deleting is one step.
\* A call that fails may have spent the ticket.
ConsumeTicket(c) ==
  LET t == call[c].ticket
      valid == ticket[t] = "live" /\ PaymentOf[t] = call[c].pay
  IN  /\ At(c, "validate")
      /\ \/ valid /\ ticket' = [ticket EXCEPT ![t] = c] /\ Goto(c, "register")
         \/ ~valid /\ UNCHANGED ticket /\ Resume(c)
         \/ /\ Failures /\ Resume(c)
            /\ \/ UNCHANGED ticket
               \/ valid /\ ticket' = [ticket EXCEPT ![t] = "gone"]
      /\ UNCHANGED <<status, registry, open, news, heard>>

\* Mutant of Register: the two strings of the call are swapped.
RegisterSwapped(c) ==
  LET p == call[c].pay
  IN  /\ At(c, "register")
      /\ paymentConn' = [paymentConn EXCEPT ![HomeOf[c]][p] = c]
      /\ connPayment' = [connPayment EXCEPT ![c] = call[c].ticket]
      /\ Goto(c, "snapshot")
      /\ UNCHANGED <<status, ticket, open, news, heard>>

\* ... and looks again before it registers.  The goroutine is the only one
\* that registers its connection, so only the payment can be taken by now.
Register(c) ==
  LET p == call[c].pay
  IN  /\ At(c, "register")
      /\ IF Subscriber(HomeOf[c], p) = None
         THEN /\ paymentConn' = [paymentConn EXCEPT ![HomeOf[c]][p] = c]
              /\ connPayment' = [connPayment EXCEPT ![c] = p]
              /\ Goto(c, "snapshot")
         ELSE UNCHANGED registry /\ Resume(c)
      /\ UNCHANGED <<status, ticket, open, news, heard>>

\* Mutant of ReadSnapshot: the hub has no snapshot callback.
SkipSnapshot(c) ==
  /\ At(c, "snapshot")
  /\ Resume(c)
  /\ UNCHANGED <<status, ticket, registry, open, news, heard>>

\* PaymentStatusSnapshot refreshes the payment.  It returns what it read, or
\* decides the payment itself and announces that first, or fails: an error is
\* all its client then hears, until the announcement.
ReadSnapshot(c) ==
  LET p == call[c].pay
  IN  /\ At(c, "snapshot")
      /\ \/ /\ call' = [call EXCEPT ![c].pc = "answer", ![c].seen = status[p]]
            /\ UNCHANGED status
         \/ /\ status[p] = "pending"
            /\ \E o \in {"success", "expired"} :
                 /\ status' = [status EXCEPT ![p] = o]
                 /\ call' = [call EXCEPT ![c].pc = "tell", ![c].seen = o]
         \/ Failures /\ c \notin Patient /\ Resume(c) /\ UNCHANGED status
      /\ UNCHANGED <<ticket, registry, open, news, heard>>

AnnounceOwn(c) ==
  /\ At(c, "tell")
  /\ NotifyPaymentStatus(HomeOf[c], call[c].pay)
  /\ Goto(c, "answer")
  /\ UNCHANGED <<status, ticket, open, news>>

\* Mutant of SendSnapshot: whoever asked gets the answer.
SendStaleSnapshot(c) ==
  LET p == call[c].pay
  IN  /\ At(c, "answer")
      /\ Write(c, p, call[c].seen)
      /\ IF call[c].seen \in Terminal /\ Subscriber(HomeOf[c], p) = c
         THEN Forget(c, p) ELSE UNCHANGED registry
      /\ Resume(c)
      /\ UNCHANGED <<status, ticket, open, news>>

\* The snapshot is sent only to the connection that is still registered: an
\* announcement made since has removed it.
SendSnapshot(c) ==
  LET p == call[c].pay
  IN  /\ At(c, "answer")
      /\ IF Subscriber(HomeOf[c], p) = c
         THEN /\ Write(c, p, call[c].seen)
              /\ IF call[c].seen \in Terminal THEN Forget(c, p) ELSE UNCHANGED registry
         ELSE UNCHANGED <<registry, heard>>
      /\ Resume(c)
      /\ UNCHANGED <<status, ticket, open, news>>

Unsubscribe(c, p) ==
  /\ c \notin Patient
  /\ At(c, "read") /\ open[c]
  /\ IF connPayment[c] = p THEN Forget(c, p) ELSE UNCHANGED registry
  /\ UNCHANGED <<status, ticket, open, call, news, heard>>

\* disconnectPayment: the connection leaves the registry, ...
DisconnectPayment(c) ==
  LET p == connPayment[c]
  IN  /\ At(c, "read") /\ ~open[c]
      /\ IF p # None
         THEN Forget(c, p) /\ call' = [call EXCEPT ![c] = [Idle("cancel") EXCEPT !.pay = p]]
         ELSE UNCHANGED registry /\ call' = [call EXCEPT ![c] = Idle("gone")]
      /\ UNCHANGED <<status, ticket, open, news, heard>>

\* ... and the payment it listened to is refreshed and, if it is still
\* pending, cancelled.
CancelOnDisconnect(c) ==
  LET p == call[c].pay
  IN  /\ At(c, "cancel")
      /\ \/ /\ status[p] = "pending"
            /\ \E o \in Terminal : status' = [status EXCEPT ![p] = o]
            /\ Goto(c, "tellLast")
         \/ /\ status[p] # "pending" \/ Failures
            /\ Goto(c, "gone")
            /\ UNCHANGED status
      /\ UNCHANGED <<ticket, registry, open, news, heard>>

AnnounceLast(c) ==
  /\ At(c, "tellLast")
  /\ NotifyPaymentStatus(HomeOf[c], call[c].pay)
  /\ Goto(c, "gone")
  /\ UNCHANGED <<status, ticket, open, news>>

\* An instance dies: its hub is empty, its connections and its requests are
\* gone, and nobody cancels the payments they listened to.
Crash(s) ==
  /\ Failures
  /\ paymentConn' = [paymentConn EXCEPT ![s] = [p \in Payment |-> None]]
  /\ connPayment' = [c \in Conn |-> IF HomeOf[c] = s THEN None ELSE connPayment[c]]
  /\ open' = [c \in Conn |-> open[c] /\ HomeOf[c] # s]
  /\ call' = [c \in Conn |->
                IF HomeOf[c] = s /\ ~At(c, "offline") THEN Idle("gone") ELSE call[c]]
  /\ news' = {n \in news : n[1] # s}
  /\ UNCHANGED <<status, ticket, heard>>

-----------------------------------------------------------------------------

Step(c) ==
  \/ CheckFree(c) \/ ConsumeTicket(c) \/ Register(c)
  \/ ReadSnapshot(c) \/ AnnounceOwn(c) \/ SendSnapshot(c)
  \/ DisconnectPayment(c) \/ CancelOnDisconnect(c) \/ AnnounceLast(c)

Next ==
  \/ \E t \in Ticket : IssueTicket(t) \/ TicketExpires(t)
  \/ \E s \in Server, p \in Payment :
       \/ Announce(s, p)
       \/ \E o \in Terminal : Settle(s, p, o)
  \/ \E c \in Conn :
       \/ Connect(c) \/ Leave(c) \/ Step(c)
       \/ \E p \in Payment :
            Unsubscribe(c, p) \/ \E t \in Ticket : Subscribe(c, p, t)
  \/ \E s \in Server : Crash(s)

Spec == Init /\ [][Next]_vars

\* The goroutines run, and a request that has decided a payment goes on to
\* announce it.  This takes every write to a socket to return: the hub sets
\* no deadline for it and holds its mutex meanwhile.
Fairness ==
  /\ \A c \in Conn : WF_vars(Step(c))
  /\ \A s \in Server, p \in Payment : WF_vars(Announce(s, p))

FairSpec == Spec /\ Fairness

-----------------------------------------------------------------------------
(* Properties *)

\* The two maps of a hub are each other's inverse, though subscribe, notify,
\* snapshot, unsubscribe and disconnect update them separately:
\* disconnectPayment relies on it when it deletes the entry of a payment
\* without looking whose it is.
RegistryConsistent ==
  \A c \in Conn, p \in Payment :
    /\ connPayment[c] = p <=> Subscriber(HomeOf[c], p) = c
    /\ \A s \in Server \ {HomeOf[c]} : Subscriber(s, p) # c

\* Nobody listens without a ticket of his own for that very payment, and no
\* ticket lets a second connection in, in whatever order subscriptions,
\* failures and reconnects come.
AdmittedByTicket ==
  \A c \in Conn, p \in Payment :
    connPayment[c] = p => \E t \in Ticket : PaymentOf[t] = p /\ ticket[t] = c

\* A client believes what it was told last: a status that ends the payment is
\* the one in the table, and is never followed by another, although the
\* snapshot is read before and written after the announcement may come.
LastWord ==
  [][\A c \in Conn, p \in Payment :
       /\ heard[c][p] \in Terminal => heard'[c][p] = heard[c][p]
       /\ heard'[c][p] \in Terminal => heard'[c][p] = status'[p]]_vars

\* Snapshot and announcement leave no gap: a client that stays connected
\* hears of the end of its payment, whenever that came.
SubscriberHears ==
  \A c \in Patient, p \in Payment :
    connPayment[c] = p /\ status[p] \in Terminal
      ~> heard[c][p] = status[p] \/ ~open[c]

-----------------------------------------------------------------------------
(* The inductive invariant behind RegistryConsistent, AdmittedByTicket and   *)
(* LastWord.                                                               *)

\* What the goroutine of a connection knows at each round trip.
CallsOK ==
  \A c \in Conn :
    LET k == call[c]
    IN  /\ k.pc \in {"check", "validate", "register", "snapshot", "tell", "answer",
                     "cancel", "tellLast"} => k.pay \in Payment
        /\ k.pc \in {"check", "validate", "register"} => k.ticket \in Ticket
        /\ k.pc \in {"offline", "validate", "register", "cancel", "tellLast", "gone"}
             => connPayment[c] = None
        /\ k.pc = "register" => ticket[k.ticket] = c /\ PaymentOf[k.ticket] = k.pay
        /\ k.pc = "tell" => k.seen \in Terminal
        /\ k.pc \in {"tell", "answer"} => k.seen \in {"pending", status[k.pay]}
        /\ k.pc = "tellLast" => status[k.pay] \in Terminal

\* Only decided payments are announced, nobody was told something else, and a
\* snapshot that has become stale has nobody to go to.
NewsOK ==
  /\ \A n \in news : status[n[2]] \in Terminal
  /\ \A c \in Conn, p \in Payment :
       /\ heard[c][p] \in Terminal => heard[c][p] = status[p]
       /\ /\ heard[c][p] \in Terminal
          /\ At(c, "answer") /\ call[c].pay = p /\ call[c].seen = "pending"
          => connPayment[c] # p

\* In every state that goroutines, failures and crashes can lead to.
HubInv == TypeOK /\ RegistryConsistent /\ AdmittedByTicket /\ CallsOK /\ NewsOK

=============================================================================
