-------------------------- MODULE PaymentHubProofs --------------------------
(***************************************************************************)
(* Proofs about PaymentHub, for any numbers of connections, payments,      *)
(* tickets and server instances: HubInv is inductive, and with it the      *)
(* registry is consistent, every subscriber has spent a ticket of his own  *)
(* and no client hears anything after the end of its payment.              *)
(***************************************************************************)
EXTENDS PaymentHub, TLAPS

\* Connections only leave the registry.
OnlyLeaves ==
  \A d \in Conn : connPayment'[d] \in {connPayment[d], None}

RegistryType ==
  /\ paymentConn \in [Server -> [Payment -> Conn \cup {None}]]
  /\ connPayment \in [Conn -> Payment \cup {None}]

\* Forget takes out one entry of both maps and keeps them inverse.
LEMMA ForgetOK ==
  ASSUME RegistryType, RegistryConsistent, NEW c \in Conn, NEW p \in Payment,
         connPayment[c] = p, Forget(c, p)
  PROVE  RegistryType' /\ RegistryConsistent' /\ OnlyLeaves /\ connPayment'[c] = None
<1>1. HomeOf[c] \in Server /\ None \notin Conn /\ None \notin Payment
  BY HubAssumption
<1>2. RegistryType' /\ OnlyLeaves /\ connPayment'[c] = None
  BY <1>1 DEF RegistryType, Forget, OnlyLeaves
<1>3. ASSUME NEW d \in Conn, NEW q \in Payment
      PROVE  /\ connPayment'[d] = q <=> paymentConn'[HomeOf[d]][q] = d
             /\ \A s \in Server \ {HomeOf[d]} : paymentConn'[s][q] # d
  <2>1. /\ connPayment[d] = q <=> paymentConn[HomeOf[d]][q] = d
        /\ \A s \in Server \ {HomeOf[d]} : paymentConn[s][q] # d
        /\ paymentConn[HomeOf[c]][p] = c
        /\ HomeOf[d] \in Server
    BY HubAssumption DEF RegistryConsistent, Subscriber
  <2>2. connPayment'[d] = IF d = c THEN None ELSE connPayment[d]
    BY DEF Forget, RegistryType
  <2>3. \A s \in Server : paymentConn'[s][q] =
          IF s = HomeOf[c] /\ q = p THEN None ELSE paymentConn[s][q]
    BY <1>1 DEF Forget, RegistryType
  <2> QED BY <1>1, <2>1, <2>2, <2>3
<1> QED BY <1>2, <1>3 DEF RegistryConsistent, Subscriber

\* An announcement of a decided payment: whoever hears of it has left the
\* registry and was told what the table says.
LEMMA NotifyOK ==
  ASSUME TypeOK, RegistryConsistent, NEW s \in Server, NEW p \in Payment,
         NotifyPaymentStatus(s, p), UNCHANGED open
  PROVE  /\ RegistryType' /\ RegistryConsistent' /\ OnlyLeaves
         /\ heard' \in [Conn -> [Payment -> PaymentStatus \cup {None}]]
         /\ \A c \in Conn, q \in Payment :
              \/ heard'[c][q] = heard[c][q]
              \/ q = p /\ heard'[c][q] = status[q] /\ connPayment'[c] = None
<1>0. RegistryType
  BY DEF TypeOK, RegistryType
<1>1. CASE Subscriber(s, p) = None
  <2>1. UNCHANGED <<registry, heard>>
    BY <1>1 DEF NotifyPaymentStatus
  <2> QED BY <1>0, <2>1 DEF TypeOK, RegistryType, RegistryConsistent, Subscriber,
                            OnlyLeaves, registry
<1>2. CASE Subscriber(s, p) # None
  <2> DEFINE c == Subscriber(s, p)
  <2>1. c \in Conn /\ Forget(c, p) /\ Write(c, p, status[p])
    BY <1>0, <1>2 DEF NotifyPaymentStatus, RegistryType, Subscriber
  <2>2. connPayment[c] = p
    BY <2>1, HubAssumption DEF RegistryConsistent, Subscriber
  <2>3. RegistryType' /\ RegistryConsistent' /\ OnlyLeaves /\ connPayment'[c] = None
    BY <1>0, <2>1, <2>2, ForgetOK
  <2>4. status[p] \in PaymentStatus
    BY DEF TypeOK
  <2>5. heard' = heard \/ heard' = [heard EXCEPT ![c][p] = status[p]]
    BY <2>1 DEF Write
  <2> HIDE DEF c
  <2>6. heard' \in [Conn -> [Payment -> PaymentStatus \cup {None}]]
    <3>1. heard \in [Conn -> [Payment -> PaymentStatus \cup {None}]]
      BY DEF TypeOK
    <3> QED BY <2>1, <2>4, <2>5, <3>1 DEF PaymentStatus
  <2>7. ASSUME NEW d \in Conn, NEW q \in Payment
        PROVE  \/ heard'[d][q] = heard[d][q]
               \/ q = p /\ heard'[d][q] = status[q] /\ connPayment'[d] = None
    BY <2>1, <2>3, <2>5 DEF TypeOK
  <2> QED BY <2>3, <2>6, <2>7
<1> QED BY <1>1, <1>2

\* Tickets that let a connection in are not touched again.
LEMMA AdmittedOK ==
  ASSUME AdmittedByTicket, OnlyLeaves,
         \A t \in Ticket : ticket[t] \in Conn => ticket'[t] = ticket[t]
  PROVE  AdmittedByTicket'
BY HubAssumption DEF AdmittedByTicket, OnlyLeaves

-----------------------------------------------------------------------------

LEMMA InitOK == Init => HubInv
<1> SUFFICES ASSUME Init PROVE HubInv
  OBVIOUS
<1>1. TypeOK
  BY DEF Init, TypeOK, Idle, Call, Label, PaymentStatus
<1>2. RegistryConsistent /\ AdmittedByTicket
  BY HubAssumption DEF Init, RegistryConsistent, AdmittedByTicket, Subscriber
<1>3. \A c \in Conn : /\ call[c].pc = "offline" /\ connPayment[c] = None
                       /\ \A p \in Payment : heard[c][p] = None
  BY DEF Init, Idle
<1>4. CallsOK
  BY <1>3 DEF CallsOK
<1>5. NewsOK
  <2>1. None \notin Terminal
    BY HubAssumption DEF Terminal
  <2> QED BY <1>3, <2>1 DEF Init, NewsOK, At
<1> QED BY <1>1, <1>2, <1>4, <1>5 DEF HubInv

\* Steps that touch neither the registry, nor what was heard, nor the
\* announcements, but tickets that let nobody in, clients and goroutines.
LEMMA TicketsAndClients ==
  ASSUME HubInv,
         \/ \E t \in Ticket : IssueTicket(t) \/ TicketExpires(t)
         \/ \E c \in Conn : Leave(c)
  PROVE  HubInv'
<1> USE DEF HubInv
<1>1. UNCHANGED <<status, registry, call, news, heard>>
  BY DEF IssueTicket, TicketExpires, Leave
<1>2. \A t \in Ticket : ticket[t] \in Conn => ticket'[t] = ticket[t]
  BY HubAssumption DEF IssueTicket, TicketExpires, Leave, TypeOK
<1>3. TypeOK'
  BY <1>1 DEF TypeOK, IssueTicket, TicketExpires, Leave, registry
<1>4. RegistryConsistent' /\ AdmittedByTicket'
  BY <1>1, <1>2, AdmittedOK DEF OnlyLeaves, registry, RegistryConsistent, Subscriber
<1>5. CallsOK'
  BY <1>1, <1>2 DEF CallsOK, registry
<1>6. NewsOK'
  BY <1>1 DEF NewsOK, registry, At
<1> QED BY <1>3, <1>4, <1>5, <1>6

LEMMA SettleOK ==
  ASSUME HubInv, NEW s \in Server, NEW p \in Payment, NEW o \in Terminal, Settle(s, p, o)
  PROVE  HubInv'
<1> USE DEF HubInv
<1>1. UNCHANGED <<ticket, registry, open, call, heard>>
  BY DEF Settle
<1>2. status[p] = "pending" /\ status' = [status EXCEPT ![p] = o]
      /\ news' = news \cup {<<s, p>>}
  BY DEF Settle
<1>3. TypeOK'
  BY <1>1, <1>2 DEF TypeOK, PaymentStatus, registry
<1>4. RegistryConsistent' /\ AdmittedByTicket'
  BY <1>1 DEF registry, RegistryConsistent, Subscriber, AdmittedByTicket
<1>5. /\ \A q \in Payment : status[q] \in Terminal => status'[q] = status[q]
      /\ status'[p] \in Terminal
  BY <1>2 DEF TypeOK, Terminal
<1>6. CallsOK'
  BY <1>1, <1>5 DEF CallsOK, registry, TypeOK, PaymentStatus, Call
<1>7. NewsOK'
  <2>1. \A n \in news' : status'[n[2]] \in Terminal
    BY <1>2, <1>5 DEF NewsOK, TypeOK
  <2> QED BY <1>1, <1>5, <2>1 DEF NewsOK, registry, At
<1> QED BY <1>3, <1>4, <1>6, <1>7

LEMMA AnnounceOK ==
  ASSUME HubInv, NEW s \in Server, NEW p \in Payment, Announce(s, p)
  PROVE  HubInv'
<1> USE DEF HubInv
<1>1. <<s, p>> \in news /\ news' \subseteq news /\ UNCHANGED <<status, ticket, open, call>>
  BY DEF Announce
<1>2. /\ RegistryType' /\ RegistryConsistent' /\ OnlyLeaves
      /\ heard' \in [Conn -> [Payment -> PaymentStatus \cup {None}]]
      /\ \A c \in Conn, q \in Payment :
           \/ heard'[c][q] = heard[c][q]
           \/ q = p /\ heard'[c][q] = status[q] /\ connPayment'[c] = None
  <2>1. NotifyPaymentStatus(s, p)
    BY DEF Announce
  <2> QED BY <1>1, <2>1, NotifyOK
<1>3. TypeOK'
  BY <1>1, <1>2 DEF TypeOK, RegistryType
<1>4. AdmittedByTicket'
  BY <1>1, <1>2, AdmittedOK
<1>5. CallsOK'
  BY <1>1, <1>2 DEF CallsOK, OnlyLeaves
<1>6. NewsOK'
  BY <1>1, <1>2, HubAssumption DEF NewsOK, OnlyLeaves, At
<1> QED BY <1>2, <1>3, <1>4, <1>5, <1>6

-----------------------------------------------------------------------------
\* The steps of a connection's own goroutine.

\* A step that changes the call of one connection, and neither the payments
\* nor the announcements, keeps the invariant if it keeps it for that one.
LEMMA OneCall ==
  ASSUME HubInv, NEW c \in Conn, NEW k \in Call,
         call' = [call EXCEPT ![c] = k],
         UNCHANGED <<status, ticket, registry, open, news, heard>>,
         k.pc \in {"check", "validate", "register", "snapshot", "tell", "answer",
                   "cancel", "tellLast"} => k.pay \in Payment,
         k.pc \in {"check", "validate", "register"} => k.ticket \in Ticket,
         k.pc \in {"offline", "validate", "register", "cancel", "tellLast", "gone"}
           => connPayment[c] = None,
         k.pc = "register" => ticket[k.ticket] = c /\ PaymentOf[k.ticket] = k.pay,
         k.pc \in {"tell", "tellLast"} => FALSE,
         k.pc = "answer" => k.seen = status[k.pay]
  PROVE  HubInv'
<1> USE DEF HubInv
<1>1. call'[c] = k /\ \A d \in Conn \ {c} : call'[d] = call[d]
  BY DEF TypeOK
<1>2. TypeOK'
  BY DEF TypeOK, registry
<1>3. RegistryConsistent' /\ AdmittedByTicket'
  BY DEF registry, RegistryConsistent, Subscriber, AdmittedByTicket
<1>4. CallsOK'
  BY <1>1 DEF CallsOK, registry
<1>5. NewsOK'
  BY <1>1 DEF NewsOK, registry, At, Terminal
<1> QED BY <1>2, <1>3, <1>4, <1>5

LEMMA IdleInCall ==
  \A l \in Label : Idle(l) \in Call
BY DEF Idle, Call

LEMMA CallAt ==
  ASSUME HubInv, NEW c \in Conn
  PROVE  /\ call[c] \in Call
         /\ \A l \in Label :
              /\ [call[c] EXCEPT !.pc = l] \in Call
              /\ [call[c] EXCEPT !.pc = l].pc = l
              /\ [call[c] EXCEPT !.pc = l].pay = call[c].pay
              /\ [call[c] EXCEPT !.pc = l].ticket = call[c].ticket
              /\ [call[c] EXCEPT !.pc = l].seen = call[c].seen
<1>1. call[c] \in Call
  BY DEF HubInv, TypeOK
<1> QED BY <1>1 DEF Call

\* Going back to read is always possible.
LEMMA ResumeOK ==
  ASSUME HubInv, NEW c \in Conn, Resume(c),
         UNCHANGED <<status, ticket, registry, open, news, heard>>
  PROVE  HubInv'
<1>1. PICK k : k = Idle("read")
  OBVIOUS
<1>2. k \in Call /\ k.pc = "read"
  BY <1>1, IdleInCall DEF Idle, Label
<1>3. call' = [call EXCEPT ![c] = k]
  BY <1>1 DEF Resume
<1> QED BY <1>2, <1>3, OneCall

LEMMA SubscribeOK ==
  ASSUME HubInv, NEW c \in Conn, NEW p \in Payment, NEW t \in Ticket, Subscribe(c, p, t)
  PROVE  HubInv'
<1>1. PICK k : k = [Idle("check") EXCEPT !.pay = p, !.ticket = t]
  OBVIOUS
<1>2. k \in Call /\ k.pc = "check" /\ k.pay = p /\ k.ticket = t
  BY <1>1 DEF Idle, Call, Label
<1>3. call' = [call EXCEPT ![c] = k] /\ UNCHANGED <<status, ticket, registry, open, news, heard>>
  BY <1>1 DEF Subscribe
<1> QED BY <1>2, <1>3, OneCall

LEMMA CheckFreeOK ==
  ASSUME HubInv, NEW c \in Conn, CheckFree(c)
  PROVE  HubInv'
<1>0. At(c, "check") /\ UNCHANGED <<status, ticket, registry, open, news, heard>>
  BY DEF CheckFree
<1>1. call[c].pay \in Payment /\ call[c].ticket \in Ticket
  BY <1>0 DEF HubInv, CallsOK, At
<1>2. CASE Resume(c)
  BY <1>0, <1>2, ResumeOK
<1>3. ASSUME NEW l \in {"snapshot", "validate"}, Goto(c, l),
             l = "validate" => connPayment[c] = None
      PROVE  HubInv'
  <2>1. PICK k : k = [call[c] EXCEPT !.pc = l]
    OBVIOUS
  <2>2. k \in Call /\ k.pc = l /\ k.pay = call[c].pay /\ k.ticket = call[c].ticket
    <3>1. l \in Label
      BY DEF Label
    <3> QED BY <2>1, <3>1, CallAt
  <2>3. call' = [call EXCEPT ![c] = k]
    BY <1>3, <2>1 DEF Goto, HubInv, TypeOK
  <2> QED BY <1>0, <1>1, <1>3, <2>2, <2>3, OneCall
<1> QED BY <1>2, <1>3 DEF CheckFree

LEMMA ConsumeTicketOK ==
  ASSUME HubInv, NEW c \in Conn, ConsumeTicket(c)
  PROVE  HubInv'
<1> USE DEF HubInv
<1>0. At(c, "validate") /\ UNCHANGED <<status, registry, open, news, heard>>
  BY DEF ConsumeTicket
<1>1. PICK t : t = call[c].ticket
  OBVIOUS
<1>2. /\ call[c].pay \in Payment /\ t \in Ticket /\ connPayment[c] = None
      /\ call[c].pc = "validate"
  BY <1>0, <1>1 DEF CallsOK, At
<1>3. CASE Resume(c) /\ UNCHANGED ticket
  BY <1>0, <1>3, ResumeOK
<1>4. ASSUME ticket[t] = "live", NEW x \in {c, "gone"},
             ticket' = [ticket EXCEPT ![t] = x],
             NEW k \in Call, call' = [call EXCEPT ![c] = k],
             \/ k = Idle("read")
             \/ /\ k.pc = "register" /\ k.pay = call[c].pay /\ k.ticket = t
                /\ x = c /\ PaymentOf[t] = call[c].pay
      PROVE  HubInv'
  <2>1. \A u \in Ticket : ticket[u] \in Conn => ticket'[u] = ticket[u]
    BY <1>4, HubAssumption DEF TypeOK
  <2>2. k.pc \in {"read", "register"}
    BY <1>4 DEF Idle
  <2>3. call'[c] = k /\ \A d \in Conn \ {c} : call'[d] = call[d]
    BY <1>4 DEF TypeOK
  <2>4. TypeOK'
    BY <1>0, <1>4 DEF TypeOK, registry
  <2>5. RegistryConsistent' /\ AdmittedByTicket'
    BY <1>0, <2>1, AdmittedOK DEF OnlyLeaves, registry, RegistryConsistent, Subscriber
  <2>6. CallsOK'
    <3>1. k.pc = "register" => ticket'[k.ticket] = c /\ PaymentOf[k.ticket] = k.pay
      BY <1>2, <1>4 DEF TypeOK, Idle
    <3> QED BY <1>0, <1>2, <1>4, <2>1, <2>2, <2>3, <3>1 DEF CallsOK, registry, Idle
  <2>7. NewsOK'
    BY <1>0, <2>2, <2>3 DEF NewsOK, registry, At
  <2> QED BY <2>4, <2>5, <2>6, <2>7
<1>5. CASE /\ ticket[t] = "live" /\ PaymentOf[t] = call[c].pay
           /\ ticket' = [ticket EXCEPT ![t] = c] /\ Goto(c, "register")
  <2>1. PICK k : k = [call[c] EXCEPT !.pc = "register"]
    OBVIOUS
  <2>2. k \in Call /\ k.pc = "register" /\ k.pay = call[c].pay /\ k.ticket = t
    BY <1>1, <2>1, CallAt DEF Label
  <2>3. call' = [call EXCEPT ![c] = k]
    BY <1>5, <2>1 DEF Goto, TypeOK
  <2> QED BY <1>4, <1>5, <2>2, <2>3
<1>6. CASE ticket[t] = "live" /\ ticket' = [ticket EXCEPT ![t] = "gone"] /\ Resume(c)
  <2>1. PICK k : k = Idle("read")
    OBVIOUS
  <2>2. k \in Call
    BY <2>1, IdleInCall DEF Label
  <2>3. call' = [call EXCEPT ![c] = k]
    BY <1>6, <2>1 DEF Resume
  <2> QED BY <1>4, <1>6, <2>1, <2>2, <2>3
<1> QED BY <1>1, <1>3, <1>5, <1>6 DEF ConsumeTicket

LEMMA RegisterOK ==
  ASSUME HubInv, NEW c \in Conn, Register(c)
  PROVE  HubInv'
<1> USE DEF HubInv
<1>0. At(c, "register") /\ UNCHANGED <<status, ticket, open, news, heard>>
  BY DEF Register
<1>1. PICK p : p = call[c].pay
  OBVIOUS
<1>2. /\ p \in Payment /\ call[c].ticket \in Ticket /\ connPayment[c] = None
      /\ ticket[call[c].ticket] = c /\ PaymentOf[call[c].ticket] = p
      /\ HomeOf[c] \in Server /\ call[c].pc = "register"
  BY <1>0, <1>1, HubAssumption DEF CallsOK, At
<1>3. CASE Subscriber(HomeOf[c], p) # None
  <2>1. Resume(c) /\ UNCHANGED registry
    BY <1>1, <1>3 DEF Register
  <2> QED BY <1>0, <2>1, ResumeOK
<1>4. CASE Subscriber(HomeOf[c], p) = None
  <2>1. /\ paymentConn' = [paymentConn EXCEPT ![HomeOf[c]][p] = c]
        /\ connPayment' = [connPayment EXCEPT ![c] = p]
        /\ Goto(c, "snapshot")
    BY <1>1, <1>4 DEF Register
  <2>2. PICK k : k = [call[c] EXCEPT !.pc = "snapshot"]
    OBVIOUS
  <2>3. k \in Call /\ k.pc = "snapshot" /\ k.pay = p
    BY <1>1, <2>2, CallAt DEF Label
  <2>4. call' = [call EXCEPT ![c] = k]
    BY <2>1, <2>2 DEF Goto, TypeOK
  <2>5. call'[c] = k /\ \A d \in Conn \ {c} : call'[d] = call[d]
    BY <2>3, <2>4 DEF TypeOK
  <2>6. connPayment'[c] = p /\ \A d \in Conn \ {c} : connPayment'[d] = connPayment[d]
    BY <2>1 DEF TypeOK
  <2>7. TypeOK'
    BY <1>0, <1>2, <2>1, <2>3, <2>4 DEF TypeOK
  <2>8. RegistryConsistent'
    <3>1. \A s \in Server, q \in Payment :
            paymentConn'[s][q] = IF s = HomeOf[c] /\ q = p THEN c ELSE paymentConn[s][q]
      BY <1>2, <2>1 DEF TypeOK
    <3>2. ASSUME NEW d \in Conn, NEW q \in Payment
          PROVE  /\ connPayment'[d] = q <=> paymentConn'[HomeOf[d]][q] = d
                 /\ \A s \in Server \ {HomeOf[d]} : paymentConn'[s][q] # d
      <4>1. /\ connPayment[d] = q <=> paymentConn[HomeOf[d]][q] = d
            /\ \A s \in Server \ {HomeOf[d]} : paymentConn[s][q] # d
            /\ paymentConn[HomeOf[c]][p] = None
            /\ HomeOf[d] \in Server /\ None \notin Conn /\ None \notin Payment
        BY <1>4, HubAssumption DEF RegistryConsistent, Subscriber
      <4> QED BY <1>2, <2>6, <3>1, <4>1
    <3> QED BY <3>2 DEF RegistryConsistent, Subscriber
  <2>9. AdmittedByTicket'
    BY <1>0, <1>2, <2>6 DEF AdmittedByTicket
  <2>10. CallsOK'
    BY <1>0, <1>2, <2>3, <2>5, <2>6 DEF CallsOK
  <2>11. NewsOK'
    BY <1>0, <2>3, <2>5, <2>6 DEF NewsOK, At
  <2> QED BY <2>7, <2>8, <2>9, <2>10, <2>11
<1> QED BY <1>3, <1>4

LEMMA ConnectOK ==
  ASSUME HubInv, NEW c \in Conn, Connect(c)
  PROVE  HubInv'
<1> USE DEF HubInv
<1>1. /\ At(c, "offline") /\ Resume(c) /\ open' = [open EXCEPT ![c] = TRUE]
      /\ UNCHANGED <<status, ticket, registry, news, heard>>
  BY DEF Connect
<1>2. PICK k : k = Idle("read")
  OBVIOUS
<1>3. k \in Call /\ k.pc = "read" /\ call' = [call EXCEPT ![c] = k]
  BY <1>1, <1>2, IdleInCall DEF Idle, Label, Resume
<1>4. call'[c] = k /\ \A d \in Conn \ {c} : call'[d] = call[d]
  BY <1>3 DEF TypeOK
<1>5. TypeOK'
  BY <1>1, <1>3 DEF TypeOK, registry
<1>6. RegistryConsistent' /\ AdmittedByTicket'
  BY <1>1 DEF registry, RegistryConsistent, Subscriber, AdmittedByTicket
<1>7. CallsOK' /\ NewsOK'
  BY <1>1, <1>3, <1>4 DEF CallsOK, NewsOK, registry, At
<1> QED BY <1>5, <1>6, <1>7

\* A goroutine that decides its payment: what another goroutine has read stays
\* either "pending" or what the table says.
LEMMA DecideOK ==
  ASSUME HubInv, NEW c \in Conn, NEW k \in Call, NEW o \in Terminal,
         status[call[c].pay] = "pending", call[c].pay \in Payment,
         status' = [status EXCEPT ![call[c].pay] = o],
         call' = [call EXCEPT ![c] = k],
         k.pay = call[c].pay,
         \/ k.pc = "tell" /\ k.seen = o
         \/ k.pc = "tellLast" /\ connPayment[c] = None,
         UNCHANGED <<ticket, registry, open, news, heard>>
  PROVE  HubInv'
<1> USE DEF HubInv
<1>1. call'[c] = k /\ \A d \in Conn \ {c} : call'[d] = call[d]
  BY DEF TypeOK
<1>2. PICK p \in Payment : p = call[c].pay
  OBVIOUS
<1>3. /\ \A q \in Payment : status[q] \in Terminal => status'[q] = status[q]
      /\ status'[p] = o
  BY <1>2 DEF TypeOK, Terminal
<1>4. TypeOK'
  BY DEF TypeOK, PaymentStatus, registry
<1>5. RegistryConsistent' /\ AdmittedByTicket'
  BY DEF registry, RegistryConsistent, Subscriber, AdmittedByTicket
<1>6. CallsOK'
  <2>1. ASSUME NEW d \in Conn
        PROVE  /\ call'[d].pc = "tell" => call'[d].seen \in Terminal
               /\ call'[d].pc \in {"tell", "answer"}
                    => call'[d].seen \in {"pending", status'[call'[d].pay]}
               /\ call'[d].pc = "tellLast" => status'[call'[d].pay] \in Terminal
    <3>1. CASE d = c
      BY <1>1, <1>2, <1>3, <3>1
    <3>2. CASE d # c
      <4>1. call'[d] = call[d] /\ call[d] \in Call
        BY <1>1, <3>2 DEF TypeOK
      <4>2. call[d].pc \in {"tell", "answer", "tellLast"} => status[call[d].pay] \in PaymentStatus
        BY DEF CallsOK, TypeOK
      <4> QED BY <1>3, <4>1, <4>2 DEF CallsOK, PaymentStatus
    <3> QED BY <3>1, <3>2
  <2> QED BY <1>1, <2>1 DEF CallsOK, registry
<1>7. NewsOK'
  <2>1. \A n \in news' : status'[n[2]] \in Terminal
    BY <1>3 DEF NewsOK, TypeOK
  <2>2. \A d \in Conn, q \in Payment : heard'[d][q] \in Terminal => heard'[d][q] = status'[q]
    BY <1>3 DEF NewsOK
  <2>3. ASSUME NEW d \in Conn, NEW q \in Payment,
               heard'[d][q] \in Terminal, call'[d].pc = "answer", call'[d].pay = q,
               call'[d].seen = "pending"
        PROVE  connPayment'[d] # q
    BY <1>1, <2>3 DEF NewsOK, At, registry
  <2> QED BY <2>1, <2>2, <2>3 DEF NewsOK, At
<1> QED BY <1>4, <1>5, <1>6, <1>7

LEMMA ReadSnapshotOK ==
  ASSUME HubInv, NEW c \in Conn, ReadSnapshot(c)
  PROVE  HubInv'
<1> USE DEF HubInv
<1>0. /\ call[c].pc = "snapshot" /\ call[c].pay \in Payment /\ call[c] \in Call
      /\ UNCHANGED <<ticket, registry, open, news, heard>>
  BY DEF ReadSnapshot, At, CallsOK, TypeOK
<1>1. CASE /\ call' = [call EXCEPT ![c].pc = "answer", ![c].seen = status[call[c].pay]]
           /\ UNCHANGED status
  <2>1. PICK k : k = [call[c] EXCEPT !.pc = "answer", !.seen = status[call[c].pay]]
    OBVIOUS
  <2>2. /\ k \in Call /\ k.pc = "answer" /\ k.pay = call[c].pay
        /\ k.seen = status[call[c].pay]
    BY <1>0, <2>1 DEF Call, Label, TypeOK
  <2>3. call' = [call EXCEPT ![c] = k]
    BY <1>1, <2>1 DEF TypeOK
  <2>4. k.pay \in Payment /\ k.seen = status[k.pay]
    BY <1>0, <2>2
  <2> HIDE DEF HubInv
  <2> QED BY <1>0, <1>1, <2>2, <2>3, <2>4, OneCall
<1>2. ASSUME status[call[c].pay] = "pending", NEW o \in {"success", "expired"},
             status' = [status EXCEPT ![call[c].pay] = o],
             call' = [call EXCEPT ![c].pc = "tell", ![c].seen = o]
      PROVE  HubInv'
  <2>1. PICK k : k = [call[c] EXCEPT !.pc = "tell", !.seen = o]
    OBVIOUS
  <2>2. k \in Call /\ k.pc = "tell" /\ k.pay = call[c].pay /\ k.seen = o
    BY <1>0, <2>1 DEF Call, Label, PaymentStatus, Terminal
  <2>3. call' = [call EXCEPT ![c] = k]
    BY <1>2, <2>1 DEF TypeOK
  <2>4. o \in Terminal
    BY DEF Terminal
  <2> QED BY <1>0, <1>2, <2>2, <2>3, <2>4, DecideOK
<1>3. CASE Resume(c) /\ UNCHANGED status
  BY <1>0, <1>3, ResumeOK
<1> QED BY <1>1, <1>2, <1>3 DEF ReadSnapshot

LEMMA CancelOnDisconnectOK ==
  ASSUME HubInv, NEW c \in Conn, CancelOnDisconnect(c)
  PROVE  HubInv'
<1> USE DEF HubInv
<1>0. /\ call[c].pc = "cancel" /\ call[c].pay \in Payment /\ connPayment[c] = None
      /\ UNCHANGED <<ticket, registry, open, news, heard>>
  BY DEF CancelOnDisconnect, At, CallsOK
<1>1. ASSUME status[call[c].pay] = "pending", NEW o \in Terminal,
             status' = [status EXCEPT ![call[c].pay] = o], Goto(c, "tellLast")
      PROVE  HubInv'
  <2>1. PICK k : k = [call[c] EXCEPT !.pc = "tellLast"]
    OBVIOUS
  <2>2. k \in Call /\ k.pc = "tellLast" /\ k.pay = call[c].pay
    BY <2>1, CallAt DEF Label
  <2>3. call' = [call EXCEPT ![c] = k]
    BY <1>1, <2>1 DEF Goto, TypeOK
  <2> QED BY <1>0, <1>1, <2>2, <2>3, DecideOK
<1>2. CASE Goto(c, "gone") /\ UNCHANGED status
  <2>1. PICK k : k = [call[c] EXCEPT !.pc = "gone"]
    OBVIOUS
  <2>2. k \in Call /\ k.pc = "gone"
    BY <2>1, CallAt DEF Label
  <2>3. call' = [call EXCEPT ![c] = k]
    BY <1>2, <2>1 DEF Goto, TypeOK
  <2> QED BY <1>0, <1>2, <2>2, <2>3, OneCall
<1> QED BY <1>1, <1>2 DEF CancelOnDisconnect

\* A goroutine announces the payment it has decided and goes on.
LEMMA OwnNewsOK ==
  ASSUME HubInv, NEW c \in Conn, NEW l \in {"answer", "gone"},
         call[c].pc \in {"tell", "tellLast"},
         l = "answer" => call[c].pc = "tell",
         l = "gone" => call[c].pc = "tellLast",
         NotifyPaymentStatus(HomeOf[c], call[c].pay), Goto(c, l),
         UNCHANGED <<status, ticket, open, news>>
  PROVE  HubInv'
<1> USE DEF HubInv
<1>1. PICK p : p = call[c].pay
  OBVIOUS
<1>2. p \in Payment /\ HomeOf[c] \in Server
  BY <1>1, HubAssumption DEF CallsOK
<1>3. /\ RegistryType' /\ RegistryConsistent' /\ OnlyLeaves
      /\ heard' \in [Conn -> [Payment -> PaymentStatus \cup {None}]]
      /\ \A d \in Conn, q \in Payment :
           \/ heard'[d][q] = heard[d][q]
           \/ q = p /\ heard'[d][q] = status[q] /\ connPayment'[d] = None
  BY <1>1, <1>2, NotifyOK
<1>4. PICK k : k = [call[c] EXCEPT !.pc = l]
  OBVIOUS
<1>5. k \in Call /\ k.pc = l /\ k.pay = p /\ k.seen = call[c].seen
  <2>1. l \in Label
    BY DEF Label
  <2> QED BY <1>1, <1>4, <2>1, CallAt
<1>6. call' = [call EXCEPT ![c] = k]
  BY <1>4 DEF Goto, TypeOK
<1>7. call'[c] = k /\ \A d \in Conn \ {c} : call'[d] = call[d]
  BY <1>5, <1>6 DEF TypeOK
<1>8. TypeOK'
  BY <1>3, <1>5, <1>6 DEF TypeOK, RegistryType
<1>9. AdmittedByTicket'
  BY <1>3, AdmittedOK
<1>10. CallsOK'
  BY <1>1, <1>2, <1>3, <1>5, <1>7 DEF CallsOK, OnlyLeaves
<1>11. NewsOK'
  <2>1. k.pc = "answer" => k.seen # "pending"
    BY <1>5 DEF CallsOK, Terminal
  <2> QED BY <1>3, <1>7, <2>1, HubAssumption DEF NewsOK, OnlyLeaves, At
<1> QED BY <1>3, <1>8, <1>9, <1>10, <1>11

\* The goroutine forgets the payment its connection listens to, writes to
\* nobody or to its own client, and goes on.
LEMMA LeaveRegistryOK ==
  ASSUME HubInv, NEW c \in Conn, NEW p \in Payment, NEW k \in Call,
         connPayment[c] = p, Forget(c, p), call' = [call EXCEPT ![c] = k],
         \/ k.pc \in {"read", "gone"}
         \/ k.pc = "cancel" /\ k.pay \in Payment,
         heard' = heard \/ Write(c, p, status[p]),
         UNCHANGED <<status, ticket, open, news>>
  PROVE  HubInv'
<1> USE DEF HubInv
<1>1. RegistryType' /\ RegistryConsistent' /\ OnlyLeaves /\ connPayment'[c] = None
  BY ForgetOK DEF TypeOK, RegistryType
<1>2. call'[c] = k /\ \A d \in Conn \ {c} : call'[d] = call[d]
  BY DEF TypeOK
<1>3. \/ heard' = heard
      \/ heard' = [heard EXCEPT ![c][p] = status[p]]
  BY DEF Write
<1>4. /\ heard' \in [Conn -> [Payment -> PaymentStatus \cup {None}]]
      /\ \A d \in Conn, q \in Payment :
           \/ heard'[d][q] = heard[d][q]
           \/ d = c /\ q = p /\ heard'[d][q] = status[q]
  <2>1. heard \in [Conn -> [Payment -> PaymentStatus \cup {None}]] /\ status[p] \in PaymentStatus
    BY DEF TypeOK
  <2> QED BY <1>3, <2>1 DEF PaymentStatus
<1>5. TypeOK'
  BY <1>1, <1>4 DEF TypeOK, RegistryType
<1>6. AdmittedByTicket'
  BY <1>1, AdmittedOK
<1>7. CallsOK'
  BY <1>1, <1>2 DEF CallsOK, OnlyLeaves
<1>8. NewsOK'
  BY <1>1, <1>2, <1>4, HubAssumption DEF NewsOK, OnlyLeaves, At
<1> QED BY <1>1, <1>5, <1>6, <1>7, <1>8

LEMMA SendSnapshotOK ==
  ASSUME HubInv, NEW c \in Conn, SendSnapshot(c)
  PROVE  HubInv'
<1> USE DEF HubInv
<1>1. PICK p : p = call[c].pay
  OBVIOUS
<1>2. /\ p \in Payment /\ call[c].pc = "answer" /\ Resume(c)
      /\ call[c].seen \in {"pending", status[p]}
      /\ UNCHANGED <<status, ticket, open, news>>
  BY <1>1 DEF SendSnapshot, At, CallsOK
<1>3. CASE Subscriber(HomeOf[c], p) # c
  <2>1. UNCHANGED <<registry, heard>>
    BY <1>1, <1>3 DEF SendSnapshot
  <2> QED BY <1>2, <2>1, ResumeOK
<1>4. CASE Subscriber(HomeOf[c], p) = c
  <2>0. PICK k : k = Idle("read")
    OBVIOUS
  <2>1. k \in Call /\ k.pc = "read" /\ call' = [call EXCEPT ![c] = k]
    BY <1>2, <2>0, IdleInCall DEF Idle, Label, Resume
  <2>2. connPayment[c] = p
    BY <1>2, <1>4 DEF RegistryConsistent
  <2>3. CASE call[c].seen \in Terminal
    <3>1. Forget(c, p) /\ Write(c, p, status[p])
      BY <1>1, <1>2, <1>4, <2>3 DEF SendSnapshot, Terminal
    <3> QED BY <1>2, <2>1, <2>2, <3>1, LeaveRegistryOK
  <2>4. CASE call[c].seen \notin Terminal
    <3>1. /\ UNCHANGED registry /\ call[c].seen = "pending"
          /\ heard' = heard \/ heard' = [heard EXCEPT ![c][p] = "pending"]
      BY <1>1, <1>2, <1>4, <2>4 DEF SendSnapshot, TypeOK, PaymentStatus, Write
    <3>2. heard[c][p] \notin Terminal
      BY <1>1, <1>2, <2>2, <3>1 DEF NewsOK, At
    <3>3. /\ heard' \in [Conn -> [Payment -> PaymentStatus \cup {None}]]
          /\ \A d \in Conn, q \in Payment :
               heard'[d][q] = heard[d][q] \/ heard'[d][q] = "pending"
      <4>1. heard \in [Conn -> [Payment -> PaymentStatus \cup {None}]]
        BY DEF TypeOK
      <4> QED BY <1>2, <3>1, <4>1 DEF PaymentStatus
    <3>4. call'[c] = k /\ \A d \in Conn \ {c} : call'[d] = call[d]
      BY <2>1 DEF TypeOK
    <3>5. TypeOK'
      BY <1>2, <2>1, <3>1, <3>3 DEF TypeOK, registry
    <3>6. RegistryConsistent' /\ AdmittedByTicket'
      BY <1>2, <3>1 DEF registry, RegistryConsistent, Subscriber, AdmittedByTicket
    <3>7. CallsOK'
      BY <1>2, <2>1, <3>1, <3>4 DEF CallsOK, registry
    <3>8. NewsOK'
      BY <1>2, <2>1, <3>1, <3>3, <3>4 DEF NewsOK, registry, At, Terminal
    <3> QED BY <3>5, <3>6, <3>7, <3>8
  <2> QED BY <2>3, <2>4
<1> QED BY <1>3, <1>4

LEMMA UnsubscribeOK ==
  ASSUME HubInv, NEW c \in Conn, NEW p \in Payment, Unsubscribe(c, p)
  PROVE  HubInv'
<1>0. call[c].pc = "read" /\ UNCHANGED <<status, ticket, open, call, news, heard>>
  BY DEF Unsubscribe, At
<1>1. call[c] \in Call /\ call' = [call EXCEPT ![c] = call[c]]
  BY <1>0 DEF HubInv, TypeOK
<1>2. CASE connPayment[c] = p
  <2>1. Forget(c, p)
    BY <1>2 DEF Unsubscribe
  <2> QED BY <1>0, <1>1, <1>2, <2>1, LeaveRegistryOK
<1>3. CASE connPayment[c] # p
  <2>1. UNCHANGED registry
    BY <1>3 DEF Unsubscribe
  <2> QED BY <1>0, <1>1, <2>1, OneCall
<1> QED BY <1>2, <1>3

LEMMA DisconnectOK ==
  ASSUME HubInv, NEW c \in Conn, DisconnectPayment(c)
  PROVE  HubInv'
<1>0. UNCHANGED <<status, ticket, open, news, heard>>
  BY DEF DisconnectPayment
<1>1. PICK p : p = connPayment[c]
  OBVIOUS
<1>2. CASE p # None
  <2>1. p \in Payment
    BY <1>1, <1>2 DEF HubInv, TypeOK
  <2>2. PICK k : k = [Idle("cancel") EXCEPT !.pay = p]
    OBVIOUS
  <2>3. k \in Call /\ k.pc = "cancel" /\ k.pay = p
    BY <2>1, <2>2 DEF Idle, Call, Label
  <2>4. Forget(c, p) /\ call' = [call EXCEPT ![c] = k]
    BY <1>1, <1>2, <2>2 DEF DisconnectPayment
  <2> QED BY <1>0, <1>1, <2>1, <2>3, <2>4, LeaveRegistryOK
<1>3. CASE p = None
  <2>1. PICK k : k = Idle("gone")
    OBVIOUS
  <2>2. k \in Call /\ k.pc = "gone"
    BY <2>1, IdleInCall DEF Idle, Label
  <2>3. UNCHANGED registry /\ call' = [call EXCEPT ![c] = k]
    BY <1>1, <1>3, <2>1 DEF DisconnectPayment
  <2> QED BY <1>0, <1>1, <1>3, <2>2, <2>3, OneCall
<1> QED BY <1>2, <1>3

LEMMA CrashOK ==
  ASSUME HubInv, NEW s \in Server, Crash(s)
  PROVE  HubInv'
<1> USE DEF HubInv
<1>1. UNCHANGED <<status, ticket, heard>> /\ news' \subseteq news
  BY DEF Crash
<1>2. \A c \in Conn : connPayment'[c] = IF HomeOf[c] = s THEN None ELSE connPayment[c]
  BY DEF Crash
<1>3. \A c \in Conn : \/ call'[c] = call[c]
                      \/ HomeOf[c] = s /\ call'[c] = Idle("gone")
  BY DEF Crash
<1>4. TypeOK'
  <2>1. call' \in [Conn -> Call]
    <3>1. Idle("gone") \in Call
      BY IdleInCall DEF Label
    <3> QED BY <3>1 DEF Crash, TypeOK
  <2>2. paymentConn' \in [Server -> [Payment -> Conn \cup {None}]]
    BY DEF Crash, TypeOK
  <2>3. /\ connPayment' \in [Conn -> Payment \cup {None}]
        /\ open' \in [Conn -> BOOLEAN]
    BY DEF Crash, TypeOK
  <2> QED BY <1>1, <2>1, <2>2, <2>3 DEF TypeOK
<1>5. RegistryConsistent'
  <2>1. \A u \in Server, q \in Payment :
          paymentConn'[u][q] = IF u = s THEN None ELSE paymentConn[u][q]
    BY DEF Crash, TypeOK
  <2> QED BY <1>2, <2>1, HubAssumption DEF RegistryConsistent, Subscriber
<1>6. OnlyLeaves
  BY <1>2 DEF OnlyLeaves
<1>7. AdmittedByTicket'
  BY <1>1, <1>6, AdmittedOK
<1>8. CallsOK'
  <2>1. Idle("gone").pc = "gone"
    BY DEF Idle
  <2> QED BY <1>1, <1>2, <1>3, <2>1 DEF CallsOK
<1>9. NewsOK'
  <2>1. Idle("gone").pc = "gone"
    BY DEF Idle
  <2> QED BY <1>1, <1>2, <1>3, <2>1, HubAssumption DEF NewsOK, At
<1> QED BY <1>4, <1>5, <1>7, <1>8, <1>9

-----------------------------------------------------------------------------

LEMMA StutterOK == HubInv /\ UNCHANGED vars => HubInv'
<1> SUFFICES ASSUME HubInv, UNCHANGED vars PROVE HubInv'
  OBVIOUS
<1> USE DEF HubInv, vars, registry
<1>1. TypeOK'
  BY DEF TypeOK
<1>2. RegistryConsistent' /\ AdmittedByTicket'
  BY DEF RegistryConsistent, Subscriber, AdmittedByTicket
<1>3. CallsOK' /\ NewsOK'
  BY DEF CallsOK, NewsOK, At
<1> QED BY <1>1, <1>2, <1>3

LEMMA NextOK == HubInv /\ [Next]_vars => HubInv'
<1> SUFFICES ASSUME HubInv, [Next]_vars PROVE HubInv'
  OBVIOUS
<1>1. ASSUME NEW c \in Conn, Step(c) PROVE HubInv'
  <2>1. CASE AnnounceOwn(c)
    BY <2>1, OwnNewsOK DEF AnnounceOwn, At
  <2>2. CASE AnnounceLast(c)
    BY <2>2, OwnNewsOK DEF AnnounceLast, At
  <2> QED BY <1>1, <2>1, <2>2, CheckFreeOK, ConsumeTicketOK, RegisterOK, ReadSnapshotOK,
             SendSnapshotOK, DisconnectOK, CancelOnDisconnectOK DEF Step
<1> QED BY <1>1, StutterOK, TicketsAndClients, SettleOK, AnnounceOK, ConnectOK,
           UnsubscribeOK, SubscribeOK, CrashOK DEF Next

\* HubInv holds in every reachable state.
THEOREM HubInvariance == Spec => []HubInv
<1>1. Init => HubInv
  BY InitOK
<1>2. HubInv /\ [Next]_vars => HubInv'
  BY NextOK
<1> QED BY <1>1, <1>2, PTL DEF Spec

\* Registry, tickets, calls and what the clients have heard have their types.
THEOREM HubTypes == Spec => []TypeOK
<1>1. HubInv => TypeOK
  BY DEF HubInv
<1> QED BY <1>1, HubInvariance, PTL

\* The two maps of every hub stay each other's inverse: no connection is
\* entered for a payment it does not listen to, or left out of the one it does.
THEOREM RegistryIsConsistent == Spec => []RegistryConsistent
<1>1. HubInv => RegistryConsistent
  BY DEF HubInv
<1> QED BY <1>1, HubInvariance, PTL

\* Nobody listens to a payment without a ticket of his own for it: spending a ticket
\* and registering its connection let one connection in at most.
THEOREM AdmissionByTicket == Spec => []AdmittedByTicket
<1>1. HubInv => AdmittedByTicket
  BY DEF HubInv
<1> QED BY <1>1, HubInvariance, PTL

\* What a client hears last is true: the end of a payment is told as it is and
\* never taken back.
THEOREM LastWordIsTrue == Spec => LastWord
<1> DEFINE Told ==
      \A c \in Conn, p \in Payment :
        /\ heard[c][p] \in Terminal => heard'[c][p] = heard[c][p]
        /\ heard'[c][p] \in Terminal => heard'[c][p] = status'[p]
<1>1. ASSUME HubInv, HubInv', [Next]_vars PROVE Told
  <2>1. /\ \A c \in Conn, p \in Payment : heard[c][p] \in Terminal => heard[c][p] = status[p]
        /\ \A c \in Conn, p \in Payment : heard'[c][p] \in Terminal => heard'[c][p] = status'[p]
    BY <1>1 DEF HubInv, NewsOK
  <2>2. ASSUME UNCHANGED heard PROVE Told
    BY <2>1, <2>2
  <2>3. ASSUME NEW s \in Server, NEW p \in Payment, NotifyPaymentStatus(s, p), UNCHANGED open
        PROVE  Told
    <3>1. \A c \in Conn, q \in Payment :
            heard'[c][q] = heard[c][q] \/ heard'[c][q] = status[q]
      BY <1>1, <2>3, NotifyOK DEF HubInv
    <3> QED BY <2>1, <3>1
  <2>4. ASSUME NEW c \in Conn, SendSnapshot(c) PROVE Told
    <3>1. PICK p : p = call[c].pay
      OBVIOUS
    <3>2. /\ p \in Payment /\ call[c].pc = "answer"
          /\ call[c].seen \in {"pending", status[p]}
      BY <1>1, <2>4, <3>1 DEF SendSnapshot, At, HubInv, CallsOK
    <3>3. CASE Subscriber(HomeOf[c], p) # c
      BY <2>2, <2>4, <3>1, <3>3 DEF SendSnapshot
    <3>4. CASE Subscriber(HomeOf[c], p) = c
      <4>1. connPayment[c] = p
        BY <1>1, <3>2, <3>4 DEF HubInv, RegistryConsistent
      <4>2. \/ heard' = heard
            \/ heard' = [heard EXCEPT ![c][p] = call[c].seen]
        BY <2>4, <3>1, <3>4 DEF SendSnapshot, Write
      <4>3. heard[c][p] \in Terminal => call[c].seen = status[p]
        BY <1>1, <3>1, <3>2, <4>1 DEF HubInv, NewsOK, At
      <4>4. heard \in [Conn -> [Payment -> PaymentStatus \cup {None}]]
        BY <1>1 DEF HubInv, TypeOK
      <4> QED BY <2>1, <3>2, <4>2, <4>3, <4>4
    <3> QED BY <3>3, <3>4
  <2>5. ASSUME NEW c \in Conn, AnnounceOwn(c) \/ AnnounceLast(c) PROVE Told
    <3>1. HomeOf[c] \in Server /\ call[c].pay \in Payment
      BY <1>1, <2>5, HubAssumption DEF AnnounceOwn, AnnounceLast, At, HubInv, CallsOK
    <3> QED BY <2>3, <2>5, <3>1 DEF AnnounceOwn, AnnounceLast
  <2>6. ASSUME NEW s \in Server, NEW p \in Payment, Announce(s, p) PROVE Told
    BY <2>3, <2>6 DEF Announce
  <2>7. ASSUME NEW c \in Conn, Step(c) PROVE Told
    BY <2>2, <2>4, <2>5, <2>7 DEF Step, CheckFree, ConsumeTicket, Register, ReadSnapshot,
       DisconnectPayment, CancelOnDisconnect
  <2> QED BY <1>1, <2>2, <2>6, <2>7 DEF Next, vars, IssueTicket, TicketExpires, Settle,
       Connect, Leave, Subscribe, Unsubscribe, Crash
<1>2. ASSUME HubInv, HubInv', [Next]_vars PROVE [Told]_vars
  BY <1>1, <1>2
<1> QED BY <1>2, HubInvariance, PTL DEF Spec, LastWord

=============================================================================
