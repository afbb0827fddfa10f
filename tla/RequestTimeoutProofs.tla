------------------------ MODULE RequestTimeoutProofs ------------------------
(***************************************************************************)
(* The answer, the lateness and the log of RequestTimeout, for handlers    *)
(* that write and ask as often as they like.                               *)
(***************************************************************************)
EXTENDS RequestTimeout, TLAPS

\* Before the request arrives nothing is written, asked, sent or logged.
LEMMA Initially == Init => IInv
  BY TimeoutAssumption
     DEF Init, IInv, TypeOK, WholeAnswer, LittleIsLate, Accountable, BufferOK, ChannelsOK,
         ContextOK, LogOK, Unsent, Silence, Answered, Status

\* WriteHeader and Write reach the client only through the open buffer.
LEMMA WritesKeep ==
  ASSUME IInv, (\E s \in Status : WriteHeader(s)) \/ Write
  PROVE  IInv'
<1> USE DEF IInv, exchange, trippers, Unsent, Silence
<1>0. issued.body \in Nat /\ buffer.body \in Nat
  BY TimeoutAssumption DEF TypeOK
<1>1. TypeOK'
  <2>1. CASE buffer.closed
    BY <1>0, <2>1, TimeoutAssumption DEF TypeOK, WriteHeader, Write, Header, Append, Status
  <2>2. CASE ~buffer.closed
    BY <1>0, <2>2, TimeoutAssumption
       DEF TypeOK, BufferOK, WriteHeader, Write, Header, Append, Status
  <2> QED
    BY <2>1, <2>2
<1>2. WholeAnswer'
  BY DEF WholeAnswer, WriteHeader, Write
<1>3. LittleIsLate' /\ Accountable' /\ ChannelsOK' /\ ContextOK' /\ LogOK'
  BY DEF LittleIsLate, Accountable, ChannelsOK, ContextOK, LogOK, WriteHeader, Write, Answered
<1>4. BufferOK'
  BY DEF TypeOK, BufferOK, WriteHeader, Write, Header, Append
<1> QED
  BY <1>1, <1>2, <1>3, <1>4

\* A round trip begins with a live context only, so none begins after the answer.
LEMMA TripsKeep ==
  ASSUME IInv, BeginTrip \/ EndTrip
  PROVE  IInv'
<1> USE DEF IInv, exchange, work
<1>1. TypeOK'
  BY TimeoutAssumption DEF TypeOK, BeginTrip, EndTrip, Status
<1>2. LittleIsLate' /\ ContextOK'
  BY DEF TypeOK, LittleIsLate, ContextOK, BeginTrip, EndTrip, Answered
<1>3. WholeAnswer' /\ Accountable' /\ BufferOK' /\ ChannelsOK' /\ LogOK'
  BY DEF WholeAnswer, Accountable, BufferOK, ChannelsOK, LogOK, BeginTrip, EndTrip
<1> QED
  BY <1>1, <1>2, <1>3

\* The handler's end is told with done, after the panic was handed over.
LEMMA EndKeeps ==
  ASSUME IInv, (\E e \in Ended : Finish(e)) \/ Recover \/ CloseDone
  PROVE  IInv'
<1> USE DEF IInv, exchange, trippers
<1>1. TypeOK'
  BY DEF TypeOK, Finish, Recover, CloseDone, Ended, Status
<1>2. WholeAnswer'
  BY DEF WholeAnswer, Finish, Recover, CloseDone, Ended
<1>3. ChannelsOK'
  <2>1. ASSUME NEW e \in Ended, Finish(e) PROVE ChannelsOK'
    BY <2>1 DEF TypeOK, ChannelsOK, Finish, Ended
  <2>2. CASE Recover
    BY <2>2 DEF TypeOK, ChannelsOK, Recover, Ended
  <2>3. CASE CloseDone
    BY <2>3 DEF TypeOK, ChannelsOK, CloseDone
  <2> QED
    BY <2>1, <2>2, <2>3
<1>4. LittleIsLate' /\ Accountable' /\ BufferOK' /\ ContextOK' /\ LogOK'
  BY DEF LittleIsLate, Accountable, BufferOK, ContextOK, LogOK, Answered, Finish, Recover, CloseDone
<1> QED
  BY <1>1, <1>2, <1>3, <1>4

\* Serve starts the handler, the end of the context changes nothing else.
LEMMA WaitKeeps ==
  ASSUME IInv, Serve \/ Deadline \/ ClientLeaves
  PROVE  IInv'
<1> USE DEF IInv, exchange, work, trippers
<1>1. TypeOK'
  BY DEF TypeOK, Serve, Deadline, ClientLeaves, Status
<1>2. WholeAnswer' /\ LittleIsLate' /\ Accountable'
  BY DEF WholeAnswer, LittleIsLate, Accountable, BufferOK, Answered, Unsent, Status,
         Serve, Deadline, ClientLeaves
<1>3. BufferOK' /\ ChannelsOK' /\ ContextOK' /\ LogOK'
  BY DEF BufferOK, ChannelsOK, ContextOK, LogOK, Answered, Serve, Deadline, ClientLeaves
<1> QED
  BY <1>1, <1>2, <1>3

\* Commit finds the whole of what a handler that returned has written.
LEMMA CommitKeeps ==
  ASSUME IInv, Commit
  PROVE  IInv'
<1> USE DEF IInv, Commit, work, trippers
<1>1. TypeOK'
  <2> USE DEF TypeOK, Status
  <2>1. buffer.body \in 0 .. MaxChunks /\ Header(buffer, "2xx").status \in Status
    BY DEF Header
  <2>2. wire' = [status |-> Header(buffer, "2xx").status, body |-> buffer.body]
    OBVIOUS
  <2>3. (wire \in [status : Status \cup {"none", "504", "500", "cut", "socket"},
                  body : 0 .. MaxChunks])'
    BY <2>1, <2>2
  <2>4. (info \in {"success", "client_error", "server_error", "timeout"})'
    BY DEF outcomeForStatus
  <2>5. (buffer \in [status : Status \cup {"none"}, body : 0 .. MaxChunks, closed : BOOLEAN])'
    BY <2>1
  <2> QED
    BY <2>3, <2>4, <2>5
<1>2. WholeAnswer'
  BY DEF TypeOK, WholeAnswer, BufferOK, ChannelsOK, Header
<1>3. LittleIsLate' /\ ContextOK'
  BY DEF TypeOK, LittleIsLate, ContextOK, Answered
<1>4. Accountable' /\ BufferOK' /\ ChannelsOK'
  BY DEF Accountable, BufferOK, ChannelsOK
<1>5. LogOK'
  BY DEF TypeOK, LogOK, Header, outcomeForStatus, Status
<1> QED
  BY <1>1, <1>2, <1>3, <1>4, <1>5

\* The middleware's own answers, and a websocket's.
LEMMA AnswersKeep ==
  ASSUME IInv, Repanic \/ Timeout \/ ServeSocket
  PROVE  IInv'
<1> USE DEF IInv, work, trippers
<1>1. TypeOK'
  <2>1. CASE Repanic
    BY <2>1 DEF TypeOK, Repanic, Status
  <2>2. CASE Timeout
    <3>1. (buffer \in [status : Status \cup {"none"}, body : 0 .. MaxChunks, closed : BOOLEAN])'
      BY <2>2 DEF TypeOK, Timeout, Status
    <3>2. (wire \in [status : Status \cup {"none", "504", "500", "cut", "socket"},
                    body : 0 .. MaxChunks])'
      BY <2>2, TimeoutAssumption DEF TypeOK, Timeout, Status
    <3> QED
      BY <2>2, <3>1, <3>2 DEF TypeOK, Timeout, Status
  <2>3. CASE ServeSocket
    BY <2>3, TimeoutAssumption DEF TypeOK, ServeSocket, Ended, Status
  <2> QED
    BY <2>1, <2>2, <2>3
<1>2. WholeAnswer'
  BY DEF WholeAnswer, BufferOK, Repanic, Timeout, ServeSocket, Unsent, Status
<1>3. LittleIsLate' /\ ContextOK'
  BY DEF TypeOK, LittleIsLate, ContextOK, Answered, Repanic, Timeout, ServeSocket
<1>4. Accountable' /\ BufferOK' /\ ChannelsOK'
  BY DEF TypeOK, Accountable, BufferOK, ChannelsOK, Repanic, Timeout, ServeSocket, Ended
<1>5. LogOK'
  BY DEF LogOK, BufferOK, Repanic, Timeout, ServeSocket, Unsent
<1> QED
  BY <1>1, <1>2, <1>3, <1>4, <1>5

\* The line that Recoverer or RequestLogger writes fits what was sent.
LEMMA LogKeeps ==
  ASSUME IInv, Recoverer \/ \E d \in {"fast", "warn", "error"} : RequestLogger(d)
  PROVE  IInv'
<1> USE DEF IInv, work, trippers
<1>1. TypeOK'
  <2>1. CASE Recoverer
    BY <2>1, TimeoutAssumption DEF TypeOK, Recoverer, Status
  <2>2. ASSUME NEW d \in {"fast", "warn", "error"}, RequestLogger(d) PROVE TypeOK'
    BY <2>2 DEF TypeOK, RequestLogger, Silence, requestLogLevel, outcomeForStatus, Status
  <2> QED
    BY <2>1, <2>2
<1>2. WholeAnswer'
  BY DEF TypeOK, WholeAnswer, Recoverer, RequestLogger, LogOK, Status
<1>3. LittleIsLate' /\ ContextOK'
  BY DEF TypeOK, LittleIsLate, ContextOK, Answered, Recoverer, RequestLogger
<1>4. BufferOK' /\ ChannelsOK' /\ LogOK'
  BY DEF BufferOK, ChannelsOK, LogOK, Recoverer, RequestLogger
<1>5. Accountable'
  <2>1. CASE Recoverer
    <3> USE <2>1 DEF TypeOK, Accountable, LogOK, Recoverer
    <3>1. wire.status \in {"none", "socket"} /\ log = Silence
      OBVIOUS
    <3>2. CASE panicCh = "abort"
      <4>1. wire'.status = "cut" /\ log' = Silence
        BY <3>1, <3>2
      <4> QED
        BY <4>1 DEF Silence
    <3>3. CASE panicCh # "abort" /\ kind = "websocket"
      BY <3>1, <3>3
    <3>4. CASE panicCh # "abort" /\ kind # "websocket"
      BY <3>1, <3>4
    <3> QED
      BY <3>2, <3>3, <3>4
  <2>2. ASSUME NEW d \in {"fast", "warn", "error"}, RequestLogger(d) PROVE Accountable'
    <3> USE <2>2 DEF TypeOK, Accountable, LogOK, RequestLogger, requestLogLevel,
                     outcomeForStatus, Logged, Silence, Status
    <3>1. wire' = wire /\ main = "log"
      OBVIOUS
    <3>2. CASE wire.status = "504"
      BY <3>1, <3>2
    <3>3. CASE wire.status = "5xx"
      BY <3>1, <3>3
    <3>4. CASE wire.status = "socket"
      BY <3>1, <3>4
    <3>5. CASE wire.status \in {"2xx", "4xx"}
      BY <3>1, <3>5
    <3> QED
      BY <3>1, <3>2, <3>3, <3>4, <3>5
  <2> QED
    BY <2>1, <2>2
<1> QED
  BY <1>1, <1>2, <1>3, <1>4, <1>5

\* The invariant of the two goroutines holds in every reachable state.
THEOREM Invariance == Spec => []IInv
<1>1. Init => IInv
  BY Initially
<1>2. IInv /\ [Next]_vars => IInv'
  <2> SUFFICES ASSUME IInv, [Next]_vars PROVE IInv'
    OBVIOUS
  <2>1. CASE Connection
    BY <2>1, WaitKeeps, CommitKeeps, AnswersKeep, LogKeeps DEF Connection
  <2>2. CASE Handler
    BY <2>2, WritesKeep, TripsKeep, EndKeeps DEF Handler
  <2>3. CASE EndTrip \/ Deadline \/ ClientLeaves
    BY <2>3, TripsKeep, WaitKeeps
  <2>4. CASE UNCHANGED vars
    BY <2>4
       DEF IInv, TypeOK, WholeAnswer, LittleIsLate, Accountable, BufferOK, ChannelsOK, ContextOK,
           LogOK, Answered, vars, exchange, work, trippers
  <2> QED
    BY <2>1, <2>2, <2>3, <2>4 DEF Next
<1> QED
  BY <1>1, <1>2, PTL DEF Spec

\* The phases, the channels, the buffer and the log keep their types, and every
\* status and outcome is one the log has a name for.
THEOREM TypeCorrect == Spec => []TypeOK
<1>1. IInv => TypeOK
  BY DEF IInv
<1> QED
  BY <1>1, Invariance, PTL

\* RequestTimeout answers with the whole of a returned handler's answer or with
\* none of it.
THEOREM AnswerIsWhole == Spec => []WholeAnswer
<1>1. IInv => WholeAnswer
  BY DEF IInv
<1> QED
  BY <1>1, Invariance, PTL

\* At most one round trip of an abandoned handler takes effect.
THEOREM LatenessIsBounded == Spec => []LittleIsLate
<1>1. IInv => LittleIsLate
  BY DEF IInv
<1> QED
  BY <1>1, Invariance, PTL

\* The log of a request that is over says what its client was sent.
THEOREM LogIsTrue == Spec => []Accountable
<1>1. IInv => Accountable
  BY DEF IInv
<1> QED
  BY <1>1, Invariance, PTL

=============================================================================
