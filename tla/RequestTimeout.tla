--------------------------- MODULE RequestTimeout ---------------------------
(***************************************************************************)
(* One HTTP request on its way through Recoverer, RequestLogger and        *)
(* RequestTimeout.  The handler runs in a goroutine of its own and writes  *)
(* into a buffer; the goroutine of the connection waits for it or for the  *)
(* end of the context, whichever it notices first, and answers the client. *)
(* A handler whose request is over is not stopped: it goes on with a dead  *)
(* context and a closed buffer.  Requests share nothing of this state.     *)
(***************************************************************************)
EXTENDS Naturals

CONSTANTS
  MaxChunks,  \* bound on the writes of the handler
  MaxTrips    \* bound on its round trips to database, Redis and gateway

ASSUME TimeoutAssumption == MaxChunks \in Nat /\ MaxTrips \in Nat

VARIABLES
  kind,      \* isWebSocketRequest: its handler runs without buffer and budget
  main,      \* what the goroutine of the connection does
  handler,   \* what the goroutine of the handler does
  issued,    \* the status and the chunks the handler has written
  buffer,    \* bufferedResponseWriter: status, body, closed
  done,      \* the channel done: open or closed
  panicCh,   \* the channel panicCh: empty, or what was recovered
  ctx,       \* the context: over when the budget is used up, the client has gone
             \* or the request is answered
  trip,      \* the round trips of the handler on their way, 0 or 1
  trips,     \* the round trips it has begun
  late,      \* those that took effect after the request was answered
  wire,      \* what the client is sent
  info,      \* requestLogInfo.outcome
  log        \* the line logged about the request

exchange == <<main, wire, info, log>>
work == <<handler, issued, done, panicCh>>
trippers == <<trip, trips, late>>
vars == <<kind, exchange, work, buffer, ctx, trippers>>

\* Classes of status codes; 504 and 500 are those the middleware itself sends.
Status == {"2xx", "4xx", "5xx"}
Ended == {"return", "panic", "abort"}
Unsent == [status |-> "none", body |-> 0]
Silence == [level |-> "none", outcome |-> "none"]

\* Both goroutines, the buffer, the channels and the log have their types: no
\* status but one of these is buffered, sent or logged.
TypeOK ==
  /\ kind \in {"plain", "websocket"}
  /\ main \in {"serve", "wait", "log", "recover", "over"}
  /\ handler \in {"none", "run", "return", "panic", "abort", "close", "gone"}
  /\ issued \in [status : Status \cup {"none"}, body : 0 .. MaxChunks]
  /\ buffer \in [status : Status \cup {"none"}, body : 0 .. MaxChunks, closed : BOOLEAN]
  /\ done \in {"open", "closed"}
  /\ panicCh \in {"empty", "panic", "abort"}
  /\ ctx \in {"live", "over"}
  /\ trip \in {0, 1} /\ trips \in 0 .. MaxTrips /\ late \in Nat
  /\ wire \in [status : Status \cup {"none", "504", "500", "cut", "socket"}, body : 0 .. MaxChunks]
  /\ info \in {"success", "client_error", "server_error", "timeout"}
  /\ log \in [level : {"none", "warn", "error"},
             outcome : {"none", "success", "client_error", "server_error", "timeout", "panic"}]

Init ==
  /\ kind \in {"plain", "websocket"}
  /\ main = "serve" /\ handler = "none"
  /\ issued = Unsent
  /\ buffer = [status |-> "none", body |-> 0, closed |-> FALSE]
  /\ done = "open" /\ panicCh = "empty" /\ ctx = "live"
  /\ trip = 0 /\ trips = 0 /\ late = 0
  /\ wire = Unsent /\ info = "success" /\ log = Silence

-----------------------------------------------------------------------------
(* The handler *)

Answered == main \in {"log", "over"}

\* The first status counts; a body without one is a success.
Header(w, s) == IF w.status = "none" THEN [w EXCEPT !.status = s] ELSE w

Append(w) == [Header(w, "2xx") EXCEPT !.body = @ + 1]

\* Both are ignored once the buffer is closed.  A websocket has no buffer.
WriteHeader(s) ==
  /\ handler = "run" /\ trip = 0 /\ kind = "plain"
  /\ issued' = Header(issued, s)
  /\ buffer' = IF buffer.closed THEN buffer ELSE Header(buffer, s)
  /\ UNCHANGED <<kind, exchange, handler, done, panicCh, ctx, trippers>>

Write ==
  /\ handler = "run" /\ trip = 0 /\ kind = "plain"
  /\ issued.body < MaxChunks
  /\ issued' = Append(issued)
  /\ buffer' = IF buffer.closed THEN buffer ELSE Append(buffer)
  /\ UNCHANGED <<kind, exchange, handler, done, panicCh, ctx, trippers>>

\* Mutant of BeginTrip: the handler is given the context of the connection.
BeginTripAnyway ==
  /\ handler = "run" /\ trip = 0
  /\ trips < MaxTrips
  /\ trip' = 1 /\ trips' = trips + 1
  /\ UNCHANGED <<kind, exchange, work, buffer, ctx, late>>

\* Every round trip is made with the request's context and fails at once when
\* that is over.
BeginTrip ==
  /\ handler = "run" /\ trip = 0 /\ ctx = "live"
  /\ trips < MaxTrips
  /\ trip' = 1 /\ trips' = trips + 1
  /\ UNCHANGED <<kind, exchange, work, buffer, ctx, late>>

\* What is on its way may take effect though nobody waits for it any more.
EndTrip ==
  /\ trip = 1
  /\ trip' = 0
  /\ late' = IF Answered THEN late + 1 ELSE late
  /\ UNCHANGED <<kind, exchange, work, buffer, ctx, trips>>

\* The handler is done with its answer, or panics wherever it is.  With a dead
\* context it does not wait for a round trip.
Finish(e) ==
  /\ handler = "run"
  /\ trip = 1 => ctx = "over"
  /\ handler' = e
  /\ UNCHANGED <<kind, exchange, issued, done, panicCh, buffer, ctx, trippers>>

\* Mutant of Recover: the channel done is closed before the panic is handed over.
CloseFirst ==
  /\ handler \in Ended /\ kind = "plain"
  /\ done' = "closed"
  /\ IF done = "closed"
     THEN /\ panicCh' = IF handler = "return" THEN "empty" ELSE handler
          /\ handler' = "gone"
     ELSE UNCHANGED <<panicCh, handler>>
  /\ UNCHANGED <<kind, exchange, issued, buffer, ctx, trippers>>

\* The deferred functions run last in, first out: the panic is handed over ...
Recover ==
  /\ handler \in Ended /\ kind = "plain"
  /\ panicCh' = IF handler = "return" THEN "empty" ELSE handler
  /\ handler' = "close"
  /\ UNCHANGED <<kind, exchange, issued, done, buffer, ctx, trippers>>

\* ... before the waiting goroutine is told.
CloseDone ==
  /\ handler = "close"
  /\ done' = "closed" /\ handler' = "gone"
  /\ UNCHANGED <<kind, exchange, issued, panicCh, buffer, ctx, trippers>>

-----------------------------------------------------------------------------
(* The goroutine of the connection *)

Serve ==
  /\ main = "serve"
  /\ main' = "wait" /\ handler' = "run"
  /\ UNCHANGED <<kind, wire, info, log, issued, done, panicCh, buffer, ctx, trippers>>

\* latencyBudget: every request but a websocket's has one.
Deadline ==
  /\ main = "wait" /\ kind = "plain" /\ ctx = "live"
  /\ ctx' = "over"
  /\ UNCHANGED <<kind, exchange, work, buffer, trippers>>

\* net/http cancels the context of a request whose client has gone.
ClientLeaves ==
  /\ main = "wait" /\ ctx = "live"
  /\ ctx' = "over"
  /\ UNCHANGED <<kind, exchange, work, buffer, trippers>>

\* Mutant of outcomeForStatus: the status for its outcome.
StatusItself(s) == s

outcomeForStatus(s) ==
  IF s = "5xx" THEN "server_error" ELSE IF s = "4xx" THEN "client_error" ELSE "success"

\* done is closed and panicCh empty: the buffer is closed and copied, and the
\* context is cancelled on the way out.  Nobody else writes to the connection.
Commit ==
  /\ main = "wait" /\ done = "closed" /\ panicCh = "empty"
  /\ buffer' = [buffer EXCEPT !.closed = TRUE]
  /\ wire' = [status |-> Header(buffer, "2xx").status, body |-> buffer.body]
  /\ info' = outcomeForStatus(wire'.status)
  /\ main' = "log" /\ ctx' = "over"
  /\ UNCHANGED <<kind, log, work, trippers>>

\* The panic of the handler goes on in this goroutine, past RequestLogger.
Repanic ==
  /\ main = "wait" /\ done = "closed" /\ panicCh # "empty"
  /\ main' = "recover" /\ ctx' = "over"
  /\ UNCHANGED <<kind, wire, info, log, work, buffer, trippers>>

\* Mutant of Timeout: the handler is waited for.
TimeoutAwaits ==
  /\ main = "wait" /\ ctx = "over" /\ kind = "plain" /\ done = "closed"
  /\ buffer' = [buffer EXCEPT !.closed = TRUE]
  /\ wire' = [status |-> "504", body |-> 0]
  /\ info' = "timeout" /\ main' = "log"
  /\ UNCHANGED <<kind, log, work, ctx, trippers>>

\* ctx.Done() is noticed, even if the handler has ended by now.
Timeout ==
  /\ main = "wait" /\ ctx = "over" /\ kind = "plain"
  /\ buffer' = [buffer EXCEPT !.closed = TRUE]
  /\ wire' = [status |-> "504", body |-> 0]
  /\ info' = "timeout" /\ main' = "log"
  /\ UNCHANGED <<kind, log, work, ctx, trippers>>

\* A websocket's handler runs in this goroutine; what it sends is its own.
ServeSocket ==
  /\ main = "wait" /\ kind = "websocket" /\ handler \in Ended
  /\ wire' = [status |-> "socket", body |-> 0]
  /\ IF handler = "return"
     THEN main' = "log" /\ UNCHANGED panicCh
     ELSE main' = "recover" /\ panicCh' = handler
  /\ handler' = "gone" /\ ctx' = "over"
  /\ UNCHANGED <<kind, info, log, issued, done, buffer, trippers>>

\* Recoverer: a JSON 500 and a line in the log; an abort cuts the connection.
Recoverer ==
  /\ main = "recover"
  /\ IF panicCh = "abort"
     THEN wire' = [wire EXCEPT !.status = "cut"] /\ UNCHANGED log
     ELSE /\ wire' = IF kind = "websocket" THEN wire ELSE [status |-> "500", body |-> 0]
          /\ log' = [level |-> "error", outcome |-> "panic"]
  /\ main' = "over"
  /\ UNCHANGED <<kind, info, work, buffer, ctx, trippers>>

\* The status RequestLogger has seen: a hijacked connection has none and
\* counts as 200.
Logged(s) == IF s = "504" THEN "5xx" ELSE IF s = "socket" THEN "2xx" ELSE s

\* requestLogLevel for a request of some duration.
requestLogLevel(s, duration) ==
  IF s = "5xx" \/ duration = "error" \/ info = "timeout" THEN "error"
  ELSE IF s = "4xx" \/ duration = "warn" THEN "warn"
  ELSE "none"

\* Mutant of RequestLogger: only slow requests are logged.
LogSlowOnly(duration) ==
  /\ main = "log"
  /\ log' = IF duration = "fast" THEN Silence ELSE [level |-> duration, outcome |-> info]
  /\ main' = "over"
  /\ UNCHANGED <<kind, wire, info, work, buffer, ctx, trippers>>

RequestLogger(duration) ==
  LET s == Logged(wire.status)
      level == requestLogLevel(s, duration)
      outcome == IF info = "success" THEN outcomeForStatus(s) ELSE info
  IN  /\ main = "log"
      /\ log' = IF level = "none" THEN Silence ELSE [level |-> level, outcome |-> outcome]
      /\ main' = "over"
      /\ UNCHANGED <<kind, wire, info, work, buffer, ctx, trippers>>

-----------------------------------------------------------------------------

Connection ==
  \/ Serve \/ Commit \/ Repanic \/ Timeout \/ ServeSocket \/ Recoverer
  \/ \E d \in {"fast", "warn", "error"} : RequestLogger(d)

Handler ==
  \/ \E s \in Status : WriteHeader(s)
  \/ Write \/ BeginTrip \/ Recover \/ CloseDone
  \/ \E e \in Ended : Finish(e)

Next == Connection \/ Handler \/ EndTrip \/ Deadline \/ ClientLeaves

Spec == Init /\ [][Next]_vars

\* The connection's goroutine is scheduled and time passes; nothing makes the
\* handler end.
Fairness == WF_vars(Connection) /\ WF_vars(Deadline)

FairSpec == Spec /\ Fairness

-----------------------------------------------------------------------------
(* Properties *)

\* The client is sent one whole answer: all the handler has written, if it
\* returned, or that of the middleware, whenever timeout, panic and late
\* writes come.  The answer of a handler that panicked, or was still writing
\* when the time was over, is never sent, nor a part of it.
WholeAnswer ==
  wire.status \in Status =>
    /\ handler = "gone" /\ panicCh = "empty"
    /\ wire = [issued EXCEPT !.status = Header(issued, "2xx").status]

\* A handler that has been given up does no more: the one round trip that was
\* on its way may still take effect, and no other begins.
LittleIsLate == late <= 1 /\ (Answered => late + trip <= 1)

\* Whoever reads the log can account for every request the server has failed:
\* a timeout and a failure are logged as errors under their own name, a panic
\* once, by Recoverer alone, and nothing is logged of one that was cut off.
Accountable ==
  main = "over" =>
    /\ wire.status = "504" <=> log = [level |-> "error", outcome |-> "timeout"]
    /\ wire.status = "5xx" => log = [level |-> "error", outcome |-> "server_error"]
    /\ wire.status = "500" => log = [level |-> "error", outcome |-> "panic"]
    /\ wire.status = "cut" => log = Silence

-----------------------------------------------------------------------------
(* What the two goroutines and the context know of each other: the inductive *)
(* invariant behind WholeAnswer, LittleIsLate and Accountable.             *)

\* Until it is closed the buffer holds what the handler has written, and the
\* connection's goroutine closes it before it goes on.
BufferOK ==
  /\ ~buffer.closed => buffer.status = issued.status /\ buffer.body = issued.body
  /\ main \in {"serve", "wait"} => ~buffer.closed /\ wire = Unsent /\ info = "success"

\* done is closed last, with the panic handed over.
ChannelsOK ==
  /\ done = "closed" => handler = "gone" /\ kind = "plain"
  /\ handler = "close" => kind = "plain"
  /\ main = "serve" <=> handler = "none"
  /\ main = "recover" => handler = "gone" /\ panicCh # "empty"

\* Whoever has left the wait has cancelled the context or seen it cancelled.
ContextOK ==
  /\ main \in {"log", "recover", "over"} => ctx = "over"
  /\ ~Answered => late = 0

\* The outcome and the status that RequestLogger and Recoverer start from.
LogOK ==
  /\ main # "over" => log = Silence
  /\ main = "recover" => wire.status \in {"none", "socket"}
  /\ main = "log" =>
       /\ wire.status \in Status \cup {"504", "socket"}
       /\ info = IF wire.status = "504" THEN "timeout"
                 ELSE IF wire.status = "socket" THEN "success"
                 ELSE outcomeForStatus(wire.status)

\* Whatever handler, deadline and client do, in any order.
IInv ==
  /\ TypeOK /\ WholeAnswer /\ LittleIsLate /\ Accountable
  /\ BufferOK /\ ChannelsOK /\ ContextOK /\ LogOK

-----------------------------------------------------------------------------
(* Liveness *)

\* A client gets its answer even if the handler never ends.
AlwaysAnswered == main = "serve" /\ kind = "plain" ~> main = "over"

=============================================================================
