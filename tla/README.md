# A TLA+ model of Smatch-Go

Smatch-Go rents badminton courts: customers book half-hour slots of a sub-court
and pay through ZaloPay, players open matches and join them, owners open and
close their courts. The server is a Go program that runs as two or more
instances behind a load balancer (`infra/terraform/asg.tf:140`,
`variables.tf:127`) and shares nothing between them but PostgreSQL and Redis.
This directory models its core in TLA+, checks the models with TLC on small
instances, and proves what matters most with TLAPS for every instance.

`PROJECT.json` lists the components, the runs, the hazards, the lines of source
behind every definition, the mutant of the code that breaks each property, and
the theorems.

    tlc -workers 2 -config MCPayments_sole.cfg MCPayments.tla     # a run
    tlapm PaymentsProofs.tla                                      # the proofs

## 1. Inventory

### The parts, their state and their operations

| Part | Source | State | Operations that change it |
|---|---|---|---|
| Payments and settlement | `service/payment_service.go`, `payment_orchestration.go`, `repository/payment_repository.go`, `handler/payment_handler.go` | `payments` rows; orders at ZaloPay | create, callback, poll (`EnsureCurrentStatus`), cancel, reconcile; success confirms, expiry and failure cancel the bookings |
| Bookings | `service/availability_service.go`, `repository/availability_repository.go` | `bookings` rows, `sub_court_closures`, prices, holidays | create, cancel, confirm, complete, clean up; the grid reads all of it |
| Scheduler | `service/scheduler_service.go` | none of its own | every 10 s `ReconcilePendingPayments`, every five minutes `MarkCompletedBookings`, on every instance |
| Redis service | `service/redis_service.go` | slot locks, websocket tickets, match locks, search cache | SETNX and EXPIRE, compare-and-delete, GETDEL |
| Websocket hub | `websocket/hub.go`, `handler/websocket_handler.go` | two inverse maps under one mutex, per process; match subscriptions | connect, subscribe with a ticket, snapshot, notify, unsubscribe, disconnect (which cancels the payment) |
| Matches | `service/match_service.go`, `repository/match_repository.go` | `matches`, `match_players` | join, leave, answer, update, cancel (paying for a seat cannot run as wired, see section 5) |
| Request timeout | `middleware/request_logger.go` | a buffered response per request | abandons a handler whose context is over |
| Accounts | `service/auth_service.go`, `repository/user_repository.go`, `middleware/auth.go`, `service/upload_service.go` | `users` rows, photos in S3, the owner of guest bookings | sign in, convert, edit, delete, upload a photo, claim bookings |
| Courts and search | `service/court_service.go`, `search_service.go`, `redis_service.go` | `courts` rows, an index of suggestions in Redis | create, change and delete a court, rebuild the index, search, suggest |
| Business profiles and their review | `service/business_profile_service.go`, `service/admin_service.go` | applications, roles, courts | submit, review, create a court (cannot run as wired, see section 5) |
| ZaloPay client, load-test routes, plumbing | `platform/zalopay/zalopay.go`, … | none that matters here | see `PROJECT.json` |

### How they interact

A customer creates a booking (row `pending`) and then a payment for it. The
payment service takes the Redis lock of every slot in the booking's group,
inserts the payment, makes a ticket for the websocket, asks ZaloPay for an order
and answers. From then on five parties race to decide the payment: the
ZaloPay callback, the client's polls, the client's cancellation, the closing of
its websocket (`Hub.OnPaymentDisconnect`, a call of `CancelPayment`) and the
10-second job of every instance. All go through one `UPDATE … WHERE status =
'pending'`; whoever finds the row applies the outcome to the bookings, one
UPDATE after the other, releases the locks and notifies the hub **of its own
process**. All of this happens in handlers under `RequestTimeout`, which answers
for a handler that takes too long and lets it go on with a dead context. Matches,
accounts and the index of suggestions share nothing with payments but the
bookings a guest has made: match payments, which were to take the same road and
end in `match_players`, cannot be made as the routes are wired.

### What is hard, and what makes each part correct

* *Payments.* Races between requests of several instances, a payer who pays
  late, a callback that comes late or never, a request abandoned between two
  round trips, errors that are ignored. Correct means: one winner per payment;
  its outcome and no other reaches the bookings; success only for money paid in
  time; a confirmed booking has been paid for; a slot is sold once; nothing stays
  pending for ever.
* *Hub.* The mutex is given up for every Redis and database round trip. Correct
  means: the two maps stay inverse; nobody listens without a ticket; a client is
  told the truth, last word included, and is told at all.
* *Matches.* Counting and inserting are separate, and an answer finds its player
  by the id of a row in any match. Correct means: no more players than seats, or
  at least no more than the calls that count at the same time explain; the host of
  a match answers its requests; a refusal or a leaving is final; no lock outlives
  the call that took it by much.
* *Availability.* The grid works in Go on half hours, the booking in SQL on
  ranges. Correct means: both agree on what is taken and on the price.
* *Request timeout.* Two goroutines, two channels, a buffer and a context that
  may end at any moment. Correct means: a client gets one whole answer; an
  abandoned handler does little more; the log says what the client was sent.
* *Accounts.* A call works on the row its middleware has read. Correct means: a
  photo that is shown exists; an anonymous account is converted, not taken over
  again and again; claimed bookings stay claimed.
* *Search.* The index is deleted and filled by commands that others interleave.
  Correct means: a rebuild that nobody disturbs leaves the index as the courts
  are; what is suggested has a name, matches, and is found.

The hazards of the code, each at its line, are in `PROJECT.json`, with the
properties that look at them.

## 2. Modules

| Module | Models | State |
|---|---|---|
| `Payments` | bookings, payments, orders, slot locks, all calls that settle them | 9 variables |
| `PaymentOutcome` | the abstract promise of settlement, without calls or locks | 3 variables |
| `PaymentHub` | tickets and the payment half of the hub on several instances | 8 variables |
| `Matches` | several matches, the rows of their players, the joining locks, the calls | 9 variables |
| `Availability` | one sub-court on one date: grid, prices, creation of bookings | 8 variables |
| `RequestTimeout` | one request: connection, handler, buffer, context, log | 14 variables |
| `Accounts` | accounts, photos, guest bookings, the calls | 9 variables |
| `CourtSearch` | courts, the index of suggestions, rebuilds and searches | 9 variables |
| `MC…` | instances of these for TLC (`RequestTimeout` needs none) | |
| `PaymentsProofs` ← `PaymentOutcomeProofs` | TLAPS proofs about `Payments`: invariants, locks; refinement, served payers | |
| `PaymentHubProofs`, `MatchesProofs`, `AvailabilityProofs`, `RequestTimeoutProofs`, `AccountsProofs`, `CourtSearchProofs` | TLAPS proofs about the others | |

**Payments.** A *request* is a handler, a websocket callback or a cron job on
any instance. `call[r].pc` names the round trip it makes next, and every round
trip (a query, an UPDATE, a Redis command, a call of the gateway) is one action;
between two of them anything else may happen. `Decide` is the guarded UPDATE,
`UpdateBooking` the unguarded one that follows it, `LockSlot`, `Rollback` and
`Unlock` the Redis commands, `EnsureCurrentStatus`, `SettleCallback`,
`CancelPayment` and `Reconcile` the entry points. `Abandon` ends a request
anywhere: the timeout of the middleware (`RequestTimeout`) cancels its context,
and a process that dies has the same effect. Time is two facts per row that only
become true: `aged` and `due`. The gateway is external: an order is open, paid
in time or paid late.

**PaymentOutcome** states what settlement promises: a payment is decided once;
the request that decided it, and nobody else, applies it; a booking is confirmed
in no other way. `Payments!ImplementsOutcome` is the refinement, by the mapping
`outcome <- status`, `booked <- booking`, and `applying` computed from the calls.

**PaymentHub.** What the code does under `Hub.mu` is one action; Redis
(`ConsumeTicket`) and the database (`ReadSnapshot`) are asked without it. A
connection is a goroutine on one instance. `Settle` decides a payment anywhere
and puts an announcement into `news`, `Announce` delivers it to the hub of that
instance. `DisconnectPayment` starts the cancellation of the payment.

**Matches.** A call takes a step per round trip, as in `Payments`. The rows of
`match_players` are pairs of a match and a user. `call[r].match` is the match of
the URL and `call[r].row` the row the call is about: they agree in a join and a
leave, but an answer takes any row (`FindPlayerByID`, `match_service.go:429`),
while count, slots, price and position stay those of the URL's match. The lock of
`JoinMatch` is per match *and user*. `Notify` is the helper pair `notifyUser` and
`notifyMatchSubscribers` (`match_service.go:531-539`), which call themselves: the
stack overflows and the process dies, with every call on that instance;
`Restart` brings it back, `LockExpires` frees what was locked. `astray` is
history: the rows that an answer given in another match has accepted. Nobody pays
here (section 5): a player who owes money stays `PENDING_PAYMENT`, or leaves. The
constant `Ops` says which operations an instance exercises in which match.

**Availability.** Times are minutes after midnight (the code compares `HH:MM`
strings, which order alike). `TimeSlots`, `IsAvailable` and `PriceForSlot` are
the grid; `CreateBooking`, `GetSubCourt`, `CheckOverlap`, `PriceItem` and
`InsertBookings` are the loop over the items of a request, a step per query.
Confirmation and cancellation write over any status, as the UPDATE does. Hours,
prices and `is_active` do not change: no endpoint changes them
(`SetSubCourtActive` is never called).

**RequestTimeout.** `Connection` is the goroutine of the connection on its way
through `Recoverer`, `RequestLogger` and `RequestTimeout`; `Handler` the one
that the middleware starts. `Write` and the round trips are what the handler
does, `Recover` and `CloseDone` its deferred functions in the order they run,
`Commit`, `Repanic` and `Timeout` the branches of the select, either of which may
be taken when several are ready. A websocket's handler runs without budget or
buffer (`ServeSocket`). Requests share nothing of this, so one is enough.

**Accounts.** A call of `Operation` begins with the row of its token
(`RequireAuth`, and the check on `anonymous`) and then acts on that row's id,
a round trip per step; `Unique` is what the indices refuse. An upload puts the
new photo, deletes the old one and only then names the new one (`PutPhoto`,
`RemoveOld`, `SavePhoto`). An edit (`UpdateMe`) writes any string into the photo:
another site's URL, nothing, or the key of any photo that was ever uploaded, by
this account or another. `converted`, `dangling` and `named` are history: how
often `Convert` has changed an account, which accounts an upload was abandoned on
after the deletion, and which keys an edit has written. `Ops` says which
operations an instance exercises on which account.

**CourtSearch.** A rebuild (`Reindex`) reads the courts, deletes the index and
adds court after court: HSET, then a ZADD per term. A search reads the terms,
then the names (`SearchAutocomplete`, `Suggest`); `Orders` is the order in which
Go goes through the map, any. `SearchResult` is the WHERE of the search in SQL.
Names and districts are model values with the words at their start and anywhere
in them, whether they are too short to be indexed, and whether they contain the
`|` that separates a term from its court: such a term is split in the wrong place
(`CourtOf`), so that what is looked up is the id of no court.

## 3. Runs

| Run | Bounds | Shows |
|---|---|---|
| `payments_sole` | 1 booking, 2 payments, 2 requests, 1 failure or death; fair | `OneWinner`, `SuccessWasPaid`, `ConfirmedIsPaid`, the inductive invariant `IInv`; every step is one of `PaymentOutcome`; `PaymentsAreDecided`, `BookingsAreDecided` |
| `payments_group` | a group of 2 bookings, 2 payments, 2 requests, polls and cancellations, no failure | `PayerGetsGroup`, `LocksHaveReason`, and the refinement for groups |
| `double_booking` | 2 rivals, 1 slot | *violation*: one slot is sold twice |
| `hub_registry` | 1 instance, 2 connections (one patient), 2 payments, 2 tickets, failures, crashes; fair | `RegistryConsistent`, `AdmittedByTicket`, `LastWord`, the invariant `HubInv`, `SubscriberHears` |
| `hub_elsewhere` | 2 instances | *violation*: the announcement is made on the wrong instance |
| `matches_parallel` | 2 matches, 3 users, 1 seat, 2 calls (join and answer, and answers from the other match), 2 servers, no failure | `OverrunIsBounded` |
| `matches_final` | 2 matches, 1 user, 2 calls (all operations in one match, answers in the other), 2 servers, 1 failure; fair | `RefusalIsFinal`, `LocksLapse` |
| `match_elsewhere` | 2 matches, 1 user, 1 call | *violation*: a request is answered by the host of another match |
| `availability_grid` | a morning in quarter hours, 2 bookings, 1 closure, 1 failure, 2 kinds of opening hours and of days | `OfferedIffBookable`, `PriceAsShown`, `GridTilesDay`, the invariant `IInv` |
| `request_timeout` | 2 writes, 3 round trips, a websocket or not; fair | `WholeAnswer`, `LittleIsLate`, `Accountable`, `AlwaysAnswered` |
| `accounts` | 2 accounts (both upload and claim, the first is edited and deleted, the second converted), 2 identities with one email, 2 calls, 3 photos, 1 guest booking, 1 failure | `PhotoNotLost`, `ConversionsAreBounded`, `BookingsStay` |
| `court_search` | 2 courts, one of which changes once; 2 rebuilds, 1 search, 1 failed command, 1 suggestion at most | `IndexIsExact`, `SuggestionsAreNamed`, `SuggestedIsFound`, `SuggestionsMatch` |

A `TypeOK` is checked in one run of every module that models code.

*Why the bounds are enough.* The races are between two parties at a time: a
winner and a loser of the UPDATE, two callers who count, a subscriber and an
announcer, two uploads, two rebuilds; two requests show each of them. Two
payments make the reuse of a booking after a failed payment happen; two bookings
are the smallest group, with one confirmed and the other not yet. Three users
are needed for a seat to be taken while two others count, and a second match for
an answer to come from elsewhere; what else is done in the second match does not
meet the first one's calls, so `Ops` leaves it out there, as it leaves out edits
and deletions of the account that is converted. Two identities with
one email are the smallest case in which the unique indices refuse something. A
suggestion more than the limit allows needs two courts and a limit of one. One
failure reaches every error branch, since a failure anywhere ends or changes the
call that has it; what takes two failures is left to the proofs, which bound
nothing. A quarter-hour raster puts times on, off and between the half hours of
the grid. `MaxFaults`, `MaxChanges`, `MaxChunks` and `MaxTrips` are the only
counters; `Payment`, `Booking`, `Ticket`, `Key` and `Id` are used up one after
the other, so the runs end. That is also why deadlock is not checked in most of
them (once all identifiers are used, or every connection is gone, the system
rests); in `availability_grid` and `court_search` it is.

*Fairness.* `payments_sole`: each request that has a next round trip makes it
(goroutines are scheduled, calls have timeouts), time passes, and the job of
some instance starts again and again (strong fairness of `Reconcile`: cron gives
it a goroutine whenever its tick comes, but in the model the requests may be
busy at any given moment). Payers, callbacks and polls are not fair.
`hub_registry`: goroutines go on and an announcement is made after the decision.
This needs every `WriteJSON` to return, which the code does not enforce (no
write deadline, `hub.go:223`), so a client that stops reading is outside this
result; and `SubscriberHears` speaks of `Patient` clients, which stay and whose
snapshot can be read. `matches_final`: calls go on, locks lapse (a TTL of 60 s,
longer than any request may take), and a dead process is started again (the
autoscaling group). `request_timeout`: the goroutine of the connection runs and
the budget runs out. The handler is not fair: it may hang.

### What the violations say

1. `double_booking`: two customers may hold pending bookings of one slot, because
   the overlap check sees confirmed ones only. The first pays: the booking is
   confirmed and the slot lock freed. The second then takes the lock and pays;
   nothing looks at the slot again.
2. `hub_elsewhere`: the guide for front ends promises a notification that is sent
   only on the instance that decided the payment.
3. `match_elsewhere`: `RespondToJoinRequest` is "host only", says its comment
   (`match_service.go:411`); the host it asks for is that of the match in the URL,
   and a player who is not in that match is then looked for in every other.

Met while modelling and not given runs of their own: the lock that is to
"prevent race conditions on slot counting" contains the user's id, so two users
do not exclude each other and a match is overfilled, though by no more than
`OverrunIsBounded` says; answers given through another match are counted against
that match's seats and charged at its price, so they fill this one beyond any
bound, and for nothing if the other is free; the route for paying for a match
names its parameter `id` (`main.go:311`) and the handler reads `matchId`
(`payment_handler.go:144`), so that no match is ever found
(`payment_orchestration.go:337-340`); a photo that an account shows and another's
edit has named is deleted by that other account's next upload
(`auth_service.go:119-121`, `upload_service.go:92-93`); a name with a `|` gives a
suggestion whose id is no court's and which has no name
(`redis_service.go:212-216`, `264-273`); two accepted players with one position; a
match that stays `FULL` with a free seat after a leave overtakes a join; two
answers of a host that overwrite each other; the endless recursion of the
notification helpers; a second connection for one payment admitted by another
instance; a booking paid for and cancelled all the same when the process dies
between two UPDATEs; a photo that stays in the bucket for good after two uploads
at once; an account that takes the email of an identity it does not have, which
can then never sign in; a review of business profiles that always panics. The
hazards say what is and what is not checked about them.

## 4. Proofs

No bound is assumed: any sets of bookings, payments, requests, connections,
tickets, servers, players, opening hours, prices and times, any `MaxFaults`. What
is assumed is what the modules' ASSUMEs say (identifiers differ from `None`,
groups partition the bookings, times are natural numbers, the calls are finitely
many where they are counted, …); TLC evaluates them in every run. Three theorems
assume more, in their statement (`NoLockLeaks`, `PayerIsServed`,
`OverrunBounded`).

* `PaymentsProofs`. `IInv` adds to the properties what a call in flight knows:
  who is about to write `success` has seen a payment in time; who applies an
  outcome applies the row's status, to the row's group; and no two requests apply
  one payment, or order it (`SoleOwner`). Without it `ConfirmedIsPaid` is not
  inductive: a stale winner could confirm after the fact. One lemma per action,
  `Invariance` puts them together; `TypeCorrect`, `WinnerIsAlone`, `SuccessIsPaid`
  and `ConfirmationIsPaid` follow.
  Its last section is about slot locks. `NoLockLeaks`: where nothing fails
  (`MaxFaults = 0`; a failed round trip does leave locks behind), every lock is
  held for a reason. `LockInv` says for whose bookings a call answers at each of
  its steps (`Holds`) and a pending payment for its group (`Pledged`). The lemma
  `Moves` is the one argument behind every action: what a request takes it holds,
  and what it lets go it has freed or handed to a payment.
* `PaymentOutcomeProofs`. `Refinement`: initial states map to initial states, and
  every step of every handler, failures and deaths included, is a step of
  `PaymentOutcome` or a stutter. It needs `BookInv`, that bookings are made once
  and group by group, since the promise has a group made by one step; `Appl` is
  who applies what, whose change each lemma computes. `PayerIsServed`: where
  nothing fails and no customer cancels a booking (`userCancel`, which takes a
  booking from its payer by intent), `PayerGetsGroup`. `PaidInv` says which updates
  are still to come: a booking whose only payment is a success is confirmed, or
  the request that decided the payment has it to do (`ToCome`). It needs `BookInv`:
  the rows a request inserts were absent, so it makes no paid booking pending.
* `PaymentHubProofs`. `HubInv` adds `CallsOK` (what a goroutine remembers across
  a round trip) and `NewsOK`: a stale "pending" snapshot has nobody to go to any
  more. `HubInvariance`, `HubTypes`, `RegistryIsConsistent`, `AdmissionByTicket`
  and the action property `LastWordIsTrue` follow.
* `MatchesProofs`. `MatchInv` types the tables and the calls by their step; that
  a player's position is a number needs that a finite set of positions has a
  maximum, which is proved by well-foundedness (`PositionIsNatural`). Two
  arguments rest on what a step may do to a call (`CallsMove`): it stays, goes
  where it neither counts nor writes, or takes one of the steps that lead to a
  write, still about the same player and match (`Proceeds`). `RefusalsAreFinal`
  follows because a call can begin to lead to a write only while the row is
  pending or absent, in any match (`NobodyUndoes`), and `RowsChange` says who may
  write. `OverrunBounded` assumes `SameSlots` (a host who lowers the number of
  slots makes any match too full) and counts, match by match, the seated players
  together with the rows a call claims a seat for (`Crowd`, `CrowdInv`): a call
  that saw a free seat is one of the concurrent calls the bound allows for, and
  its claim is against the match it counted. Rows accepted through another match
  are outside the claim, as they must be: no bound holds for them.
* `AvailabilityProofs`. `IInv` says that every checked item and every row is
  valid and priced as of now, or a query has failed. With four facts about
  residues modulo 30 (`HalfHourOf`, `SameRaster`, `RasterIsApart`, `RasterEnds`)
  and `HalfHoursCover`, it gives `GridIsHonest`, `PriceIsShown` and `GridTiles`,
  at minute precision and for any number of bookings, on the grid or off it.
* `RequestTimeoutProofs`. `IInv` relates the two goroutines: what the buffer holds
  while it is open, which channel is full or closed at which step of the handler,
  and that the context is over once the request is answered. `AnswerIsWhole`,
  `LatenessIsBounded` and `LogIsTrue` follow, for any number of writes and trips.
* `AccountsProofs`. `AccountInv` adds to `PhotoNotLost` that rows are unique, that
  every key in a row or a call has been given to an upload (`PhotosSpent`), and,
  for the keys no edit has named (`Own`), that a photo belongs to one row and a
  call that holds an old photo works for that row (`PhotosApart`), and that a new
  one is in the bucket and nobody else's until it is named (`NewPhotosSafe`): two
  uploads cannot delete what the other shows. An edit that names a key takes it
  out of the claim, its owner's row included, and leaves the rest as it is
  (`PhotosNamed`). `ConversionsBounded` counts the conversions that have passed the
  check together with those that are over (`ConversionInv`). `TypeCorrect`,
  `PhotosNotLost` and the action property `ClaimsStay` follow from the former.
* `CourtSearchProofs`. `SearchInv` says how far a rebuild that nothing came
  between has come (`Built`: court by court, what is in the index or still in the
  pipeline is what the court's row says), that such a rebuild is the only one
  (`Sole`), and that names precede terms until a DEL cuts a pipeline in two
  (`Named`). `RebuildIsExact` is one of its parts; `NamesAreKnown` follows, for every
  suggestion a client has got: one without a name comes from a term with a `|`,
  from an index deleted since the terms were read, or from a torn one.
  `SearchesAgree` follows too. The action property `SuggestionIsFull` is about the loop over
  the matches. Its recursive function exists and is the one the recursion
  describes (`LoopExists`, `CollectIsLoop`), by well-foundedness of the natural
  numbers applied to a set of indices (`Induction`), which needs no operator as a
  parameter; then what it has taken after k steps is all it has seen that matches,
  or it is full (`CollectOK`), and an order goes through everything (`OrderOK`,
  by the pigeonhole principle for finite sets).

*Only model-checked*: liveness (`PaymentsAreDecided`, `BookingsAreDecided`,
`SubscriberHears`, `LocksLapse`, `AlwaysAnswered`), which is out of this prover's
reach, as is anything about ENABLED. Every other property of a passing run is a
theorem.

## 5. Limits

* Clocks do not drift apart between instances, and `due` is one fact for all.
* The response of the gateway may be lost, but an order that exists without the
  server having learned its id is not told apart from one that does.
* The time to live of a slot lock is not counted. The lock may expire
  (`ExpireLock`), with or without failures, from the moment when its booking is as
  old as a deadline, every payment for its group is past its own, and no call that
  took the lock is still between taking and leaving it. In the code the lock
  expires one or two round trips before its payment does; that interval is left
  out, as is a lock that was never given a time to live (a process that dies
  between SETNX and EXPIRE).
* The order in which the locks of a group are taken is arbitrary: the query of
  the group has no ORDER BY.
* In `Payments`, a timeout of the middleware is its effect on the tables: a call
  that stops between two round trips. The two goroutines and the buffer are
  `RequestTimeout`, which leaves out `Flush`, a refused websocket handshake, and
  the pool from which chi takes the context of a route.
* Frames on a socket, pongs and the blocking of the hub by a slow client are not
  modelled; nor are the match subscriptions of the hub.
* Prices are integers, the holiday multiplier a whole percentage (the column
  is a FLOAT); rounding is half up, floating-point error is left out.
* An item for an unknown sub-court, and several sub-courts or dates in one
  request, are left out of `Availability`: items do not influence each other.
* Positions and the `FULL` mark are in `Matches`, but no property except `TypeOK` speaks of them.
  Titles, skill levels, images and the queue of joins are left out.
* `PhotoNotLost` speaks of the keys that no edit has written into a row: an edit
  takes any string, and the object under a key it names is deleted by the next
  upload of the account that names it. A string that is no key of an upload is
  like another site's URL.
* User names (unique like an email), device tokens, roles and reads are left out
  of `Accounts`; all guest bookings have one phone number.
* `SuggestedIsFound` speaks of suggestions that are courts: one made from a term
  with a `|` is the id of none, and the search finds none under it.
* `CourtSearch` leaves out popular queries, pages, wards and distances; a rebuild
  goes through the courts in any order.
* Signatures of callbacks, authorisation and the wording of answers.

### Not modelled

* *Payments for matches.* As wired none can be made: `POST /matches/{id}/payment`
  (`cmd/server/main.go:311`) is served by `CreateMatchPayment`, which asks chi for
  `matchId` (`handler/payment_handler.go:144`). The id is always empty, no match
  is found, and the answer is NOT_FOUND (`payment_orchestration.go:337-340`). No
  payment ever has a match, so the match halves of the settlement
  (`payment_service.go`), of the expiry (`MarkExpiredMatchPlayers`) and of the
  player status `EXPIRED` are never reached.
* *The review of business profiles.* As wired it cannot run: `RequireAdmin`
  (`middleware/auth.go:180`) puts no user into the context, which
  `ReviewApplication` (`handler/admin_handler.go:80`) dereferences, so every
  review panics before it changes anything; and the routes for submitting a
  profile demand the role and the approved profile that only a review gives
  (`cmd/admin-server/main.go:157`, `middleware/auth.go:158`). A model of it would
  have no second state.
* *The join queue and the search cache in Redis, listings, documents and match
  images, map tiles*: reads, or one call of an external store each.
* *ZaloPay client, load-test routes, start-up, DTOs, the alarm notifier,
  infrastructure*: external, test support, or without state; see the notes in
  `PROJECT.json`.

## 6. Plan

Done, in this order: `Payments` with its runs and proofs, `PaymentHub`,
`Matches`, `Availability`, `RequestTimeout`, `Accounts`, `CourtSearch`,
`MatchesProofs`, `AccountsProofs`, the theorem on slot locks, the refinement
theorem, the one on served payers, and `CourtSearchProofs`; then the answers
given through another match, edits of any photo key, and terms with a `|`. What is
left:

1. `SlotLocks`: SETNX, EXPIRE, compare-and-delete and the plain DEL of the
   rollback with a time to live, several groups at once. Abstract specification:
   a lock has one holder, and only the holder or the clock takes it away.
2. The match half of the hub: subscriptions, the mutex, writers on one socket.
3. A module that composes `Payments` and `PaymentHub`, where the closing of a
   socket really cancels and the decision is really announced.
4. Onboarding, once it can run: `ReviewApplication` does not look at the present
   status, and roles are read, changed and written. Abstract specification: an
   application gives at most one court.
5. Match payments, once their route names its parameter as the handler does:
   seats are then paid for, and `MarkExpiredMatchPlayers` has no condition on the
   status it replaces.

The number of runs stays as it is: new questions join an existing run where the
instance allows it.
