------------------------------ MODULE Matches ------------------------------
(***************************************************************************)
(* The matches and the users who want to play in them: MatchService's      *)
(* join, leave, respond, update and cancel calls and the Redis lock of a   *)
(* joining user.                                                           *)
(*                                                                         *)
(* A call takes one step per database or Redis round trip.  Calls of all   *)
(* server instances interleave; nothing but the lock of one user in one    *)
(* match orders them.                                                      *)
(*                                                                         *)
(* There are no match payments: as the routes are wired none can be made,  *)
(* for POST /matches/{id}/payment calls a handler that reads "matchId".    *)
(* A player who owes money therefore stays so, or leaves.                  *)
(***************************************************************************)
EXTENDS Naturals, FiniteSets, FiniteSetsExt

CONSTANTS
  Match,      \* the matches
  User,       \* the users
  HostOf,     \* [Match -> the user who hosts it]
  Request,    \* concurrent calls
  Server,     \* server instances
  ServerOf,   \* [Request -> Server]
  Terms,      \* what UpdateMatch may set: [slots, private, priced] records
  Created,    \* the terms the matches may be created with: a set of [Match -> Terms]
  HostSets,   \* the statuses a host gives a match with UpdateMatch
  Ops,        \* [Match -> the operations this instance exercises in it]
  MaxFaults,  \* bound on failed round trips
  None

Operation == {"join", "leave", "respond", "update", "cancel"}

ASSUME MatchAssumption ==
  /\ IsFiniteSet(Match) /\ IsFiniteSet(User) /\ IsFiniteSet(Request)
  /\ ServerOf \in [Request -> Server]
  /\ Terms \subseteq [slots : Nat \ {0}, private : BOOLEAN, priced : BOOLEAN]
  /\ Created \subseteq [Match -> Terms]
  /\ HostSets \subseteq {"OPEN", "FULL", "IN_PROGRESS", "COMPLETED", "CANCELLED"}
  /\ Ops \in [Match -> SUBSET Operation]
  /\ MaxFaults \in Nat
  /\ None \notin Operation

VARIABLES
  state,     \* matches.status
  terms,     \* matches.slots_needed, is_private and price > 0
  player,    \* match_players.status of each row, "none" without the row
  position,  \* match_players.position, 0 for NULL
  lock,      \* Redis: match:player:lock:<match>:<user>
  call,      \* what each request does
  up,        \* the process of each server is alive
  faults,
  astray     \* history: the rows accepted by an answer given in another match

tables == <<state, terms, player, position, lock, astray>>
vars == <<tables, call, up, faults>>

\* match_players has one row for a match and a user.
Row == Match \X User

MatchStatus == {"OPEN", "FULL", "IN_PROGRESS", "COMPLETED", "CANCELLED"}
PlayerStatus == {"none", "PENDING", "PENDING_PAYMENT", "ACCEPTED", "REJECTED",
                 "LEFT", "EXPIRED"}
Joined == {"PENDING", "PENDING_PAYMENT", "ACCEPTED"}
Label == {"idle", "find", "lock", "count", "position", "add", "assign", "recount",
          "full", "notify", "unlock", "leave", "reopen", "cancel"}

Call == [op    : Operation \cup {None},
         pc    : Label,
         match : Match \cup {None},   \* the match of the URL
         row   : Row \cup {None},     \* the player's row, of this match or of another
         seen  : Terms \cup {None},   \* the match as the call has read it
         to    : PlayerStatus,        \* the status it is about to give the player
         pos   : Nat]                 \* and the position, 0 for none

IdleCall == [op |-> None, pc |-> "idle", match |-> None, row |-> None, seen |-> None,
             to |-> "none", pos |-> 0]

\* Rows, locks and calls have their types: the position of the first player of a
\* match, for whom MAX(position) is NULL, is a number as well.
TypeOK ==
  /\ state \in [Match -> MatchStatus]
  /\ terms \in [Match -> Terms]
  /\ player \in [Row -> PlayerStatus]
  /\ position \in [Row -> Nat]
  /\ lock \in [Row -> BOOLEAN]
  /\ call \in [Request -> Call]
  /\ up \in [Server -> BOOLEAN]
  /\ faults \in 0 .. MaxFaults
  /\ astray \subseteq Row

\* CreateMatch: the row starts OPEN.
CreateAndFetch == state = [m \in Match |-> "OPEN"] /\ terms \in Created

Init ==
  /\ CreateAndFetch
  /\ player = [p \in Row |-> "none"]
  /\ position = [p \in Row |-> 0]
  /\ lock = [p \in Row |-> FALSE]
  /\ call = [r \in Request |-> IdleCall]
  /\ up = [s \in Server |-> TRUE]
  /\ faults = 0
  /\ astray = {}

-----------------------------------------------------------------------------
(* Helpers *)

At(r, l) == call[r].pc = l

Becomes(r, c) == call' = [call EXCEPT ![r] = c]

Goto(r, l) == Becomes(r, [call[r] EXCEPT !.pc = l])

Return(r) == Becomes(r, IdleCall)

\* The columns of a match that a call keeps.
FindByID(m) == terms[m]

\* The status of a row.  RespondToJoinRequest looks for a player of the match
\* first and takes any row of that id then: FindPlayerByID asks for no match.
FindPlayer(p) == player[p]
FindPlayerByID(p) == player[p]

Begin(r, o, m, c) ==
  /\ o \in Ops[m] /\ up[ServerOf[r]] /\ At(r, "idle")
  /\ Becomes(r, [c EXCEPT !.op = o, !.match = m, !.seen = FindByID(m)])

Fault == faults < MaxFaults /\ faults' = faults + 1

Accepted(m) == {p \in Row : p[1] = m /\ player[p] = "ACCEPTED"}

\* Mutant of NoSeatLeft: one too many.
NoSeatLeftOffByOne(r) == Cardinality(Accepted(call[r].match)) > call[r].seen.slots

\* CountAcceptedPlayers of the URL's match against the slots the call has read
\* earlier.
NoSeatLeft(r) == Cardinality(Accepted(call[r].match)) >= call[r].seen.slots

\* Mutant of NextPosition: the NULL of an empty match is handed on.
NextPositionOrNull(m) ==
  IF Accepted(m) = {} THEN None ELSE Max({position[p] : p \in Accepted(m)}) + 1

NextPosition(m) ==
  IF Accepted(m) = {} THEN 1 ELSE Max({position[p] : p \in Accepted(m)}) + 1

\* UPDATE match_players: whatever the status was; no position leaves the old one.
UpdatePlayerStatus(p, st, pos) ==
  /\ player' = [player EXCEPT ![p] = st]
  /\ position' = [position EXCEPT ![p] = IF pos = 0 THEN @ ELSE pos]

\* UPDATE matches SET status: no condition on the status it replaces.
UpdateStatus(m, st) == state' = [state EXCEPT ![m] = st]

-----------------------------------------------------------------------------
(* JoinMatch *)

JoinMatch(r, m, u) ==
  /\ state[m] = "OPEN" /\ u # HostOf[m]
  /\ Begin(r, "join", m, [IdleCall EXCEPT !.pc = "find", !.row = <<m, u>>])
  /\ UNCHANGED <<tables, up, faults>>

CheckPlayer(r) ==
  /\ At(r, "find") /\ call[r].op = "join"
  /\ IF FindPlayer(call[r].row) \in Joined THEN Return(r) ELSE Goto(r, "lock")
  /\ UNCHANGED <<tables, up, faults>>

\* The lock is the user's own: it keeps a user from joining twice at a time,
\* not two users from counting the same seat.
AcquireMatchPlayerLock(r) ==
  LET p == call[r].row
  IN  /\ At(r, "lock")
      /\ IF lock[p]
         THEN Return(r) /\ UNCHANGED lock
         ELSE /\ lock' = [lock EXCEPT ![p] = TRUE]
              /\ Becomes(r, IF call[r].seen.private
                            THEN [call[r] EXCEPT !.pc = "add", !.to = "PENDING"]
                            ELSE [call[r] EXCEPT !.pc = "count", !.to = "ACCEPTED"])
      /\ UNCHANGED <<state, terms, player, position, astray, up, faults>>

CountSeats(r) ==
  /\ At(r, "count") /\ call[r].op = "join"
  /\ IF NoSeatLeft(r) THEN Goto(r, "unlock") ELSE Goto(r, "position")
  /\ UNCHANGED <<tables, up, faults>>

\* Of JoinMatch and RespondToJoinRequest.  An error of the query is taken for an
\* empty match.
GetNextPosition(r) ==
  /\ At(r, "position")
  /\ LET go(n) == Becomes(r, [call[r] EXCEPT !.pos = n,
                                !.pc = IF call[r].op = "join" THEN "add" ELSE "assign"])
     IN  \/ go(NextPosition(call[r].match)) /\ UNCHANGED faults
         \/ go(1) /\ Fault
  /\ UNCHANGED <<tables, up>>

\* The INSERT fails if the user has a row, and so for everyone who has left.
AddPlayer(r) ==
  LET p == call[r].row
  IN  /\ At(r, "add")
      /\ IF player[p] # "none"
         THEN UNCHANGED player /\ Goto(r, "unlock")
         ELSE /\ player' = [player EXCEPT ![p] = call[r].to]
              /\ Goto(r, IF call[r].to = "ACCEPTED" THEN "assign" ELSE "notify")
      /\ UNCHANGED <<state, terms, position, lock, astray, up, faults>>

\* JoinMatch gives the player it has inserted the position.
AssignPosition(r) ==
  /\ At(r, "assign") /\ call[r].op = "join"
  /\ UpdatePlayerStatus(call[r].row, "ACCEPTED", call[r].pos)
  /\ Goto(r, "recount")
  /\ UNCHANGED <<state, terms, lock, astray, up, faults>>

\* Whoever has seated a player counts again, and goes on with "done" when the
\* match is not full.  A failed count is taken for zero.
Recount(r, o, done) ==
  /\ At(r, "recount") /\ call[r].op = o
  /\ \/ NoSeatLeft(r) /\ Goto(r, "full") /\ UNCHANGED faults
     \/ ~NoSeatLeft(r) /\ Goto(r, done) /\ UNCHANGED faults
     \/ Goto(r, done) /\ Fault
  /\ UNCHANGED <<tables, up>>

RecountJoined(r) == Recount(r, "join", "unlock")

\* The UPDATE does not look at the status the match has by now.
MarkFull(r) ==
  /\ At(r, "full")
  /\ \/ UpdateStatus(call[r].match, "FULL") /\ UNCHANGED faults
     \/ Fault /\ UNCHANGED state
  /\ Goto(r, "notify")
  /\ UNCHANGED <<terms, player, position, lock, astray, up>>

ReleaseMatchPlayerLock(r) ==
  /\ At(r, "unlock")
  /\ lock' = [lock EXCEPT ![call[r].row] = FALSE]
  /\ Return(r)
  /\ UNCHANGED <<state, terms, player, position, astray, up, faults>>

\* notifyMatchSubscribers and notifyUser call themselves: the stack overflows,
\* which no recover catches, and the process dies with all its calls.  Locks
\* stay until their time is over.
Notify(r) ==
  LET s == ServerOf[r]
  IN  /\ At(r, "notify")
      /\ up' = [up EXCEPT ![s] = FALSE]
      /\ call' = [q \in Request |-> IF ServerOf[q] = s THEN IdleCall ELSE call[q]]
      /\ UNCHANGED <<tables, faults>>

Restart(s) ==
  /\ ~up[s]
  /\ up' = [up EXCEPT ![s] = TRUE]
  /\ UNCHANGED <<tables, call, faults>>

\* Mutant of LockExpires: the lock is set without a TTL.
LockStays(p) == lock[p] /\ UNCHANGED vars

\* The lock's 60 seconds are more than any call may take.
LockExpires(p) ==
  /\ lock[p]
  /\ \A r \in Request :
       call[r].op = "join" /\ call[r].row = p => call[r].pc \in {"find", "lock"}
  /\ lock' = [lock EXCEPT ![p] = FALSE]
  /\ UNCHANGED <<state, terms, player, position, astray, call, up, faults>>

-----------------------------------------------------------------------------
(* LeaveMatch, RespondToJoinRequest, UpdateMatch, CancelMatch *)

LeaveMatch(r, m, u) ==
  /\ FindPlayer(<<m, u>>) \notin {"none", "LEFT"}
  /\ Begin(r, "leave", m, [IdleCall EXCEPT !.pc = "leave", !.row = <<m, u>>])
  /\ UNCHANGED <<tables, up, faults>>

MarkLeft(r) ==
  /\ At(r, "leave")
  /\ UpdatePlayerStatus(call[r].row, "LEFT", 0)
  /\ Goto(r, "find")
  /\ UNCHANGED <<state, terms, lock, astray, up, faults>>

\* FindByID after the update; its error is ignored.
CheckFull(r) ==
  /\ At(r, "find") /\ call[r].op = "leave"
  /\ \/ Goto(r, IF state[call[r].match] = "FULL" THEN "reopen" ELSE "notify") /\ UNCHANGED faults
     \/ Goto(r, "notify") /\ Fault
  /\ UNCHANGED <<tables, up>>

Reopen(r) ==
  /\ At(r, "reopen")
  /\ \/ UpdateStatus(call[r].match, "OPEN") /\ UNCHANGED faults
     \/ Fault /\ UNCHANGED state
  /\ Goto(r, "notify")
  /\ UNCHANGED <<terms, player, position, lock, astray, up>>

\* The answer of the host of match m to row p; neither the status of the match
\* nor, where p is found by its id, the match of the row is looked at.
RespondToJoinRequest(r, m, p, answer) ==
  /\ Begin(r, "respond", m, [IdleCall EXCEPT !.pc = "find", !.row = p, !.to = answer])
  /\ UNCHANGED <<tables, up, faults>>

\* Mutant of CheckPending: the player is found, whatever the status.
CheckFound(r) ==
  /\ At(r, "find") /\ call[r].op = "respond"
  /\ IF FindPlayerByID(call[r].row) = "none"
     THEN Return(r)
     ELSE Goto(r, IF call[r].to = "ACCEPTED" THEN "count" ELSE "assign")
  /\ UNCHANGED <<tables, up, faults>>

CheckPending(r) ==
  /\ At(r, "find") /\ call[r].op = "respond"
  /\ IF FindPlayerByID(call[r].row) # "PENDING"
     THEN Return(r)
     ELSE Goto(r, IF call[r].to = "ACCEPTED" THEN "count" ELSE "assign")
  /\ UNCHANGED <<tables, up, faults>>

\* The count and the new status of an accepted request; no lock is held.  Count,
\* slots and price are those of the URL's match.
CountForAnswer(r) ==
  /\ At(r, "count") /\ call[r].op = "respond"
  /\ IF NoSeatLeft(r)
     THEN Return(r)
     ELSE IF call[r].seen.priced
     THEN Becomes(r, [call[r] EXCEPT !.pc = "assign", !.to = "PENDING_PAYMENT"])
     ELSE Goto(r, "position")
  /\ UNCHANGED <<tables, up, faults>>

WriteAnswer(r) ==
  LET p == call[r].row
  IN  /\ At(r, "assign") /\ call[r].op = "respond"
      /\ UpdatePlayerStatus(p, call[r].to, call[r].pos)
      /\ Goto(r, IF call[r].to = "ACCEPTED" THEN "recount" ELSE "notify")
      /\ astray' = IF call[r].to = "ACCEPTED" /\ p[1] # call[r].match
                   THEN astray \cup {p} ELSE astray
      /\ UNCHANGED <<state, terms, lock, up, faults>>

\* The player is told the answer in any case.
RecountAnswered(r) == Recount(r, "respond", "notify")

\* The columns given are set in one UPDATE.
Update(m, t, st) ==
  /\ terms' = [terms EXCEPT ![m] = t]
  /\ state' = [state EXCEPT ![m] = st]

\* The host sets any column, whoever is playing; those not given stay.
UpdateMatch(m, t, st) ==
  /\ "update" \in Ops[m]
  /\ Update(m, t, st)
  /\ UNCHANGED <<player, position, lock, astray, call, up, faults>>

CancelMatch(r, m) ==
  /\ state[m] # "CANCELLED"
  /\ Begin(r, "cancel", m, [IdleCall EXCEPT !.pc = "cancel"])
  /\ UNCHANGED <<tables, up, faults>>

MarkCancelled(r) ==
  /\ At(r, "cancel")
  /\ UpdateStatus(call[r].match, "CANCELLED")
  /\ Goto(r, "notify")
  /\ UNCHANGED <<terms, player, position, lock, astray, up, faults>>

\* A round trip whose error ends the call: JoinMatch unlocks on its way out,
\* if it still can.
Fails(r) ==
  /\ \/ call[r].pc \in {"lock", "count", "add", "assign", "unlock", "leave", "cancel"}
     \/ At(r, "find") /\ call[r].op # "leave"
  /\ Fault
  /\ \/ Return(r)
     \/ call[r].op = "join" /\ call[r].pc \in {"count", "add", "assign"} /\ Goto(r, "unlock")
  /\ UNCHANGED <<tables, up>>

-----------------------------------------------------------------------------

Step(r) ==
  \/ CheckPlayer(r) \/ AcquireMatchPlayerLock(r) \/ CountSeats(r) \/ GetNextPosition(r)
  \/ AddPlayer(r) \/ AssignPosition(r) \/ RecountJoined(r) \/ MarkFull(r)
  \/ ReleaseMatchPlayerLock(r) \/ Notify(r)
  \/ MarkLeft(r) \/ CheckFull(r) \/ Reopen(r) \/ CheckPending(r) \/ CountForAnswer(r)
  \/ WriteAnswer(r) \/ RecountAnswered(r) \/ MarkCancelled(r)

Next ==
  \/ \E r \in Request :
       \/ \E m \in Match :
            \/ \E u \in User : JoinMatch(r, m, u) \/ LeaveMatch(r, m, u)
            \/ \E p \in Row, a \in {"ACCEPTED", "REJECTED"} : RespondToJoinRequest(r, m, p, a)
            \/ CancelMatch(r, m)
       \/ Step(r) \/ Fails(r)
  \/ \E m \in Match, t \in Terms : \E st \in HostSets \cup {state[m]} : UpdateMatch(m, t, st)
  \/ \E p \in Row : LockExpires(p)
  \/ \E s \in Server : Restart(s)

Spec == Init /\ [][Next]_vars

\* The calls go on, locks lapse, and a dead server is started again.
Fairness ==
  /\ \A r \in Request : WF_vars(Step(r))
  /\ \A p \in Row : WF_vars(LockExpires(p))
  /\ \A s \in Server : WF_vars(Restart(s))

FairSpec == Spec /\ Fairness

-----------------------------------------------------------------------------
(* Properties *)

\* However many calls count the seats of a match at the same time, each of them
\* adds at most one player that another one's count has missed: joins and
\* answers overrun the slots by less than the number of calls.  Outside the
\* claim are the rows that an answer given in another match has accepted: those
\* are counted against the seats of the other match, and no bound holds for them.
OverrunIsBounded ==
  \A m \in Match :
    Cardinality(Accepted(m) \ astray) < terms[m].slots + Cardinality(Request)

\* The player has left or was refused, and no call is on its way that found the
\* request pending, or inserted the row, before.
Settled(p) ==
  /\ player[p] \in {"LEFT", "REJECTED"}
  /\ \A r \in Request : call[r].row = p =>
       /\ call[r].op = "respond" => call[r].pc \notin {"count", "position", "assign"}
       /\ call[r].op = "join" => call[r].pc # "assign"

\* Only a call that overlaps it can undo a refusal or a leaving: afterwards
\* neither a join nor an answer, in this match or in another, brings the player
\* back.
RefusalIsFinal == [][\A p \in Row : Settled(p) => Settled(p)']_vars

\* A user is not kept from joining for ever by a call that died.
LocksLapse == \A p \in Row : lock[p] ~> ~lock[p]

\* A pending request is answered by the host of its match: the call that
\* accepts or rejects it is one of that user's.
HostAnswers ==
  [][\A p \in Row :
       player[p] = "PENDING" /\ player'[p] \in {"ACCEPTED", "PENDING_PAYMENT", "REJECTED"}
         => \E r \in Request : /\ call[r].op = "respond" /\ call[r].pc = "assign"
                               /\ call[r].row = p /\ call'[r] # call[r]
                               /\ HostOf[call[r].match] = HostOf[p[1]]]_vars

=============================================================================
