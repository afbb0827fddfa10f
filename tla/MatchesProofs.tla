--------------------------- MODULE MatchesProofs ---------------------------
(***************************************************************************)
(* The rows, the refusals and the overrun of the matches, for any numbers  *)
(* of matches, users, calls, servers and failures.                         *)
(***************************************************************************)
EXTENDS Matches, FiniteSetTheorems, WellFoundedInduction, TLAPS

-----------------------------------------------------------------------------
(* The maximum of the positions *)

\* A set of numbers that is not empty has a least element.
LEMMA LeastNumber ==
  ASSUME NEW T, T \subseteq Nat, T # {}
  PROVE  \E x \in T : \A y \in T : x <= y
<1>1. \E x \in T : \A y \in T : ~ (<<y, x>> \in OpToRel(<, Nat))
  BY NatLessThanWellFounded, WFMin
<1>2. PICK x \in T : \A y \in T : ~ (<<y, x>> \in OpToRel(<, Nat))
  BY <1>1
<1>3. ASSUME NEW y \in T, y < x PROVE FALSE
  BY <1>2, <1>3 DEF OpToRel
<1> QED
  BY <1>3

\* A finite set of numbers has an upper bound: the first k members of an
\* enumeration have one for every k.
LEMMA FiniteIsBounded ==
  ASSUME NEW S \in SUBSET Nat, IsFiniteSet(S)
  PROVE  \E m \in Nat : \A x \in S : x <= m
<1>1. PICK n \in Nat : ExistsSurjection(1 .. n, S)
  BY FS_NatSurjection
<1>2. PICK f : f \in [1 .. n -> S] /\ \A x \in S : \E i \in 1 .. n : f[i] = x
  BY <1>1 DEF ExistsSurjection, Surjection
<1> DEFINE B == {k \in 0 .. n : \E m \in Nat : \A i \in 1 .. k : f[i] <= m}
           T == 0 .. n \ B
<1>3. T = {}
  <2> SUFFICES ASSUME T # {} PROVE FALSE
    OBVIOUS
  <2>0. T \subseteq Nat
    OBVIOUS
  <2>1. PICK k \in T : \A y \in T : k <= y
    <3> HIDE DEF T
    <3> QED
      BY <2>0, LeastNumber
  <2>2. k \in 0 .. n /\ k # 0
    <3>1. \A i \in 1 .. 0 : f[i] <= 0
      OBVIOUS
    <3> QED
      BY <3>1, <2>1
  <2>3. k \in 1 .. n /\ k - 1 \in 0 .. n
    BY <2>2
  <2>4. k - 1 \in B
    <3>1. k - 1 \notin T
      <4> HIDE DEF T
      <4> QED
        BY <2>1, <2>3
    <3> QED
      BY <3>1, <2>3
  <2>5. PICK m \in Nat : \A i \in 1 .. (k - 1) : f[i] <= m
    BY <2>4
  <2>6. ASSUME NEW i \in 1 .. k PROVE f[i] \in Nat
    <3>1. i \in 1 .. n
      BY <2>3
    <3>2. f[i] \in S
      BY <1>2, <3>1
    <3> QED
      BY <3>2
  <2>7. f[k] \in Nat
    BY <2>3, <2>6
  <2>8. ASSUME NEW i \in 1 .. k PROVE f[i] <= m + f[k]
    <3>1. f[i] \in Nat
      BY <2>6
    <3>2. i = k \/ i \in 1 .. (k - 1)
      BY <2>3
    <3> QED
      BY <3>1, <3>2, <2>5, <2>7
  <2>9. k \in B
    BY <2>2, <2>7, <2>8
  <2> QED
    BY <2>1, <2>9
<1>4. n \in B
  BY <1>3
<1> QED
  BY <1>2, <1>4

\* The largest element of a finite set of numbers is one of them.
LEMMA MaxIsNatural ==
  ASSUME NEW S \in SUBSET Nat, IsFiniteSet(S), S # {}
  PROVE  Max(S) \in Nat
<1> DEFINE U == {m \in Nat : \A x \in S : x <= m}
<1>1. U # {}
  BY FiniteIsBounded
<1>2. PICK u \in U : \A y \in U : u <= y
  BY <1>1, LeastNumber
<1>3. u \in S
  <2> SUFFICES ASSUME u \notin S PROVE FALSE
    OBVIOUS
  <2>1. \A x \in S : x \in Nat /\ x <= u /\ x # u
    BY <1>2
  <2>2. u # 0 /\ u - 1 \in Nat
    <3>1. PICK x \in S : TRUE
      OBVIOUS
    <3> QED
      BY <2>1, <3>1, <1>2
  <2>3. u - 1 \in U
    BY <2>1, <2>2, <1>2
  <2> QED
    BY <2>2, <2>3, <1>2
<1>4. \A x \in S : u >= x
  BY <1>2
<1>5. Max(S) \in S
  BY <1>3, <1>4 DEF Max
<1> QED
  BY <1>5

-----------------------------------------------------------------------------
(* Types *)

\* The position a player is given is a number.
LEMMA PositionIsNatural ==
  ASSUME TypeOK, NEW m PROVE NextPosition(m) \in Nat
<1> DEFINE P == {position[p] : p \in Accepted(m)}
<1>1. IsFiniteSet(Accepted(m))
  <2>1. IsFiniteSet(Row)
    BY MatchAssumption, FS_Product DEF Row
  <2> QED
    BY <2>1, FS_Subset DEF Accepted
<1>2. P \in SUBSET Nat
  BY DEF TypeOK, Accepted
<1>3. IsFiniteSet(P)
  <2> DEFINE f == [p \in Accepted(m) |-> position[p]]
  <2>1. f \in Surjection(Accepted(m), P)
    BY DEF Surjection
  <2> QED
    BY <1>1, <2>1, FS_Surjection
<1>4. CASE Accepted(m) = {}
  BY <1>4 DEF NextPosition
<1>5. CASE Accepted(m) # {}
  <2>1. P # {}
    BY <1>5
  <2>2. Max(P) \in Nat
    <3> HIDE DEF P
    <3> QED
      BY <1>2, <1>3, <2>1, MaxIsNatural
  <2> QED
    BY <1>5, <2>2 DEF NextPosition
<1> QED
  BY <1>4, <1>5

\* A failed round trip.
LEMMA FaultType ==
  ASSUME TypeOK, Fault \/ UNCHANGED faults PROVE faults' \in 0 .. MaxFaults
BY MatchAssumption DEF TypeOK, Fault

\* The row of a player after an UPDATE.
LEMMA RowType ==
  ASSUME TypeOK, NEW p, NEW st \in PlayerStatus, NEW pos \in Nat,
         UpdatePlayerStatus(p, st, pos)
  PROVE  player' \in [Row -> PlayerStatus] /\ position' \in [Row -> Nat]
BY DEF TypeOK, UpdatePlayerStatus

-----------------------------------------------------------------------------
(* The calls *)

TablesOK ==
  /\ state \in [Match -> MatchStatus]
  /\ terms \in [Match -> Terms]
  /\ player \in [Row -> PlayerStatus]
  /\ position \in [Row -> Nat]
  /\ lock \in [Row -> BOOLEAN]
  /\ up \in [Server -> BOOLEAN]
  /\ faults \in 0 .. MaxFaults
  /\ astray \subseteq Row

\* What a call holds where it stands: only a join inserts a row, and it is one
\* of the match of its URL; only joins and answers count and take a position,
\* which is for a seat.
CallOK(c) ==
  /\ c.op \in Operation => c.match \in Match /\ c.seen \in Terms
  /\ c.op \in {"join", "respond"} => c.row \in Row
  /\ c.op = "join" => c.row[1] = c.match
  /\ c.pc \in {"lock", "add"} => c.op = "join"
  /\ c.pc = "add" => c.to \in {"PENDING", "ACCEPTED"}
  /\ c.pc \in {"count", "position"} => c.op \in {"join", "respond"} /\ c.to = "ACCEPTED"
  /\ c.pc = "assign" => /\ c.op \in {"join", "respond"}
                        /\ c.op = "join" => c.to = "ACCEPTED"

MatchInv ==
  /\ TablesOK
  /\ call \in [Request -> Call]
  /\ \A r \in Request : CallOK(call[r])

LEMMA InvIsTyped == MatchInv => TypeOK
BY DEF MatchInv, TablesOK, TypeOK

LEMMA IdleIsCall == IdleCall \in Call /\ CallOK(IdleCall)
BY MatchAssumption DEF IdleCall, Call, CallOK, Label, Operation, PlayerStatus

LEMMA Initially == Init => MatchInv
<1>1. Init => TablesOK
  BY MatchAssumption DEF Init, CreateAndFetch, TablesOK, MatchStatus, PlayerStatus
<1>2. Init => \A r \in Request : call[r] = IdleCall
  BY DEF Init
<1> QED
  BY <1>1, <1>2, IdleIsCall DEF MatchInv, Init

\* The call of request r becomes another one that may be.
CallMoves(r) == \E c \in Call : Becomes(r, c) /\ CallOK(c)

\* A step of one call.
LEMMA StepKeeps ==
  ASSUME MatchInv, NEW r \in Request, CallMoves(r), TablesOK'
  PROVE  MatchInv'
<1>1. PICK c \in Call : call' = [call EXCEPT ![r] = c] /\ CallOK(c)
  BY DEF CallMoves, Becomes
<1>2. call' \in [Request -> Call]
  BY <1>1 DEF MatchInv
<1>3. ASSUME NEW q \in Request PROVE CallOK(call[q])'
  <2>1. call'[q] = IF q = r THEN c ELSE call[q]
    BY <1>1 DEF MatchInv
  <2> QED
    BY <1>1, <2>1 DEF MatchInv, CallOK
<1> QED
  BY <1>2, <1>3 DEF MatchInv

\* Places where nothing is asked of a call.
Plain == Label \ {"lock", "count", "position", "add", "assign"}

LEMMA PlainMoves ==
  ASSUME MatchInv, NEW r \in Request,
         Return(r) \/ \E l \in Plain : Goto(r, l)
  PROVE  CallMoves(r)
<1>1. CASE Return(r)
  BY <1>1, IdleIsCall DEF Return, CallMoves
<1>2. ASSUME NEW l \in Plain, Goto(r, l) PROVE CallMoves(r)
  <2>1. PICK c : c = [call[r] EXCEPT !.pc = l]
    OBVIOUS
  <2>2. call[r] \in Call /\ CallOK(call[r])
    BY DEF MatchInv
  <2>3. /\ c \in Call /\ c.pc = l /\ c.op = call[r].op /\ c.match = call[r].match
        /\ c.seen = call[r].seen /\ c.row = call[r].row
    BY <2>1, <2>2 DEF Call, Plain
  <2>4. CallOK(c)
    BY <2>2, <2>3 DEF CallOK, Plain
  <2> QED
    BY <1>2, <2>1, <2>3, <2>4 DEF Goto, CallMoves
<1> QED
  BY <1>1, <1>2

\* A call goes where more is asked of it, without any change of what it holds.
LEMMA GotoMoves ==
  ASSUME MatchInv, NEW r \in Request, NEW l \in Label, Goto(r, l),
         call[r].op \in {"join", "respond"},
         l \in {"lock", "add"} => call[r].op = "join",
         l \in {"count", "position"} => call[r].to = "ACCEPTED",
         l = "add" => call[r].to \in {"PENDING", "ACCEPTED"},
         l = "assign" /\ call[r].op = "join" => call[r].to = "ACCEPTED"
  PROVE  CallMoves(r)
<1>1. PICK c : c = [call[r] EXCEPT !.pc = l]
  OBVIOUS
<1>2. call[r] \in Call /\ CallOK(call[r])
  BY DEF MatchInv
<1>3. /\ c \in Call /\ c.pc = l /\ c.op = call[r].op /\ c.match = call[r].match
      /\ c.seen = call[r].seen /\ c.row = call[r].row /\ c.to = call[r].to
  BY <1>1, <1>2 DEF Call
<1>4. CallOK(c)
  BY <1>2, <1>3 DEF CallOK
<1> QED
  BY <1>1, <1>3, <1>4 DEF Goto, CallMoves

\* A call begins with the match of its URL as it is now.
LEMMA BeginMoves ==
  ASSUME MatchInv, NEW r \in Request, NEW o \in Operation, NEW m \in Match, NEW c \in Call,
         Begin(r, o, m, c), c.pc \in Plain,
         o \in {"join", "respond"} => c.row \in Row, o = "join" => c.row[1] = m
  PROVE  CallMoves(r)
<1>1. PICK d : d = [c EXCEPT !.op = o, !.match = m, !.seen = FindByID(m)]
  OBVIOUS
<1>2. FindByID(m) \in Terms
  BY DEF FindByID, MatchInv, TablesOK
<1>3. d \in Call /\ d.op = o /\ d.match = m /\ d.seen \in Terms /\ d.pc = c.pc /\ d.row = c.row
  BY <1>1, <1>2 DEF Call
<1>4. CallOK(d)
  BY <1>3 DEF CallOK, Plain
<1> QED
  BY <1>1, <1>3, <1>4 DEF Begin, CallMoves

\* Steps that only move a call.
LEMMA QuietKeeps ==
  ASSUME MatchInv, NEW r \in Request, CallMoves(r), UNCHANGED <<tables, up>>,
         Fault \/ UNCHANGED faults
  PROVE  MatchInv'
<1>1. faults' \in 0 .. MaxFaults
  BY InvIsTyped, FaultType
<1> QED
  BY <1>1, StepKeeps DEF MatchInv, TablesOK, tables

-----------------------------------------------------------------------------
(* The steps *)

\* Calls begin.
LEMMA BeginsKeep ==
  ASSUME MatchInv, NEW r \in Request, NEW m \in Match,
         \/ \E u \in User : JoinMatch(r, m, u) \/ LeaveMatch(r, m, u)
         \/ \E p \in Row, a \in {"ACCEPTED", "REJECTED"} : RespondToJoinRequest(r, m, p, a)
         \/ CancelMatch(r, m)
  PROVE  MatchInv'
<1>0. IdleCall \in Call
  BY IdleIsCall
<1>1. ASSUME NEW u \in User, JoinMatch(r, m, u) PROVE MatchInv'
  <2>1. PICK c : c = [IdleCall EXCEPT !.pc = "find", !.row = <<m, u>>]
    OBVIOUS
  <2>2. <<m, u>> \in Row /\ <<m, u>>[1] = m
    BY DEF Row
  <2>3. c \in Call /\ c.pc = "find" /\ c.row = <<m, u>>
    BY <1>0, <2>1, <2>2 DEF Call, IdleCall, Label
  <2>4. Begin(r, "join", m, c) /\ UNCHANGED <<tables, up, faults>>
    BY <1>1, <2>1 DEF JoinMatch
  <2>5. CallMoves(r)
    BY <2>2, <2>3, <2>4, BeginMoves DEF Operation, Plain, Label
  <2> QED
    BY <2>4, <2>5, QuietKeeps
<1>2. ASSUME NEW u \in User, LeaveMatch(r, m, u) PROVE MatchInv'
  <2>1. PICK c : c = [IdleCall EXCEPT !.pc = "leave", !.row = <<m, u>>]
    OBVIOUS
  <2>2. <<m, u>> \in Row
    BY DEF Row
  <2>3. c \in Call /\ c.pc = "leave"
    BY <1>0, <2>1, <2>2 DEF Call, IdleCall, Label
  <2>4. Begin(r, "leave", m, c) /\ UNCHANGED <<tables, up, faults>>
    BY <1>2, <2>1 DEF LeaveMatch
  <2> QED
    BY <2>3, <2>4, BeginMoves, QuietKeeps DEF Operation, Plain, Label
<1>3. ASSUME NEW p \in Row, NEW a \in {"ACCEPTED", "REJECTED"}, RespondToJoinRequest(r, m, p, a)
      PROVE  MatchInv'
  <2>1. PICK c : c = [IdleCall EXCEPT !.pc = "find", !.row = p, !.to = a]
    OBVIOUS
  <2>2. c \in Call /\ c.pc = "find" /\ c.row = p
    BY <1>0, <2>1 DEF Call, IdleCall, Label, PlayerStatus
  <2>3. Begin(r, "respond", m, c) /\ UNCHANGED <<tables, up, faults>>
    BY <1>3, <2>1 DEF RespondToJoinRequest
  <2> QED
    BY <2>2, <2>3, BeginMoves, QuietKeeps DEF Operation, Plain, Label
<1>4. CASE CancelMatch(r, m)
  <2>1. PICK c : c = [IdleCall EXCEPT !.pc = "cancel"]
    OBVIOUS
  <2>2. c \in Call /\ c.pc = "cancel"
    BY <1>0, <2>1 DEF Call, IdleCall, Label
  <2>3. Begin(r, "cancel", m, c) /\ UNCHANGED <<tables, up, faults>>
    BY <1>4, <2>1 DEF CancelMatch
  <2> QED
    BY <2>2, <2>3, BeginMoves, QuietKeeps DEF Operation, Plain, Label
<1> QED
  BY <1>1, <1>2, <1>3, <1>4

\* Looking a player up, counting and asking for a position change the call only.
LEMMA ReadsKeep ==
  ASSUME MatchInv, NEW r \in Request,
         \/ CheckPlayer(r) \/ CountSeats(r) \/ GetNextPosition(r)
         \/ CheckFull(r) \/ CheckPending(r) \/ CountForAnswer(r)
         \/ RecountJoined(r) \/ RecountAnswered(r) \/ Fails(r)
  PROVE  MatchInv'
<1>0. call[r] \in Call /\ CallOK(call[r])
  BY DEF MatchInv
<1>1. CASE CheckPlayer(r)
  BY <1>1, GotoMoves, PlainMoves, QuietKeeps DEF CheckPlayer, Label
<1>2. CASE CountSeats(r)
  <2>1. call[r].op = "join" /\ call[r].to = "ACCEPTED"
    BY <1>0, <1>2 DEF CountSeats, At, CallOK
  <2> QED
    BY <1>2, <2>1, GotoMoves, PlainMoves, QuietKeeps DEF CountSeats, Plain, Label
<1>3. CASE CountForAnswer(r)
  <2>1. call[r].op = "respond" /\ call[r].to = "ACCEPTED"
    BY <1>0, <1>3 DEF CountForAnswer, At, CallOK
  <2>2. ASSUME NEW c, c = [call[r] EXCEPT !.pc = "assign", !.to = "PENDING_PAYMENT"], Becomes(r, c)
        PROVE  CallMoves(r)
    <3>1. /\ c \in Call /\ c.pc = "assign" /\ c.op = "respond" /\ c.row = call[r].row
          /\ c.match = call[r].match /\ c.seen = call[r].seen
      BY <1>0, <2>1, <2>2 DEF Call, Label, PlayerStatus
    <3>2. CallOK(c)
      BY <1>0, <2>1, <3>1 DEF CallOK
    <3> QED
      BY <2>2, <3>1, <3>2 DEF CallMoves
  <2> QED
    BY <1>3, <2>1, <2>2, GotoMoves, PlainMoves, QuietKeeps DEF CountForAnswer, Label
<1>4. CASE GetNextPosition(r)
  <2>1. PICK n \in Nat : Becomes(r, [call[r] EXCEPT !.pos = n,
                           !.pc = IF call[r].op = "join" THEN "add" ELSE "assign"])
    BY <1>4, InvIsTyped, PositionIsNatural DEF GetNextPosition
  <2>2. PICK l \in {"add", "assign"} : l = IF call[r].op = "join" THEN "add" ELSE "assign"
    OBVIOUS
  <2>3. PICK c : c = [call[r] EXCEPT !.pos = n, !.pc = l]
    OBVIOUS
  <2>4. l \in Label
    BY <2>2 DEF Label
  <2>5. /\ c \in Call /\ c.op = call[r].op /\ c.to = call[r].to /\ c.row = call[r].row
        /\ c.match = call[r].match /\ c.seen = call[r].seen /\ c.pc = l
    BY <1>0, <2>3, <2>4 DEF Call
  <2>6. call[r].pc = "position"
    BY <1>4 DEF GetNextPosition, At
  <2>7. CallOK(c)
    BY <1>0, <2>2, <2>5, <2>6 DEF CallOK
  <2>8. CallMoves(r) /\ UNCHANGED <<tables, up>> /\ (Fault \/ UNCHANGED faults)
    BY <1>4, <2>1, <2>2, <2>3, <2>5, <2>7 DEF GetNextPosition, CallMoves
  <2> QED
    BY <2>8, QuietKeeps
<1>5. CASE CheckFull(r)
  BY <1>5, PlainMoves, QuietKeeps DEF CheckFull, Plain, Label
<1>6. CASE CheckPending(r)
  BY <1>6, GotoMoves, PlainMoves, QuietKeeps DEF CheckPending, Label
<1>7. CASE RecountJoined(r) \/ RecountAnswered(r)
  BY <1>7, PlainMoves, QuietKeeps DEF RecountJoined, RecountAnswered, Recount, Plain, Label
<1>8. CASE Fails(r)
  BY <1>8, PlainMoves, QuietKeeps DEF Fails, Plain, Label
<1> QED
  BY <1>1, <1>2, <1>3, <1>4, <1>5, <1>6, <1>7, <1>8

\* The writes of a call.
LEMMA WritesKeep ==
  ASSUME MatchInv, NEW r \in Request,
         \/ AcquireMatchPlayerLock(r) \/ AddPlayer(r) \/ AssignPosition(r) \/ WriteAnswer(r)
         \/ MarkFull(r) \/ ReleaseMatchPlayerLock(r) \/ MarkLeft(r) \/ Reopen(r)
         \/ MarkCancelled(r)
  PROVE  MatchInv'
<1>0. call[r] \in Call /\ CallOK(call[r]) /\ TablesOK /\ TypeOK
  BY InvIsTyped DEF MatchInv
<1>1. CASE AcquireMatchPlayerLock(r)
  <2>1. TablesOK'
    <3>1. lock' \in [Row -> BOOLEAN]
      BY <1>0, <1>1 DEF AcquireMatchPlayerLock, TablesOK
    <3> QED
      BY <1>0, <1>1, <3>1 DEF AcquireMatchPlayerLock, TablesOK
  <2>2. ASSUME NEW c, c = IF call[r].seen.private
                          THEN [call[r] EXCEPT !.pc = "add", !.to = "PENDING"]
                          ELSE [call[r] EXCEPT !.pc = "count", !.to = "ACCEPTED"],
               Becomes(r, c)
        PROVE  CallMoves(r)
    <3>1. call[r].op = "join"
      BY <1>0, <1>1 DEF AcquireMatchPlayerLock, At, CallOK
    <3>2. PICK l, t : /\ c = [call[r] EXCEPT !.pc = l, !.to = t]
                      /\ \/ l = "add" /\ t = "PENDING"
                         \/ l = "count" /\ t = "ACCEPTED"
      BY <2>2
    <3>3. l \in Label /\ t \in PlayerStatus
      BY <3>2 DEF Label, PlayerStatus
    <3>4. /\ c \in Call /\ c.op = call[r].op /\ c.row = call[r].row
          /\ c.match = call[r].match /\ c.seen = call[r].seen
          /\ c.pc = l /\ c.to = t
      BY <1>0, <3>2, <3>3 DEF Call
    <3>5. CallOK(c)
      BY <1>0, <3>1, <3>2, <3>4 DEF CallOK
    <3> QED
      BY <2>2, <3>1, <3>2, <3>4, <3>5 DEF CallMoves
  <2> QED
    BY <1>1, <2>1, <2>2, PlainMoves, StepKeeps DEF AcquireMatchPlayerLock
<1>2. CASE AddPlayer(r)
  <2>1. call[r].op = "join" /\ call[r].to \in {"PENDING", "ACCEPTED"}
    BY <1>0, <1>2 DEF AddPlayer, At, CallOK
  <2>2. TablesOK'
    <3>1. player' \in [Row -> PlayerStatus]
      BY <1>0, <1>2, <2>1 DEF AddPlayer, TablesOK, PlayerStatus
    <3> QED
      BY <1>0, <1>2, <3>1 DEF AddPlayer, TablesOK
  <2>3. CallMoves(r)
    BY <1>2, <2>1, GotoMoves, PlainMoves DEF AddPlayer, Plain, Label
  <2> QED
    BY <2>2, <2>3, StepKeeps
<1>3. CASE AssignPosition(r)
  <2>1. player' \in [Row -> PlayerStatus] /\ position' \in [Row -> Nat]
    BY <1>0, <1>3, RowType DEF AssignPosition, Call, PlayerStatus
  <2>2. TablesOK'
    BY <1>0, <1>3, <2>1 DEF AssignPosition, TablesOK
  <2> QED
    BY <1>3, <2>2, PlainMoves, StepKeeps DEF AssignPosition, Plain, Label
<1>4. CASE WriteAnswer(r)
  <2>1. player' \in [Row -> PlayerStatus] /\ position' \in [Row -> Nat]
    BY <1>0, <1>4, RowType DEF WriteAnswer, Call
  <2>2. astray' \subseteq Row
    BY <1>0, <1>4 DEF WriteAnswer, CallOK, TablesOK
  <2>3. TablesOK'
    BY <1>0, <1>4, <2>1, <2>2 DEF WriteAnswer, TablesOK
  <2> QED
    BY <1>4, <2>3, PlainMoves, StepKeeps DEF WriteAnswer, Plain, Label
<1>5. CASE MarkFull(r) \/ Reopen(r) \/ MarkCancelled(r)
  <2>1. faults' \in 0 .. MaxFaults
    BY <1>0, <1>5, FaultType DEF MarkFull, Reopen, MarkCancelled
  <2>2. state' \in [Match -> MatchStatus]
    BY <1>0, <1>5 DEF MarkFull, Reopen, MarkCancelled, UpdateStatus, TablesOK, MatchStatus
  <2>3. TablesOK'
    BY <1>0, <1>5, <2>1, <2>2 DEF MarkFull, Reopen, MarkCancelled, TablesOK
  <2> QED
    BY <1>5, <2>3, PlainMoves, StepKeeps DEF MarkFull, Reopen, MarkCancelled, Plain, Label
<1>6. CASE ReleaseMatchPlayerLock(r)
  <2>1. TablesOK'
    BY <1>0, <1>6 DEF ReleaseMatchPlayerLock, TablesOK
  <2> QED
    BY <1>6, <2>1, PlainMoves, StepKeeps DEF ReleaseMatchPlayerLock
<1>7. CASE MarkLeft(r)
  <2>1. player' \in [Row -> PlayerStatus] /\ position' \in [Row -> Nat]
    BY <1>0, <1>7, RowType DEF MarkLeft, PlayerStatus
  <2>2. TablesOK'
    BY <1>0, <1>7, <2>1 DEF MarkLeft, TablesOK
  <2> QED
    BY <1>7, <2>2, PlainMoves, StepKeeps DEF MarkLeft, Plain, Label
<1> QED
  BY <1>1, <1>2, <1>3, <1>4, <1>5, <1>6, <1>7

\* A server dies with all its calls, and comes back; locks lapse; a host
\* changes the match.
LEMMA OthersKeep ==
  ASSUME MatchInv,
         \/ \E r \in Request : Notify(r)
         \/ \E s \in Server : Restart(s)
         \/ \E p \in Row : LockExpires(p)
         \/ \E m \in Match, t \in Terms : \E st \in HostSets \cup {state[m]} : UpdateMatch(m, t, st)
  PROVE  MatchInv'
<1>0. TablesOK
  BY DEF MatchInv
<1>1. ASSUME NEW r \in Request, Notify(r) PROVE MatchInv'
  <2>1. TablesOK'
    <3>1. up' \in [Server -> BOOLEAN]
      BY <1>0, <1>1 DEF Notify, TablesOK
    <3> QED
      BY <1>0, <1>1, <3>1 DEF Notify, TablesOK, tables
  <2>2. call' \in [Request -> Call]
    BY <1>1, IdleIsCall DEF Notify, MatchInv
  <2>3. ASSUME NEW q \in Request PROVE CallOK(call[q])'
    <3>1. call'[q] \in {IdleCall, call[q]}
      BY <1>1 DEF Notify
    <3>2. CallOK(call[q])
      BY DEF MatchInv
    <3> QED
      BY <3>1, <3>2, IdleIsCall DEF CallOK
  <2> QED
    BY <2>1, <2>2, <2>3 DEF MatchInv
<1>2. ASSUME UNCHANGED call, TablesOK' PROVE MatchInv'
  BY <1>2 DEF MatchInv, CallOK
<1>3. ASSUME NEW s \in Server, Restart(s) PROVE MatchInv'
  BY <1>0, <1>2, <1>3 DEF Restart, TablesOK, tables
<1>4. ASSUME NEW p \in Row, LockExpires(p) PROVE MatchInv'
  BY <1>0, <1>2, <1>4 DEF LockExpires, TablesOK
<1>5. ASSUME NEW m \in Match, NEW t \in Terms, NEW st \in HostSets \cup {state[m]}, UpdateMatch(m, t, st)
      PROVE  MatchInv'
  <2>1. state' \in [Match -> MatchStatus] /\ terms' \in [Match -> Terms]
    BY <1>0, <1>5, MatchAssumption DEF UpdateMatch, Update, TablesOK, MatchStatus
  <2> QED
    BY <1>0, <1>2, <1>5, <2>1 DEF UpdateMatch, TablesOK
<1> QED
  BY <1>1, <1>3, <1>4, <1>5

LEMMA NextKeeps == MatchInv /\ [Next]_vars => MatchInv'
<1> SUFFICES ASSUME MatchInv, [Next]_vars PROVE MatchInv'
  OBVIOUS
<1>1. CASE UNCHANGED vars
  BY <1>1 DEF vars, tables, MatchInv, TablesOK, CallOK
<1>2. ASSUME NEW r \in Request, Step(r) PROVE MatchInv'
  BY <1>2, ReadsKeep, WritesKeep, OthersKeep DEF Step
<1>3. CASE Next
  BY <1>2, <1>3, BeginsKeep, ReadsKeep, OthersKeep DEF Next
<1> QED
  BY <1>1, <1>3

THEOREM MatchInvariance == Spec => []MatchInv
BY Initially, NextKeeps, PTL DEF Spec

\* The matches, their rows and their locks have their types, and so has what
\* every call is about to write.
THEOREM TypeCorrect == Spec => []TypeOK
BY MatchInvariance, InvIsTyped, PTL

-----------------------------------------------------------------------------
(* What a step may do to a call *)

\* Call r becomes c: it stays, it goes where it neither counts nor writes, or it
\* takes one of the steps that lead to a write, and still is about the same
\* player and match then.
Proceeds(r, c) ==
  /\ c.op = call[r].op /\ c.row = call[r].row /\ c.match = call[r].match
  /\ \/ /\ c.pc = "count"
        /\ call[r].op = "respond" => FindPlayerByID(call[r].row) = "PENDING"
     \/ c.pc = "add" /\ c.to = "PENDING" /\ c.op = "join"
     \/ /\ At(r, "find") /\ c.pc = "assign" /\ c.to # "ACCEPTED" /\ c.op = "respond"
        /\ FindPlayerByID(call[r].row) = "PENDING"
     \/ At(r, "count") /\ c.pc = "assign" /\ c.to # "ACCEPTED" /\ c.op = "respond"
     \/ /\ At(r, "count") /\ c.pc = "position" /\ ~NoSeatLeft(r)
        /\ CountSeats(r) \/ CountForAnswer(r)
     \/ /\ At(r, "position") /\ c.to = call[r].to
        /\ c.pc = IF c.op = "join" THEN "add" ELSE "assign"
     \/ /\ At(r, "add") /\ c.pc = "assign" /\ c.to = call[r].to /\ c.op = "join"
        /\ player[call[r].row] = "none"

Moves(r, c) ==
  \/ c = call[r]
  \/ c.pc \notin {"count", "position", "add", "assign"}
  \/ Proceeds(r, c)

LEMMA OneMoves ==
  ASSUME MatchInv, NEW r \in Request, \E c : Becomes(r, c) /\ Moves(r, c)
  PROVE  \A q \in Request : Moves(q, call'[q])
<1>1. PICK c : call' = [call EXCEPT ![r] = c] /\ Moves(r, c)
  BY DEF Becomes
<1>2. ASSUME NEW q \in Request, q # r PROVE call'[q] = call[q]
  BY <1>1, <1>2 DEF MatchInv
<1>3. call'[r] = c
  BY <1>1 DEF MatchInv
<1> QED
  BY <1>1, <1>2, <1>3 DEF Moves

Aside == Label \ {"count", "position", "add", "assign"}

LEMMA AsideMoves ==
  ASSUME MatchInv, NEW r \in Request,
         Return(r) \/ \E l \in Aside : Goto(r, l)
  PROVE  \A q \in Request : Moves(q, call'[q])
<1>1. CASE Return(r)
  <2>1. Moves(r, IdleCall)
    BY DEF Moves, IdleCall
  <2> QED
    BY <1>1, <2>1, OneMoves DEF Return
<1>2. ASSUME NEW l \in Aside, Goto(r, l) PROVE \A q \in Request : Moves(q, call'[q])
  <2>1. PICK c : c = [call[r] EXCEPT !.pc = l]
    OBVIOUS
  <2>2. c.pc = l
    BY <2>1 DEF MatchInv, Call
  <2>3. Moves(r, c)
    BY <2>2 DEF Moves, Aside
  <2> QED
    BY <1>2, <2>1, <2>3, OneMoves DEF Goto
<1> QED
  BY <1>1, <1>2

\* A call that goes on with what it holds.
LEMMA OnwardMoves ==
  ASSUME MatchInv, NEW r \in Request, NEW l, Goto(r, l),
         \A c : /\ c.op = call[r].op /\ c.row = call[r].row /\ c.match = call[r].match
                /\ c.to = call[r].to /\ c.pc = l
                => Proceeds(r, c)
  PROVE  \A q \in Request : Moves(q, call'[q])
<1>1. PICK c : c = [call[r] EXCEPT !.pc = l]
  OBVIOUS
<1>2. /\ c.op = call[r].op /\ c.row = call[r].row /\ c.match = call[r].match
      /\ c.to = call[r].to /\ c.pc = l
  BY <1>1 DEF MatchInv, Call
<1>3. Moves(r, c)
  BY <1>2 DEF Moves
<1> QED
  BY <1>1, <1>3, OneMoves DEF Goto

LEMMA BegunMoves ==
  ASSUME MatchInv, NEW r \in Request, NEW o, NEW m, NEW c \in Call, Begin(r, o, m, c),
         c.pc \in Aside
  PROVE  \A q \in Request : Moves(q, call'[q])
<1>1. PICK d : d = [c EXCEPT !.op = o, !.match = m, !.seen = FindByID(m)]
  OBVIOUS
<1>2. d.pc = c.pc
  BY <1>1 DEF Call
<1>3. Moves(r, d)
  BY <1>2 DEF Moves, Aside
<1> QED
  BY <1>1, <1>3, OneMoves DEF Begin

\* The steps of a running call.
LEMMA StepMoves ==
  ASSUME MatchInv, NEW r \in Request, Step(r) \/ Fails(r)
  PROVE  \A q \in Request : Moves(q, call'[q])
<1>0. call[r] \in Call /\ CallOK(call[r])
  BY DEF MatchInv
<1>1. CASE CheckPlayer(r) \/ MarkFull(r) \/ RecountJoined(r) \/ RecountAnswered(r)
  BY <1>1, AsideMoves DEF CheckPlayer, MarkFull, RecountJoined, RecountAnswered, Recount, Aside, Label
<1>2. CASE ReleaseMatchPlayerLock(r) \/ MarkLeft(r) \/ CheckFull(r) \/ Reopen(r) \/ MarkCancelled(r)
  BY <1>2, AsideMoves
     DEF ReleaseMatchPlayerLock, MarkLeft, CheckFull, Reopen, MarkCancelled, Aside, Label
<1>3. CASE AssignPosition(r) \/ WriteAnswer(r) \/ Fails(r)
  BY <1>3, AsideMoves DEF AssignPosition, WriteAnswer, Fails, Aside, Label
<1>4. CASE AcquireMatchPlayerLock(r)
  <2>1. PICK c : c = IF call[r].seen.private
                     THEN [call[r] EXCEPT !.pc = "add", !.to = "PENDING"]
                     ELSE [call[r] EXCEPT !.pc = "count", !.to = "ACCEPTED"]
    OBVIOUS
  <2>2. call[r].op = "join"
    BY <1>0, <1>4 DEF AcquireMatchPlayerLock, At, CallOK
  <2>3. /\ c.op = call[r].op /\ c.row = call[r].row /\ c.match = call[r].match
        /\ c.pc = "count" \/ (c.pc = "add" /\ c.to = "PENDING")
    BY <1>0, <2>1 DEF Call
  <2>4. Moves(r, c)
    BY <2>2, <2>3 DEF Moves, Proceeds
  <2> QED
    BY <1>4, <2>1, <2>4, OneMoves, AsideMoves DEF AcquireMatchPlayerLock
<1>5. CASE CountSeats(r)
  BY <1>5, AsideMoves, OnwardMoves DEF CountSeats, Proceeds, Aside, Label
<1>6. CASE GetNextPosition(r)
  <2>1. PICK n : Becomes(r, [call[r] EXCEPT !.pos = n,
                   !.pc = IF call[r].op = "join" THEN "add" ELSE "assign"])
    BY <1>6 DEF GetNextPosition
  <2>2. PICK c : c = [call[r] EXCEPT !.pos = n,
                   !.pc = IF call[r].op = "join" THEN "add" ELSE "assign"]
    OBVIOUS
  <2>3. /\ c.op = call[r].op /\ c.row = call[r].row /\ c.match = call[r].match
        /\ c.to = call[r].to /\ c.pc = IF c.op = "join" THEN "add" ELSE "assign"
    BY <1>0, <2>2 DEF Call
  <2>4. Moves(r, c)
    BY <1>6, <2>3 DEF GetNextPosition, Moves, Proceeds
  <2> QED
    BY <2>1, <2>2, <2>4, OneMoves
<1>7. CASE AddPlayer(r)
  <2>1. call[r].op = "join"
    BY <1>0, <1>7 DEF AddPlayer, At, CallOK
  <2> QED
    BY <1>7, <2>1, AsideMoves, OnwardMoves DEF AddPlayer, Proceeds, Aside, Label
<1>8. CASE CheckPending(r)
  BY <1>8, AsideMoves, OnwardMoves DEF CheckPending, Proceeds
<1>9. CASE CountForAnswer(r)
  <2>1. PICK c : c = [call[r] EXCEPT !.pc = "assign", !.to = "PENDING_PAYMENT"]
    OBVIOUS
  <2>2. /\ c.op = call[r].op /\ c.row = call[r].row /\ c.match = call[r].match
        /\ c.pc = "assign" /\ c.to = "PENDING_PAYMENT"
    BY <1>0, <2>1 DEF Call
  <2>3. Moves(r, c)
    BY <1>9, <2>2 DEF CountForAnswer, Moves, Proceeds
  <2>4. CASE Becomes(r, c)
    BY <2>3, <2>4, OneMoves
  <2>5. CASE Goto(r, "position") /\ ~NoSeatLeft(r)
    BY <1>9, <2>5, OnwardMoves DEF CountForAnswer, Proceeds
  <2> QED
    BY <1>9, <2>1, <2>4, <2>5, AsideMoves DEF CountForAnswer
<1>10. CASE Notify(r)
  BY <1>10 DEF Notify, Moves, IdleCall
<1> QED
  BY <1>1, <1>2, <1>3, <1>4, <1>5, <1>6, <1>7, <1>8, <1>9, <1>10 DEF Step

LEMMA CallsMove ==
  ASSUME MatchInv, [Next]_vars PROVE \A q \in Request : Moves(q, call'[q])
<1>1. CASE UNCHANGED call
  BY <1>1 DEF Moves
<1>2. ASSUME NEW r \in Request, NEW m \in Match, NEW u \in User,
             JoinMatch(r, m, u) \/ LeaveMatch(r, m, u)
      PROVE  \A q \in Request : Moves(q, call'[q])
  <2>1. PICK c : c = [IdleCall EXCEPT !.pc = IF JoinMatch(r, m, u) THEN "find" ELSE "leave",
                                      !.row = <<m, u>>]
    OBVIOUS
  <2>2. c \in Call /\ c.pc \in {"find", "leave"}
    BY <2>1, IdleIsCall DEF Call, IdleCall, Label, Row
  <2>3. Begin(r, "join", m, c) \/ Begin(r, "leave", m, c)
    BY <1>2, <2>1 DEF JoinMatch, LeaveMatch
  <2> QED
    BY <2>2, <2>3, BegunMoves DEF Aside, Label
<1>3. ASSUME NEW r \in Request, NEW m \in Match, NEW p \in Row, NEW a \in {"ACCEPTED", "REJECTED"},
             RespondToJoinRequest(r, m, p, a)
      PROVE  \A q \in Request : Moves(q, call'[q])
  <2>1. PICK c : c = [IdleCall EXCEPT !.pc = "find", !.row = p, !.to = a]
    OBVIOUS
  <2>2. c \in Call /\ c.pc = "find"
    BY <2>1, IdleIsCall DEF Call, IdleCall, Label, PlayerStatus
  <2> QED
    BY <1>3, <2>1, <2>2, BegunMoves DEF RespondToJoinRequest, Aside, Label
<1>4. ASSUME NEW r \in Request, NEW m \in Match, CancelMatch(r, m)
      PROVE  \A q \in Request : Moves(q, call'[q])
  <2>1. PICK c : c = [IdleCall EXCEPT !.pc = "cancel"]
    OBVIOUS
  <2>2. c \in Call /\ c.pc = "cancel"
    BY <2>1, IdleIsCall DEF Call, IdleCall, Label
  <2> QED
    BY <1>4, <2>1, <2>2, BegunMoves DEF CancelMatch, Aside, Label
<1>5. ASSUME \/ \E m \in Match, t \in Terms : \E st \in HostSets \cup {state[m]} : UpdateMatch(m, t, st)
             \/ \E p \in Row : LockExpires(p)
             \/ \E s \in Server : Restart(s)
             \/ UNCHANGED vars
      PROVE  UNCHANGED call
  BY <1>5 DEF UpdateMatch, LockExpires, Restart, vars
<1> QED
  BY <1>1, <1>2, <1>3, <1>4, <1>5, StepMoves DEF Next

-----------------------------------------------------------------------------
(* What a step may do to the rows *)

\* Four steps of calls write into the rows; the others leave them, and none
\* forgets who was accepted astray.
LEMMA RowsChange ==
  ASSUME MatchInv, [Next]_vars
  PROVE  \/ UNCHANGED <<player, astray>>
         \/ \E r \in Request : AddPlayer(r) \/ AssignPosition(r) \/ WriteAnswer(r) \/ MarkLeft(r)
<1>1. ASSUME NEW r \in Request, Step(r),
             ~(AddPlayer(r) \/ AssignPosition(r) \/ WriteAnswer(r) \/ MarkLeft(r))
      PROVE  UNCHANGED <<player, astray>>
  BY <1>1
     DEF Step, CheckPlayer, AcquireMatchPlayerLock, CountSeats, GetNextPosition, RecountJoined,
         RecountAnswered, Recount, MarkFull, ReleaseMatchPlayerLock, Notify, CheckFull, Reopen,
         CheckPending, CountForAnswer, MarkCancelled, tables
<1>2. ASSUME \/ \E r \in Request, m \in Match :
                  \/ \E u \in User : JoinMatch(r, m, u) \/ LeaveMatch(r, m, u)
                  \/ \E p \in Row, a \in {"ACCEPTED", "REJECTED"} : RespondToJoinRequest(r, m, p, a)
                  \/ CancelMatch(r, m)
             \/ \E r \in Request : Fails(r)
             \/ \E m \in Match, t \in Terms : \E st \in HostSets \cup {state[m]} : UpdateMatch(m, t, st)
             \/ \E p \in Row : LockExpires(p)
             \/ \E s \in Server : Restart(s)
             \/ UNCHANGED vars
      PROVE  UNCHANGED <<player, astray>>
  BY <1>2
     DEF JoinMatch, LeaveMatch, RespondToJoinRequest, CancelMatch, Fails, UpdateMatch,
         LockExpires, Restart, vars, tables
<1> QED
  BY <1>1, <1>2 DEF Next

-----------------------------------------------------------------------------
(* Refusals *)

\* A call that is about to write a status into a row it has found pending, or
\* has inserted.
Undoes(c, p) ==
  /\ c.row = p
  /\ \/ c.op = "respond" /\ c.pc \in {"count", "position", "assign"}
     \/ c.op = "join" /\ c.pc = "assign"

LEMMA SettledBy ==
  ASSUME NEW p
  PROVE  Settled(p) <=> /\ player[p] \in {"LEFT", "REJECTED"}
                        /\ \A r \in Request : ~Undoes(call[r], p)
BY DEF Settled, Undoes

\* No call comes to undo what it finds settled.
LEMMA NobodyUndoes ==
  ASSUME MatchInv, [Next]_vars, NEW p \in Row, Settled(p), NEW q \in Request
  PROVE  ~Undoes(call'[q], p)
<1>1. Moves(q, call'[q])
  BY CallsMove
<1>2. ~Undoes(call[q], p) /\ player[p] \in {"LEFT", "REJECTED"}
  BY SettledBy
<1>3. CallOK(call[q])
  BY DEF MatchInv
<1>4. CASE Proceeds(q, call'[q])
  BY <1>2, <1>3, <1>4 DEF Proceeds, Undoes, CallOK, At, FindPlayerByID
<1> QED
  BY <1>1, <1>2, <1>4 DEF Moves, Undoes

\* A row that has left or was refused changes hands only by calls that were on
\* their way.
LEMMA SettledRowStays ==
  ASSUME MatchInv, [Next]_vars, NEW p \in Row, Settled(p)
  PROVE  player'[p] \in {"LEFT", "REJECTED"}
<1>0. player \in [Row -> PlayerStatus] /\ player[p] \in {"LEFT", "REJECTED"}
  BY SettledBy DEF MatchInv, TablesOK
<1>1. ASSUME NEW r \in Request, AddPlayer(r) PROVE player'[p] = player[p]
  BY <1>0, <1>1 DEF AddPlayer
<1>2. ASSUME NEW r \in Request, AssignPosition(r) \/ WriteAnswer(r) PROVE player'[p] = player[p]
  <2>1. call[r].row # p
    BY <1>2, SettledBy DEF AssignPosition, WriteAnswer, At, Undoes
  <2> QED
    BY <1>0, <1>2, <2>1 DEF AssignPosition, WriteAnswer, UpdatePlayerStatus
<1>3. ASSUME NEW r \in Request, MarkLeft(r) PROVE player'[p] \in {player[p], "LEFT"}
  BY <1>0, <1>3 DEF MarkLeft, UpdatePlayerStatus
<1> QED
  BY <1>0, <1>1, <1>2, <1>3, RowsChange

\* Once a player has left or was refused, and no call is left that had found the
\* request pending, nothing brings the player back, in any number of matches.
THEOREM RefusalsAreFinal == Spec => RefusalIsFinal
<1>1. MatchInv /\ [Next]_vars => [\A p \in Row : Settled(p) => Settled(p)']_vars
  <2> SUFFICES ASSUME MatchInv, [Next]_vars, NEW p \in Row, Settled(p) PROVE Settled(p)'
    OBVIOUS
  <2>1. /\ player'[p] \in {"LEFT", "REJECTED"}
        /\ \A r \in Request : ~Undoes(call'[r], p)
    BY SettledRowStays, NobodyUndoes
  <2> QED
    BY <2>1 DEF Settled, Undoes
<1> QED
  BY <1>1, MatchInvariance, PTL DEF Spec, RefusalIsFinal

-----------------------------------------------------------------------------
(* The overrun *)

\* A call that has found a seat and has not yet given it for the last time.
Claims(c) ==
  /\ c.op \in {"join", "respond"} /\ c.to = "ACCEPTED"
  /\ c.pc \in {"position", "add", "assign"}

\* The rows that calls claim seats of match m for.
Claiming(m) == {q \in Request : Claims(call[q]) /\ call[q].match = m}
Claimants(m) == {call[r].row : r \in Claiming(m)}

\* Those who sit in a match by its own count, and those who are about to.
Seated(m) == Accepted(m) \ astray
Crowd(m) == Seated(m) \cup Claimants(m)

CrowdInv == \A m \in Match : Cardinality(Crowd(m)) < terms[m].slots + Cardinality(Request)

SameSlots == \A s, t \in Terms : s.slots = t.slots

\* A new seat that the match has counted goes to a row a call claims it for.
LEMMA SeatsClaimed ==
  ASSUME MatchInv, [Next]_vars, NEW m \in Match
  PROVE  Seated(m)' \subseteq Crowd(m)
<1> SUFFICES ASSUME NEW p \in Row, p[1] = m, player'[p] = "ACCEPTED", p \notin astray',
                    player[p] = "ACCEPTED" => p \in astray
             PROVE  p \in Claimants(m)
  BY DEF Seated, Accepted, Crowd
<1>0. \A r \in Request : CallOK(call[r])
  BY DEF MatchInv
<1>1. player \in [Row -> PlayerStatus]
  BY DEF MatchInv, TablesOK
<1>2. ASSUME NEW r \in Request, Claims(call[r]), call[r].row = p, call[r].match = m
      PROVE  p \in Claimants(m)
  BY <1>2 DEF Claimants, Claiming
<1>3. CASE UNCHANGED <<player, astray>>
  BY <1>3
<1>4. ASSUME NEW r \in Request, AddPlayer(r) PROVE p \in Claimants(m)
  <2>1. call[r].row = p /\ call[r].to = "ACCEPTED"
    BY <1>1, <1>4 DEF AddPlayer
  <2>2. Claims(call[r]) /\ call[r].match = m
    BY <1>0, <1>4, <2>1 DEF AddPlayer, At, CallOK, Claims
  <2> QED
    BY <1>2, <2>1, <2>2
<1>5. ASSUME NEW r \in Request, AssignPosition(r) PROVE p \in Claimants(m)
  <2>1. call[r].row = p
    BY <1>1, <1>5 DEF AssignPosition, UpdatePlayerStatus
  <2>2. Claims(call[r]) /\ call[r].match = m
    BY <1>0, <1>5, <2>1 DEF AssignPosition, At, CallOK, Claims
  <2> QED
    BY <1>2, <2>1, <2>2
<1>6. ASSUME NEW r \in Request, WriteAnswer(r) PROVE p \in Claimants(m)
  <2>1. astray \subseteq astray'
    BY <1>6 DEF WriteAnswer
  <2>2. call[r].row = p /\ call[r].to = "ACCEPTED"
    BY <1>1, <1>6, <2>1 DEF WriteAnswer, UpdatePlayerStatus
  <2>3. call[r].match = m
    BY <1>6, <2>2 DEF WriteAnswer
  <2>4. Claims(call[r])
    BY <1>6, <2>2 DEF WriteAnswer, At, Claims
  <2> QED
    BY <1>2, <2>2, <2>3, <2>4
<1>7. ASSUME NEW r \in Request, MarkLeft(r) PROVE FALSE
  BY <1>1, <1>7 DEF MarkLeft, UpdatePlayerStatus
<1> QED
  BY <1>3, <1>4, <1>5, <1>6, <1>7, RowsChange

\* Nobody claims a seat of match m that he has not claimed before.
Inherited(m) == Claimants(m)' \subseteq Claimants(m)

\* Outside the two counts nobody claims a new seat.
LEMMA ClaimsInherited ==
  ASSUME MatchInv, [Next]_vars, NEW m,
         \A r \in Request : CountSeats(r) \/ CountForAnswer(r) => NoSeatLeft(r) \/ call[r].match # m
  PROVE  Inherited(m)
<1> SUFFICES ASSUME NEW q \in Request, Claims(call'[q]), call'[q].match = m
             PROVE  Claims(call[q]) /\ call[q].match = m /\ call[q].row = call'[q].row
  BY DEF Inherited, Claimants, Claiming, Claims
<1>1. Moves(q, call'[q])
  BY CallsMove
<1>2. CallOK(call[q])
  BY DEF MatchInv
<1>3. CASE Proceeds(q, call'[q])
  BY <1>2, <1>3 DEF Proceeds, Claims, CallOK, At
<1> QED
  BY <1>1, <1>3 DEF Moves, Claims

LEMMA CrowdIsFinite ==
  ASSUME NEW m
  PROVE  /\ IsFiniteSet(Accepted(m)) /\ IsFiniteSet(Seated(m)) /\ IsFiniteSet(Claimants(m))
         /\ IsFiniteSet(Crowd(m))
         /\ Cardinality(Seated(m)) <= Cardinality(Accepted(m))
         /\ Cardinality(Claimants(m)) <= Cardinality(Request)
         /\ Cardinality(Crowd(m)) <= Cardinality(Seated(m)) + Cardinality(Claimants(m))
<1> DEFINE f == [r \in Claiming(m) |-> call[r].row]
<1>1. IsFiniteSet(Claiming(m)) /\ Cardinality(Claiming(m)) <= Cardinality(Request)
  BY MatchAssumption, FS_Subset DEF Claiming
<1>2. f \in Surjection(Claiming(m), Claimants(m))
  BY DEF Surjection, Claimants
<1>3. IsFiniteSet(Claimants(m)) /\ Cardinality(Claimants(m)) <= Cardinality(Claiming(m))
  BY <1>1, <1>2, FS_Surjection
<1>4. IsFiniteSet(Accepted(m))
  <2>1. IsFiniteSet(Row)
    BY MatchAssumption, FS_Product DEF Row
  <2> QED
    BY <2>1, FS_Subset DEF Accepted
<1>5. IsFiniteSet(Seated(m)) /\ Cardinality(Seated(m)) <= Cardinality(Accepted(m))
  BY <1>4, FS_Subset DEF Seated
<1>6. /\ IsFiniteSet(Crowd(m)) /\ IsFiniteSet(Seated(m) \cap Claimants(m))
      /\ Cardinality(Crowd(m)) =
           Cardinality(Seated(m)) + Cardinality(Claimants(m)) - Cardinality(Seated(m) \cap Claimants(m))
  BY <1>3, <1>5, FS_Union, FS_Subset DEF Crowd
<1>7. /\ Cardinality(Seated(m)) \in Nat /\ Cardinality(Claimants(m)) \in Nat
      /\ Cardinality(Seated(m) \cap Claimants(m)) \in Nat /\ Cardinality(Claiming(m)) \in Nat
      /\ Cardinality(Request) \in Nat
  BY <1>1, <1>3, <1>5, <1>6, MatchAssumption, FS_CardinalityType
<1> QED
  BY <1>1, <1>3, <1>4, <1>5, <1>6, <1>7

\* The numbers the bound is about.
LEMMA CrowdIsCounted ==
  ASSUME NEW m
  PROVE  /\ Cardinality(Accepted(m)) \in Nat /\ Cardinality(Seated(m)) \in Nat
         /\ Cardinality(Claimants(m)) \in Nat /\ Cardinality(Crowd(m)) \in Nat
         /\ Cardinality(Request) \in Nat
BY CrowdIsFinite, MatchAssumption, FS_CardinalityType

\* A call that finds a seat has counted fewer players than there are seats, and
\* the calls together can claim one each: the crowd stays within bounds.
LEMMA CountKeepsCrowd ==
  ASSUME SameSlots, MatchInv, NEW m \in Match,
         NEW r \in Request, CountSeats(r) \/ CountForAnswer(r), ~NoSeatLeft(r), call[r].match = m
  PROVE  (Cardinality(Crowd(m)) < terms[m].slots + Cardinality(Request))'
<1>1. UNCHANGED <<player, terms, astray>>
  BY DEF CountSeats, CountForAnswer, tables
<1>2. call[r].seen.slots = terms[m].slots /\ terms[m].slots \in Nat
  <2>1. call[r].seen \in Terms /\ terms[m] \in Terms
    BY DEF MatchInv, CallOK, TablesOK, CountSeats, CountForAnswer, Operation
  <2> QED
    BY <2>1, MatchAssumption DEF SameSlots
<1>3. Cardinality(Accepted(m)) < terms[m].slots
  BY <1>2, CrowdIsCounted DEF NoSeatLeft
<1>4. Accepted(m)' = Accepted(m) /\ Seated(m)' = Seated(m)
  BY <1>1 DEF Accepted, Seated
<1>5. (/\ Cardinality(Claimants(m)) <= Cardinality(Request)
       /\ Cardinality(Crowd(m)) <= Cardinality(Seated(m)) + Cardinality(Claimants(m)))'
  BY CrowdIsFinite, PTL
<1>6. (/\ Cardinality(Claimants(m)) \in Nat /\ Cardinality(Crowd(m)) \in Nat
       /\ Cardinality(Request) \in Nat)'
  BY CrowdIsCounted, PTL
<1>7. Cardinality(Seated(m)) <= Cardinality(Accepted(m))
  BY CrowdIsFinite
<1> QED
  BY <1>1, <1>2, <1>3, <1>4, <1>5, <1>6, <1>7, CrowdIsCounted

LEMMA NextKeepsCrowd ==
  ASSUME SameSlots, MatchInv, MatchInv', CrowdInv, [Next]_vars PROVE CrowdInv'
<1> SUFFICES ASSUME NEW m \in Match
             PROVE  (Cardinality(Crowd(m)) < terms[m].slots + Cardinality(Request))'
  BY DEF CrowdInv
<1>1. CASE Inherited(m)
  <2>1. Crowd(m)' \subseteq Crowd(m)
    BY <1>1, SeatsClaimed DEF Crowd, Inherited
  <2>2. Cardinality(Crowd(m)') <= Cardinality(Crowd(m)) /\ Cardinality(Crowd(m)') \in Nat
    BY <2>1, CrowdIsFinite, FS_Subset, FS_CardinalityType
  <2>3. terms'[m].slots = terms[m].slots /\ terms[m].slots \in Nat
    <3>1. terms'[m] \in Terms /\ terms[m] \in Terms
      BY DEF MatchInv, TablesOK
    <3> QED
      BY <3>1, MatchAssumption DEF SameSlots
  <2> QED
    BY <2>2, <2>3, CrowdIsCounted DEF CrowdInv
<1>2. ASSUME NEW r \in Request, CountSeats(r) \/ CountForAnswer(r), ~NoSeatLeft(r),
             call[r].match = m
      PROVE  (Cardinality(Crowd(m)) < terms[m].slots + Cardinality(Request))'
  BY <1>2, CountKeepsCrowd
<1> QED
  BY <1>1, <1>2, ClaimsInherited

\* While the numbers of slots stay, the players of each match that its own count
\* has let in are fewer than slots and concurrent calls together.
THEOREM OverrunBounded ==
  ASSUME SameSlots PROVE Spec => []OverrunIsBounded
<1>1. Init => CrowdInv
  <2> SUFFICES ASSUME Init, NEW m \in Match
               PROVE  Cardinality(Crowd(m)) < terms[m].slots + Cardinality(Request)
    BY DEF CrowdInv
  <2>1. Crowd(m) = {}
    BY DEF Init, Crowd, Seated, Claimants, Claiming, Claims, Accepted, IdleCall
  <2>2. terms[m].slots \in Nat \ {0}
    BY MatchAssumption DEF Init, CreateAndFetch
  <2>3. Cardinality(Crowd(m)) = 0
    BY <2>1, FS_EmptySet
  <2> QED
    BY <2>2, <2>3, CrowdIsCounted
<1>2. MatchInv /\ MatchInv' /\ CrowdInv /\ [Next]_vars => CrowdInv'
  BY NextKeepsCrowd
<1>3. MatchInv /\ CrowdInv => OverrunIsBounded
  <2> SUFFICES ASSUME MatchInv, CrowdInv, NEW m \in Match
               PROVE  Cardinality(Seated(m)) < terms[m].slots + Cardinality(Request)
    BY DEF OverrunIsBounded, Seated
  <2>1. Cardinality(Seated(m)) <= Cardinality(Crowd(m))
    BY CrowdIsFinite, FS_Subset DEF Crowd
  <2>2. terms[m].slots \in Nat
    BY MatchAssumption DEF MatchInv, TablesOK
  <2> QED
    BY <2>1, <2>2, CrowdIsCounted DEF CrowdInv
<1> QED
  BY <1>1, <1>2, <1>3, MatchInvariance, PTL DEF Spec

=============================================================================
