------------------------------ MODULE Accounts ------------------------------
(***************************************************************************)
(* The accounts of the users: signing in, anonymously or with a verified   *)
(* token, converting an anonymous account, editing, deleting, uploading    *)
(* a profile photo, and claiming the bookings made as a guest.             *)
(*                                                                         *)
(* A call first authenticates: RequireAuth reads the row of the token's    *)
(* Firebase UID, and what the middleware checks, it checks on that row as  *)
(* it was then.  Everything later goes by the row's id, one round trip to  *)
(* the database or to S3 per step, and calls of all instances interleave.  *)
(* The unique indices of the table are what two calls cannot get past.     *)
(***************************************************************************)
EXTENDS Naturals, FiniteSets

CONSTANTS
  Id,         \* ids of accounts, in the order of their INSERTs
  Uid,        \* Firebase UIDs
  EmailOf,    \* [Uid -> emails]: what a token for the UID says
  Key,        \* keys of photos in the bucket
  Booking,    \* bookings made by a guest, all with one phone number
  Request,    \* concurrent calls
  Ops,        \* [Id -> the operations this instance exercises on an account]
  MaxFaults,  \* bound on failed round trips and abandoned calls
  None

Operation == {"update", "delete", "convert", "photo", "link"}
Email == {EmailOf[u] : u \in Uid}

\* A photo that is no object of the bucket: the full URL of another site.
External == "external"

ASSUME AccountAssumption ==
  /\ Id \subseteq Nat
  /\ None \notin Uid \cup Email \cup Key \cup Id
  /\ External \notin Key \cup {None}
  /\ IsFiniteSet(Request)
  /\ Ops \in [Id -> SUBSET Operation]
  /\ MaxFaults \in Nat

VARIABLES
  users,      \* the table, a row for every id
  bucket,     \* the photos in S3
  spent,      \* the keys that have been given to an upload
  owner,      \* bookings.user_id of the guest bookings
  call,       \* what each request does
  converted,  \* how often Convert has changed an account
  dangling,   \* accounts whose upload was abandoned after it had deleted the old photo
  named,      \* history: the keys that an edit has written into a row
  faults

store == <<bucket, spent, dangling, named>>
vars == <<users, store, owner, call, converted, faults>>

\* All that is told of a phone number is whether it is the guest's; a user name
\* is unique like an email and left out, as is what only a screen shows.
User == [there : {"absent", "present", "deleted"}, uid : Uid \cup {None},
         email : Email \cup {None}, anonymous : BOOLEAN, phone : BOOLEAN,
         photo : Key \cup {None, External}]

NoUser == [there |-> "absent", uid |-> None, email |-> None, anonymous |-> FALSE,
           phone |-> FALSE, photo |-> None]

\* Of the row that was authenticated a call uses its id, photo or phone number.
Call == [op : Operation \cup {"none"}, pc : {"idle", "act", "put", "remove", "save"},
         id : Id \cup {None}, phone : BOOLEAN,
         photo : Key \cup {None, External}, key : Key \cup {None}]

IdleCall == [op |-> "none", pc |-> "idle", id |-> None, phone |-> FALSE,
             photo |-> None, key |-> None]

Exists(i) == users[i].there = "present"

\* Rows, photos, bookings and calls have their types; no booking belongs to an
\* account that is gone, whatever call still holds its id.
TypeOK ==
  /\ users \in [Id -> User]
  /\ bucket \subseteq spent /\ spent \subseteq Key
  /\ \A b \in Booking : owner[b] # None => owner[b] \in Id /\ Exists(owner[b])
  /\ call \in [Request -> Call]
  /\ converted \in [Id -> Nat]
  /\ dangling \subseteq Id
  /\ named \subseteq spent
  /\ faults \in 0 .. MaxFaults

Init ==
  /\ users = [i \in Id |-> NoUser]
  /\ bucket = {} /\ spent = {}
  /\ owner = [b \in Booking |-> None]
  /\ call = [r \in Request |-> IdleCall]
  /\ converted = [i \in Id |-> 0]
  /\ dangling = {}
  /\ named = {}
  /\ faults = 0

-----------------------------------------------------------------------------
(* The table *)

Fault == faults < MaxFaults /\ faults' = faults + 1

At(r, l) == call[r].pc = l

Goto(r, l) == call' = [call EXCEPT ![r].pc = l]

Return(r) == call' = [call EXCEPT ![r] = IdleCall]

\* UNIQUE (firebase_uid), UNIQUE (email); NULLs do not clash.
Unique(i, row) ==
  \A j \in Id \ {i} : Exists(j) =>
    /\ row.uid # users[j].uid
    /\ row.email # None => row.email # users[j].email

\* UPDATE users ... WHERE id = i: a row that is gone is no error, and one that
\* clashes with another stays as it is.
UpdateProfile(i, row) ==
  users' = IF Exists(i) /\ Unique(i, row) THEN [users EXCEPT ![i] = row] ELSE users

NewUser(u) == [NoUser EXCEPT !.there = "present", !.uid = u]

Insert(row) ==
  \E i \in Id :
    /\ users[i].there = "absent" /\ \A j \in Id : j < i => users[j].there # "absent"
    /\ Unique(i, row)
    /\ users' = [users EXCEPT ![i] = row]

\* Mutant of Upsert: whoever signs in anonymously becomes anonymous.
UpsertAnonymity(row) ==
  /\ \/ \E i \in Id : /\ Exists(i) /\ users[i].uid = row.uid
                     /\ users' = [users EXCEPT ![i].anonymous = row.anonymous]
     \/ (\A i \in Id : users[i].uid # row.uid) /\ Insert(row)
  /\ UNCHANGED <<store, owner, call, converted, faults>>

\* INSERT ... ON CONFLICT (firebase_uid): a known UID keeps its row as it is, and
\* an email that another account has makes the INSERT fail.
Upsert(row) ==
  /\ \A i \in Id : users[i].uid # row.uid
  /\ Insert(row)
  /\ UNCHANGED <<store, owner, call, converted, faults>>

\* The photo of the provider is a full URL.
Verify(u) ==
  \E p \in {None, External} :
    Upsert([NewUser(u) EXCEPT !.email = EmailOf[u], !.photo = p])

Anonymous(u) == Upsert([NewUser(u) EXCEPT !.anonymous = TRUE])

-----------------------------------------------------------------------------
(* Calls with a token *)

\* RequireAuth finds the row of the token's UID and hands it on.
RequireAuth(r, op, i) ==
  /\ op \in Ops[i] /\ At(r, "idle") /\ Exists(i)
  /\ call' = [call EXCEPT ![r] = [op |-> op, pc |-> IF op = "photo" THEN "put" ELSE "act",
                                  id |-> i, phone |-> op = "link" /\ users[i].phone,
                                  photo |-> IF op = "photo" THEN users[i].photo ELSE None,
                                  key |-> None]]
  /\ UNCHANGED <<users, store, owner, converted, faults>>

\* RequireRegisteredUser, for all but the conversion.
RequireRegisteredUser(r, op, i) ==
  /\ op # "convert" /\ RequireAuth(r, op, i) /\ ~users[i].anonymous

RequireAnonymousUser(r, i) ==
  RequireAuth(r, "convert", i) /\ users[i].anonymous

\* One UPDATE of the columns the client sent.  Any string is taken for a photo,
\* the key of any object that there is or was among them; an empty one is none.
UpdateMe(r) ==
  LET i == call[r].id
  IN  /\ At(r, "act") /\ call[r].op = "update"
      /\ \E t \in {users[i].phone, TRUE}, p \in {users[i].photo, None, External} \cup spent :
           /\ UpdateProfile(i, [users[i] EXCEPT !.phone = t, !.photo = p])
           /\ named' = named \cup ({p} \ {users[i].photo, None, External})
      /\ Return(r)
      /\ UNCHANGED <<bucket, spent, dangling, owner, converted, faults>>

\* Mutant of DeleteMe: the bookings keep the account.
DeleteUserOnly(r) ==
  /\ At(r, "act") /\ call[r].op = "delete"
  /\ users' = [users EXCEPT ![call[r].id] = [NoUser EXCEPT !.there = "deleted"]]
  /\ Return(r)
  /\ UNCHANGED <<store, owner, converted, faults>>

\* ON DELETE SET NULL frees the bookings; the photo stays in the bucket.
DeleteMe(r) ==
  /\ At(r, "act") /\ call[r].op = "delete"
  /\ LET i == call[r].id
     IN  /\ users' = [users EXCEPT ![i] = [NoUser EXCEPT !.there = "deleted"]]
         /\ owner' = [b \in Booking |-> IF owner[b] = i THEN None ELSE owner[b]]
  /\ Return(r)
  /\ UNCHANGED <<store, converted, faults>>

\* The UPDATE does not look at is_anonymous again.  The client may leave out any
\* of the new UID, the email and the phone number; a token may bring a photo.
Convert(r) ==
  LET i == call[r].id
  IN  /\ At(r, "act") /\ call[r].op = "convert"
      /\ \E u \in Uid \cup {users[i].uid}, e \in Email \cup {users[i].email},
            p \in {users[i].photo, External}, t \in {users[i].phone, TRUE} :
           LET row == [users[i] EXCEPT !.uid = u, !.anonymous = FALSE, !.email = e,
                                       !.photo = p, !.phone = t]
           IN  /\ UpdateProfile(i, row)
               /\ converted' = IF Exists(i) /\ Unique(i, row)
                               THEN [converted EXCEPT ![i] = @ + 1] ELSE converted
      /\ Return(r)
      /\ UNCHANGED <<store, owner, faults>>

\* Mutant of LinkBookings: the bookings of the number, whoever has them.
LinkAllBookings(r) ==
  LET i == call[r].id
  IN  /\ At(r, "act") /\ call[r].op = "link"
      /\ owner' = IF Exists(i) /\ call[r].phone THEN [b \in Booking |-> i] ELSE owner
      /\ Return(r)
      /\ UNCHANGED <<users, store, converted, faults>>

\* UPDATE bookings ... WHERE guest_phone = $1 AND user_id IS NULL, with the
\* number of the authenticated row; the foreign key refuses a deleted account.
LinkBookings(r) ==
  LET i == call[r].id
  IN  /\ At(r, "act") /\ call[r].op = "link"
      /\ owner' = IF Exists(i) /\ call[r].phone
                  THEN [b \in Booking |-> IF owner[b] = None THEN i ELSE owner[b]]
                  ELSE owner
      /\ Return(r)
      /\ UNCHANGED <<users, store, converted, faults>>

-----------------------------------------------------------------------------
(* The photo *)

\* Mutant of PutPhoto: the key is made of the user's id alone.
PutSameKey(r) ==
  /\ At(r, "put")
  /\ \E k \in Key :
       /\ call[r].photo \in Key => k = call[r].photo
       /\ bucket' = bucket \cup {k} /\ spent' = spent \cup {k}
       /\ call' = [call EXCEPT ![r].key = k,
                               ![r].pc = IF call[r].photo = None THEN "save" ELSE "remove"]
  /\ UNCHANGED <<users, dangling, named, owner, converted, faults>>

\* The new photo gets a key of its own; the old one is the one RequireAuth read.
PutPhoto(r) ==
  /\ At(r, "put")
  /\ \E k \in Key \ spent :
       /\ bucket' = bucket \cup {k} /\ spent' = spent \cup {k}
       /\ call' = [call EXCEPT ![r].key = k,
                               ![r].pc = IF call[r].photo = None THEN "save" ELSE "remove"]
  /\ UNCHANGED <<users, dangling, named, owner, converted, faults>>

\* An error is only a warning.  There is no object for a full URL.
RemoveOld(r) ==
  /\ At(r, "remove")
  /\ \/ bucket' = bucket \ {call[r].photo} /\ UNCHANGED faults
     \/ Fault /\ UNCHANGED bucket
  /\ Goto(r, "save")
  /\ UNCHANGED <<users, spent, dangling, named, owner, converted>>

SavePhoto(r) ==
  LET i == call[r].id
  IN  /\ At(r, "save")
      /\ UpdateProfile(i, [users[i] EXCEPT !.photo = call[r].key])
      /\ dangling' = dangling \ {i}
      /\ Return(r)
      /\ UNCHANGED <<bucket, spent, named, owner, converted, faults>>

\* The round trip fails or the request is abandoned before it.
Fails(r) ==
  /\ ~At(r, "idle") /\ Fault
  /\ dangling' = IF At(r, "save") THEN dangling \cup {call[r].id} ELSE dangling
  /\ Return(r)
  /\ UNCHANGED <<users, bucket, spent, named, owner, converted>>

-----------------------------------------------------------------------------

Next ==
  \/ \E u \in Uid : Verify(u) \/ Anonymous(u)
  \/ \E r \in Request :
       \/ \E i \in Id :
            \/ \E op \in Operation : RequireRegisteredUser(r, op, i)
            \/ RequireAnonymousUser(r, i)
       \/ UpdateMe(r) \/ DeleteMe(r) \/ Convert(r) \/ LinkBookings(r)
       \/ PutPhoto(r) \/ RemoveOld(r) \/ SavePhoto(r) \/ Fails(r)

Spec == Init /\ [][Next]_vars

-----------------------------------------------------------------------------
(* Properties *)

\* The photo in a row can be shown: it is missing only while the upload that
\* has deleted it is about to name its successor, or was abandoned there,
\* however many uploads and edits run at the same time.  Outside the claim are
\* the keys that an edit has named, another account's or one of its own before:
\* the next upload of whoever has such a key deletes the object under it.
PhotoNotLost ==
  \A i \in Id : Exists(i) /\ users[i].photo \in Key \ (bucket \cup named) =>
    \/ i \in dangling
    \/ \E r \in Request : At(r, "save") /\ call[r].id = i /\ call[r].photo = users[i].photo

\* RequireAnonymousUser looks at the account once: of conversions that run at
\* the same time each may replace the identity the one before has given it,
\* but none can begin when one is done.
ConversionsAreBounded ==
  \A i \in Id : converted[i] <= Cardinality(Request)

\* A booking that an account has claimed is not taken over by another account
\* with the same number; only the end of the account frees it.
BookingsStay ==
  [][\A b \in Booking : owner[b] # None /\ owner'[b] # owner[b]
       => owner'[b] = None /\ users'[owner[b]].there = "deleted"]_vars

=============================================================================
