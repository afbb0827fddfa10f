--------------------------- MODULE AccountsProofs ---------------------------
(***************************************************************************)
(* Rows, photos, claimed bookings and conversions of accounts, for any     *)
(* numbers of accounts, tokens, photos, calls and failures.                *)
(***************************************************************************)
EXTENDS Accounts, FiniteSetTheorems, TLAPS

-----------------------------------------------------------------------------
(* The invariant *)

\* Between its steps a call has an account, and after the upload a photo.
CallsOK ==
  \A r \in Request :
    /\ call[r].pc # "idle" => call[r].id \in Id
    /\ call[r].pc \in {"remove", "save"} => call[r].key \in Key

\* No two rows clash in what is UNIQUE.
UniqueRows == \A i \in Id : Exists(i) => Unique(i, users[i])

\* The keys that no edit has named.
Own == Key \ named

\* Such a photo belongs to one row at most, and a call that holds an old photo
\* works for the row that has it, if any still has it.
PhotosApart ==
  /\ \A i \in Id : users[i].photo \in Own =>
       \A j \in Id \ {i} : users[j].photo # users[i].photo
  /\ \A r \in Request : call[r].photo \in Own =>
       \A j \in Id : users[j].photo = call[r].photo => j = call[r].id

\* The keys in rows and calls have been given to an upload.
PhotosSpent ==
  /\ \A i \in Id : users[i].photo \in Key => users[i].photo \in spent
  /\ \A r \in Request :
       /\ call[r].photo \in Key => call[r].photo \in spent
       /\ call[r].key \in Key => call[r].key \in spent

\* A new photo is in the bucket, and is nobody else's, until it is named.
NewPhotosSafe ==
  \A r \in Request : call[r].key \in Own =>
    /\ call[r].key \in bucket
    /\ \A j \in Id : users[j].photo # call[r].key
    /\ \A q \in Request : call[q].photo # call[r].key
    /\ \A q \in Request \ {r} : call[q].key # call[r].key

AccountInv ==
  /\ TypeOK /\ CallsOK /\ UniqueRows
  /\ PhotosApart /\ PhotosSpent /\ NewPhotosSafe /\ PhotoNotLost

LEMMA IdleIsCall == IdleCall \in Call
BY DEF IdleCall, Call, Operation

LEMMA Initially == Init => AccountInv
<1> SUFFICES ASSUME Init PROVE AccountInv
  OBVIOUS
<1>1. \A i \in Id : users[i] = NoUser
  BY DEF Init
<1>2. \A r \in Request : call[r] = IdleCall
  BY DEF Init
<1>3. TypeOK
  <2>1. NoUser \in User
    BY DEF NoUser, User
  <2> QED
    BY <2>1, IdleIsCall, AccountAssumption DEF Init, TypeOK
<1>4. CallsOK /\ UniqueRows
  BY <1>1, <1>2 DEF CallsOK, UniqueRows, Exists, NoUser, IdleCall
<1>5. PhotosApart /\ PhotosSpent /\ NewPhotosSafe /\ PhotoNotLost
  BY <1>1, <1>2, AccountAssumption
     DEF PhotosApart, PhotosSpent, NewPhotosSafe, PhotoNotLost, Own, Exists, NoUser, IdleCall
<1> QED
  BY <1>3, <1>4, <1>5 DEF AccountInv

\* An UPDATE of one row: the others stay, and so does what is unique.
LEMMA UpdateKeeps ==
  ASSUME AccountInv, NEW i \in Id
  PROVE  \A row \in User : row.there = users[i].there /\ UpdateProfile(i, row) =>
           /\ users' \in [Id -> User] /\ UniqueRows'
           /\ \A j \in Id : users'[j].there = users[j].there
           /\ \A j \in Id \ {i} : users'[j] = users[j]
           /\ users'[i] \in {users[i], row}
           /\ Exists(i) /\ Unique(i, row) => users'[i] = row
<1> SUFFICES ASSUME NEW row \in User, row.there = users[i].there, UpdateProfile(i, row)
             PROVE  /\ users' \in [Id -> User] /\ UniqueRows'
                    /\ \A j \in Id : users'[j].there = users[j].there
                    /\ \A j \in Id \ {i} : users'[j] = users[j]
                    /\ users'[i] \in {users[i], row}
                    /\ Exists(i) /\ Unique(i, row) => users'[i] = row
  OBVIOUS
<1>1. users \in [Id -> User] /\ UniqueRows
  BY DEF AccountInv, TypeOK
<1>2. CASE ~(Exists(i) /\ Unique(i, row))
  <2>1. users' = users
    BY <1>2 DEF UpdateProfile
  <2> QED
    BY <1>1, <1>2, <2>1 DEF UniqueRows, Exists, Unique
<1>3. CASE Exists(i) /\ Unique(i, row)
  <2>1. users' = [users EXCEPT ![i] = row]
    BY <1>3 DEF UpdateProfile
  <2>2. users' \in [Id -> User] /\ users'[i] = row /\ \A j \in Id \ {i} : users'[j] = users[j]
    BY <1>1, <2>1
  <2>3. UniqueRows'
    BY <1>1, <1>3, <2>2 DEF UniqueRows, Exists, Unique
  <2> QED
    BY <2>2, <2>3
<1> QED
  BY <1>2, <1>3

-----------------------------------------------------------------------------
(* Steps *)

\* A row may drop its photo or get a named one, no other, and a call may end,
\* but not one that has a photo to name.
LEMMA PhotosNamed ==
  ASSUME AccountInv, UNCHANGED <<bucket, spent, dangling>>,
         named \subseteq named', named' \subseteq spent,
         \A i \in Id : users'[i].photo \in {users[i].photo, None, External} \cup named',
         \A i \in Id : Exists(i)' => Exists(i) \/ users'[i].photo \notin Key,
         \A r \in Request : call'[r] = call[r] \/ (call'[r] = IdleCall /\ ~At(r, "save"))
  PROVE  CallsOK' /\ PhotosApart' /\ PhotosSpent' /\ NewPhotosSafe' /\ PhotoNotLost'
<1> USE AccountAssumption
<1>1. IdleCall.photo \notin Key /\ IdleCall.key \notin Key /\ IdleCall.pc = "idle"
  BY DEF IdleCall
<1>2. None \notin Key /\ External \notin Key
  OBVIOUS
<1>3. \A k : k \in Own' => k \in Own /\ k \notin named'
  BY DEF Own
<1>4. \A i \in Id : users'[i].photo \in Own' => users'[i].photo = users[i].photo
  BY <1>2, <1>3 DEF Own
<1>5. CallsOK'
  BY <1>1 DEF AccountInv, CallsOK
<1>6. PhotosApart'
  <2>1. ASSUME NEW i \in Id, users'[i].photo \in Own', NEW j \in Id \ {i}
        PROVE  users'[j].photo # users'[i].photo
    <3>1. users'[i].photo = users[i].photo /\ users[i].photo \in Own
      BY <1>3, <1>4, <2>1
    <3>2. users[j].photo # users[i].photo
      BY <3>1 DEF AccountInv, PhotosApart
    <3> QED
      BY <1>4, <2>1, <3>1, <3>2
  <2>2. ASSUME NEW r \in Request, call'[r].photo \in Own', NEW j \in Id,
               users'[j].photo = call'[r].photo
        PROVE  j = call'[r].id
    <3>1. call'[r] = call[r]
      BY <1>1, <2>2 DEF Own
    <3>2. users[j].photo = call[r].photo /\ call[r].photo \in Own
      BY <1>3, <1>4, <2>2, <3>1
    <3> QED
      BY <3>1, <3>2 DEF AccountInv, PhotosApart
  <2> QED
    BY <2>1, <2>2 DEF PhotosApart
<1>7. PhotosSpent'
  BY <1>1, <1>2 DEF AccountInv, PhotosSpent
<1>8. NewPhotosSafe'
  <2> SUFFICES ASSUME NEW r \in Request, call'[r].key \in Own'
               PROVE  /\ call'[r].key \in bucket'
                      /\ \A j \in Id : users'[j].photo # call'[r].key
                      /\ \A q \in Request : call'[q].photo # call'[r].key
                      /\ \A q \in Request \ {r} : call'[q].key # call'[r].key
    BY DEF NewPhotosSafe
  <2>1. call'[r] = call[r] /\ call[r].key \in Own /\ call[r].key \in Key
    BY <1>1, <1>3 DEF Own
  <2>2. /\ call[r].key \in bucket
        /\ \A j \in Id : users[j].photo # call[r].key
        /\ \A q \in Request : call[q].photo # call[r].key
        /\ \A q \in Request \ {r} : call[q].key # call[r].key
    BY <2>1 DEF AccountInv, NewPhotosSafe
  <2>3. \A j \in Id : users'[j].photo # call'[r].key
    BY <1>4, <2>1, <2>2
  <2> QED
    BY <1>1, <2>1, <2>2, <2>3
<1>9. PhotoNotLost'
  <2> SUFFICES ASSUME NEW i \in Id, Exists(i)', users'[i].photo \in Key \ (bucket' \cup named'),
                      i \notin dangling'
               PROVE  \E r \in Request : /\ call'[r].pc = "save" /\ call'[r].id = i
                                         /\ call'[r].photo = users'[i].photo
    BY DEF PhotoNotLost, At
  <2>1. /\ Exists(i) /\ users'[i].photo = users[i].photo
        /\ users[i].photo \in Key \ (bucket \cup named)
    BY <1>3, <1>4 DEF Own
  <2>2. PICK r \in Request : At(r, "save") /\ call[r].id = i /\ call[r].photo = users[i].photo
    BY <2>1 DEF AccountInv, PhotoNotLost
  <2> QED
    BY <2>1, <2>2 DEF At
<1> QED
  BY <1>5, <1>6, <1>7, <1>8, <1>9

\* The steps that name no photo.
LEMMA PhotosStay ==
  ASSUME AccountInv, UNCHANGED store,
         \A i \in Id : users'[i].photo \in {users[i].photo, None, External},
         \A i \in Id : Exists(i)' => Exists(i) \/ users'[i].photo \notin Key,
         \A r \in Request : call'[r] = call[r] \/ (call'[r] = IdleCall /\ ~At(r, "save"))
  PROVE  CallsOK' /\ PhotosApart' /\ PhotosSpent' /\ NewPhotosSafe' /\ PhotoNotLost'
<1>1. UNCHANGED <<bucket, spent, dangling>> /\ named' = named
  BY DEF store
<1>2. named \subseteq named' /\ named' \subseteq spent
  BY <1>1 DEF AccountInv, TypeOK
<1>3. \A i \in Id : users'[i].photo \in {users[i].photo, None, External} \cup named'
  OBVIOUS
<1> QED
  BY <1>1, <1>2, <1>3, PhotosNamed

LEMMA ReturnKeeps ==
  ASSUME AccountInv, NEW r \in Request, Return(r)
  PROVE  /\ call' \in [Request -> Call]
         /\ call'[r] = IdleCall
         /\ \A q \in Request \ {r} : call'[q] = call[q]
BY IdleIsCall DEF AccountInv, TypeOK, Return

LEMMA InsertKeeps ==
  ASSUME AccountInv, NEW row, row \in User, row.there = "present", row.photo \notin Key, Upsert(row)
  PROVE  AccountInv'
<1>1. PICK i \in Id : /\ users[i].there = "absent" /\ Unique(i, row)
                      /\ users' = [users EXCEPT ![i] = row]
  BY DEF Upsert, Insert
<1>2. users \in [Id -> User]
  BY DEF AccountInv, TypeOK
<1>3. /\ users' \in [Id -> User] /\ users'[i] = row
      /\ \A j \in Id \ {i} : users'[j] = users[j]
  BY <1>1, <1>2
<1>4. UniqueRows'
  BY <1>1, <1>3 DEF AccountInv, UniqueRows, Unique, Exists
<1>5. TypeOK'
  BY <1>3 DEF Upsert, store, AccountInv, TypeOK, Exists
<1>6. CallsOK' /\ PhotosApart' /\ PhotosSpent' /\ NewPhotosSafe' /\ PhotoNotLost'
  <2>1. row.photo \in {None, External}
    BY DEF User
  <2>2. \A j \in Id : users'[j].photo \in {users[j].photo, None, External}
    BY <1>3, <2>1
  <2>3. \A j \in Id : Exists(j)' => Exists(j) \/ users'[j].photo \notin Key
    BY <1>3 DEF Exists
  <2>4. UNCHANGED store /\ call' = call
    BY DEF Upsert
  <2> QED
    BY <2>2, <2>3, <2>4, PhotosStay
<1> QED
  BY <1>4, <1>5, <1>6 DEF AccountInv

LEMMA SignInKeeps ==
  ASSUME AccountInv, NEW u \in Uid, Verify(u) \/ Anonymous(u)
  PROVE  AccountInv'
<1> USE AccountAssumption
<1>1. CASE Anonymous(u)
  <2> DEFINE row == [NewUser(u) EXCEPT !.anonymous = TRUE]
  <2>1. row \in User /\ row.there = "present" /\ row.photo = None
    BY DEF NewUser, NoUser, User
  <2>2. Upsert(row)
    BY <1>1 DEF Anonymous
  <2> HIDE DEF row
  <2> QED
    BY <2>1, <2>2, InsertKeeps
<1>2. CASE Verify(u)
  <2>1. PICK p \in {None, External} :
           Upsert([NewUser(u) EXCEPT !.email = EmailOf[u], !.photo = p])
    BY <1>2 DEF Verify
  <2> DEFINE row == [NewUser(u) EXCEPT !.email = EmailOf[u], !.photo = p]
  <2>2. row \in User /\ row.there = "present" /\ row.photo = p
    BY DEF NewUser, NoUser, User, Email
  <2>3. Upsert(row) /\ row.photo \notin Key
    BY <2>1, <2>2
  <2> HIDE DEF row
  <2> QED
    BY <2>2, <2>3, InsertKeeps
<1> QED
  BY <1>1, <1>2

\* The fields of a row have their types.
LEMMA FieldsOfUser ==
  ASSUME NEW w \in User
  PROVE  /\ w.uid \in Uid \cup {None} /\ w.email \in Email \cup {None}
         /\ w.phone \in BOOLEAN /\ w.photo \in Key \cup {None, External}
BY DEF User

\* What an edit writes.
LEMMA EditedRow ==
  ASSUME AccountInv, NEW r \in Request, UpdateMe(r)
  PROVE  \E row \in User :
           /\ row.there = users[call[r].id].there
           /\ row.anonymous = users[call[r].id].anonymous
           /\ row.photo \in {users[call[r].id].photo, None, External} \cup named'
           /\ named \subseteq named' /\ named' \subseteq spent
           /\ UpdateProfile(call[r].id, row)
<1> DEFINE i == call[r].id
<1>1. i \in Id /\ users[i] \in User
  BY DEF UpdateMe, At, AccountInv, CallsOK, TypeOK
<1>2. PICK t \in {users[i].phone, TRUE}, p \in {users[i].photo, None, External} \cup spent :
        /\ UpdateProfile(i, [users[i] EXCEPT !.phone = t, !.photo = p])
        /\ named' = named \cup ({p} \ {users[i].photo, None, External})
  BY DEF UpdateMe
<1>3. named \subseteq spent /\ spent \subseteq Key
  BY DEF AccountInv, TypeOK
<1>4. /\ named \subseteq named' /\ named' \subseteq spent
      /\ p \in {users[i].photo, None, External} \cup named'
  BY <1>2, <1>3
<1>5. PICK v : v = [users[i] EXCEPT !.phone = t, !.photo = p]
  OBVIOUS
<1>6. v \in User /\ v.there = users[i].there /\ v.anonymous = users[i].anonymous /\ v.photo = p
  <2>1. PICK w : w = users[i]
    OBVIOUS
  <2>2. w \in User /\ t \in {w.phone, TRUE} /\ v = [w EXCEPT !.phone = t, !.photo = p]
    BY <1>1, <1>5, <2>1
  <2>3. p \in Key \cup {w.photo, None, External}
    BY <1>2, <1>3, <2>1
  <2> HIDE DEF i
  <2>4. t \in BOOLEAN /\ p \in Key \cup {None, External}
    BY <2>2, <2>3, FieldsOfUser
  <2>5. v \in User /\ v.there = w.there /\ v.anonymous = w.anonymous /\ v.photo = p
    BY <2>2, <2>4 DEF User
  <2> QED
    BY <2>1, <2>5
<1> QED
  BY <1>2, <1>4, <1>5, <1>6

LEMMA UpdateMeKeeps == ASSUME AccountInv, NEW r \in Request, UpdateMe(r) PROVE AccountInv'
<1> DEFINE i == call[r].id
<1>1. i \in Id /\ users \in [Id -> User]
  BY DEF UpdateMe, At, AccountInv, CallsOK, TypeOK
<1>2. PICK row \in User : /\ row.there = users[i].there
                         /\ row.photo \in {users[i].photo, None, External} \cup named'
                         /\ named \subseteq named' /\ named' \subseteq spent
                         /\ UpdateProfile(i, row)
  BY EditedRow
<1>3. /\ users' \in [Id -> User] /\ UniqueRows'
      /\ \A j \in Id : users'[j].there = users[j].there
      /\ \A j \in Id \ {i} : users'[j] = users[j]
      /\ users'[i] \in {users[i], row}
  BY <1>1, <1>2, UpdateKeeps
<1>4. UNCHANGED <<bucket, spent, dangling, owner, converted, faults>> /\ ~At(r, "save")
  BY DEF UpdateMe, At
<1>5. /\ call' \in [Request -> Call] /\ call'[r] = IdleCall
      /\ \A q \in Request \ {r} : call'[q] = call[q]
  BY ReturnKeeps DEF UpdateMe
<1> HIDE DEF i
<1>6. TypeOK'
  BY <1>2, <1>3, <1>4, <1>5 DEF AccountInv, TypeOK, Exists
<1>7. CallsOK' /\ PhotosApart' /\ PhotosSpent' /\ NewPhotosSafe' /\ PhotoNotLost'
  BY <1>2, <1>3, <1>4, <1>5, PhotosNamed DEF Exists
<1> QED
  BY <1>3, <1>6, <1>7 DEF AccountInv

LEMMA ConvertKeeps == ASSUME AccountInv, NEW r \in Request, Convert(r) PROVE AccountInv'
<1> DEFINE i == call[r].id
<1>1. i \in Id /\ users \in [Id -> User]
  BY DEF Convert, At, AccountInv, CallsOK, TypeOK
<1>2. PICK row : /\ row \in User /\ row.there = users[i].there
                 /\ row.photo \in {users[i].photo, External}
                 /\ UpdateProfile(i, row)
                 /\ converted' = IF Exists(i) /\ Unique(i, row)
                                 THEN [converted EXCEPT ![i] = @ + 1] ELSE converted
  <2>1. PICK u \in Uid \cup {users[i].uid}, e \in Email \cup {users[i].email},
             p \in {users[i].photo, External}, t \in {users[i].phone, TRUE} :
           LET new == [users[i] EXCEPT !.uid = u, !.anonymous = FALSE, !.email = e,
                                       !.photo = p, !.phone = t]
           IN  /\ UpdateProfile(i, new)
               /\ converted' = IF Exists(i) /\ Unique(i, new)
                               THEN [converted EXCEPT ![i] = @ + 1] ELSE converted
    BY DEF Convert
  <2>2. PICK w, v : /\ w = users[i]
                    /\ v = [w EXCEPT !.uid = u, !.anonymous = FALSE, !.email = e,
                                     !.photo = p, !.phone = t]
    OBVIOUS
  <2>3. /\ UpdateProfile(i, v)
        /\ converted' = IF Exists(i) /\ Unique(i, v)
                        THEN [converted EXCEPT ![i] = @ + 1] ELSE converted
    BY <2>1, <2>2
  <2>4. w \in User
    BY <1>1, <2>2
  <2>5. /\ w.uid \in Uid \cup {None} /\ w.email \in Email \cup {None}
        /\ w.phone \in BOOLEAN /\ w.photo \in Key \cup {None, External}
    BY <2>4, FieldsOfUser
  <2>6. /\ u \in Uid \cup {None} /\ e \in Email \cup {None}
        /\ p \in Key \cup {None, External} /\ t \in BOOLEAN
    BY <2>2, <2>5
  <2> HIDE DEF i
  <2>7. v = [w EXCEPT !.uid = u, !.anonymous = FALSE, !.email = e, !.photo = p, !.phone = t]
    BY <2>2
  <2>8. v \in User /\ v.there = w.there /\ v.photo = p
    BY <2>4, <2>6, <2>7 DEF User
  <2> QED
    BY <2>2, <2>3, <2>8
<1>3. /\ users' \in [Id -> User] /\ UniqueRows'
      /\ \A j \in Id : users'[j].there = users[j].there
      /\ \A j \in Id \ {i} : users'[j] = users[j]
      /\ users'[i] \in {users[i], row}
  BY <1>1, <1>2, UpdateKeeps
<1>4. UNCHANGED <<store, owner, faults>> /\ ~At(r, "save")
  BY DEF Convert, At
<1>5. /\ call' \in [Request -> Call] /\ call'[r] = IdleCall
      /\ \A q \in Request \ {r} : call'[q] = call[q]
  BY ReturnKeeps DEF Convert
<1>6. converted' \in [Id -> Nat]
  BY <1>1, <1>2 DEF AccountInv, TypeOK
<1> HIDE DEF i
<1>7. TypeOK'
  BY <1>3, <1>4, <1>5, <1>6 DEF store, AccountInv, TypeOK, Exists
<1>8. CallsOK' /\ PhotosApart' /\ PhotosSpent' /\ NewPhotosSafe' /\ PhotoNotLost'
  BY <1>2, <1>3, <1>4, <1>5, PhotosStay DEF Exists
<1> QED
  BY <1>3, <1>7, <1>8 DEF AccountInv

LEMMA DeleteMeKeeps == ASSUME AccountInv, NEW r \in Request, DeleteMe(r) PROVE AccountInv'
<1> DEFINE i == call[r].id
           gone == [NoUser EXCEPT !.there = "deleted"]
<1>1. i \in Id /\ users \in [Id -> User]
  BY DEF DeleteMe, At, AccountInv, CallsOK, TypeOK
<1>2. gone \in User /\ gone.there = "deleted" /\ gone.photo = None
  BY DEF NoUser, User
<1>3. /\ users' = [users EXCEPT ![i] = gone]
      /\ owner' = [b \in Booking |-> IF owner[b] = i THEN None ELSE owner[b]]
      /\ UNCHANGED <<store, converted, faults>> /\ ~At(r, "save")
  BY DEF DeleteMe, At
<1> HIDE DEF gone
<1>4. /\ users' \in [Id -> User] /\ users'[i] = gone
      /\ \A j \in Id \ {i} : users'[j] = users[j]
  BY <1>1, <1>2, <1>3
<1>5. /\ call' \in [Request -> Call] /\ call'[r] = IdleCall
      /\ \A q \in Request \ {r} : call'[q] = call[q]
  BY ReturnKeeps DEF DeleteMe
<1> HIDE DEF i
<1>6. UniqueRows'
  BY <1>2, <1>4 DEF AccountInv, UniqueRows, Unique, Exists
<1>7. TypeOK'
  BY <1>3, <1>4, <1>5 DEF store, AccountInv, TypeOK, Exists
<1>8. CallsOK' /\ PhotosApart' /\ PhotosSpent' /\ NewPhotosSafe' /\ PhotoNotLost'
  BY <1>2, <1>3, <1>4, <1>5, PhotosStay DEF Exists
<1> QED
  BY <1>6, <1>7, <1>8 DEF AccountInv

LEMMA LinkKeeps == ASSUME AccountInv, NEW r \in Request, LinkBookings(r) PROVE AccountInv'
<1> DEFINE i == call[r].id
<1>1. i \in Id
  BY DEF LinkBookings, At, AccountInv, CallsOK
<1>2. UNCHANGED <<users, store, converted, faults>> /\ ~At(r, "save")
  BY DEF LinkBookings, At
<1>3. /\ call' \in [Request -> Call] /\ call'[r] = IdleCall
      /\ \A q \in Request \ {r} : call'[q] = call[q]
  BY ReturnKeeps DEF LinkBookings
<1>4. \A b \in Booking : owner'[b] = owner[b] \/ (owner'[b] = i /\ Exists(i))
  BY DEF LinkBookings
<1> HIDE DEF i
<1>5. TypeOK'
  BY <1>1, <1>2, <1>3, <1>4 DEF store, AccountInv, TypeOK, Exists
<1>6. UniqueRows'
  BY <1>2 DEF AccountInv, UniqueRows, Unique, Exists
<1>7. CallsOK' /\ PhotosApart' /\ PhotosSpent' /\ NewPhotosSafe' /\ PhotoNotLost'
  BY <1>2, <1>3, PhotosStay DEF Exists
<1> QED
  BY <1>5, <1>6, <1>7 DEF AccountInv

LEMMA RequireAuthKeeps ==
  ASSUME AccountInv, NEW r \in Request, NEW op \in Operation, NEW i \in Id, RequireAuth(r, op, i)
  PROVE  AccountInv'
<1> USE AccountAssumption
<1>1. users \in [Id -> User] /\ call \in [Request -> Call]
  BY DEF AccountInv, TypeOK
<1>2. PICK new : /\ new = [op |-> op, pc |-> IF op = "photo" THEN "put" ELSE "act",
                           id |-> i, phone |-> op = "link" /\ users[i].phone,
                           photo |-> IF op = "photo" THEN users[i].photo ELSE None,
                           key |-> None]
                 /\ call' = [call EXCEPT ![r] = new]
  BY DEF RequireAuth
<1>3. new \in Call
  <2>1. users[i].phone \in BOOLEAN /\ users[i].photo \in Key \cup {None, External}
    BY <1>1 DEF User
  <2>2. (op = "link" /\ users[i].phone) \in BOOLEAN
    OBVIOUS
  <2>3. (IF op = "photo" THEN users[i].photo ELSE None) \in Key \cup {None, External}
    BY <2>1
  <2>4. (IF op = "photo" THEN "put" ELSE "act") \in {"idle", "act", "put", "remove", "save"}
    OBVIOUS
  <2> QED
    BY <1>2, <2>2, <2>3, <2>4 DEF Call
<1>4. /\ new.id = i /\ new.key \notin Key /\ new.pc \in {"put", "act"}
      /\ new.photo \in Key => new.photo = users[i].photo
  BY <1>2
<1>5. /\ call' \in [Request -> Call] /\ call'[r] = new
      /\ \A q \in Request \ {r} : call'[q] = call[q]
  BY <1>1, <1>2, <1>3
<1>6. /\ UNCHANGED <<users, bucket, spent, dangling, named, owner, converted, faults>>
      /\ call[r].pc = "idle"
  BY DEF RequireAuth, store, At
<1>7. TypeOK' /\ UniqueRows'
  BY <1>5, <1>6 DEF AccountInv, TypeOK, UniqueRows, Unique, Exists
<1>8. CallsOK'
  BY <1>4, <1>5 DEF AccountInv, CallsOK
<1>9. PhotosApart'
  <2>1. Own' = Own
    BY <1>6 DEF Own
  <2>2. ASSUME NEW q \in Request, call'[q].photo \in Own, NEW j \in Id,
               users[j].photo = call'[q].photo
        PROVE  j = call'[q].id
    <3>1. CASE q = r
      <4>1. new.photo \in Own /\ new.photo = users[i].photo
        BY <1>4, <1>5, <2>2, <3>1 DEF Own
      <4> QED
        BY <1>4, <1>5, <2>2, <3>1, <4>1 DEF AccountInv, PhotosApart
    <3>2. CASE q # r
      BY <1>5, <2>2, <3>2 DEF AccountInv, PhotosApart
    <3> QED
      BY <3>1, <3>2
  <2> QED
    BY <1>6, <2>1, <2>2 DEF AccountInv, PhotosApart
<1>10. PhotosSpent'
  BY <1>4, <1>5, <1>6 DEF AccountInv, PhotosSpent
<1>11. NewPhotosSafe'
  BY <1>4, <1>5, <1>6 DEF AccountInv, NewPhotosSafe, Own
<1>12. PhotoNotLost'
  <2> SUFFICES ASSUME NEW j \in Id, Exists(j)', users'[j].photo \in Own \ bucket', j \notin dangling'
               PROVE  \E q \in Request : /\ call'[q].pc = "save" /\ call'[q].id = j
                                         /\ call'[q].photo = users'[j].photo
    BY <1>6 DEF PhotoNotLost, At, Own
  <2>1. PICK q \in Request : call[q].pc = "save" /\ call[q].id = j /\ call[q].photo = users[j].photo
    BY <1>6 DEF AccountInv, PhotoNotLost, Exists, At, Own
  <2> QED
    BY <1>5, <1>6, <2>1
<1> QED
  BY <1>7, <1>8, <1>9, <1>10, <1>11, <1>12 DEF AccountInv

LEMMA PutPhotoKeeps == ASSUME AccountInv, NEW r \in Request, PutPhoto(r) PROVE AccountInv'
<1> USE AccountAssumption
<1>1. PICK k \in Key \ spent :
        /\ bucket' = bucket \cup {k} /\ spent' = spent \cup {k}
        /\ call' = [call EXCEPT ![r].key = k,
                                ![r].pc = IF call[r].photo = None THEN "save" ELSE "remove"]
  BY DEF PutPhoto
<1>2. call \in [Request -> Call]
  BY DEF AccountInv, TypeOK
<1>3. /\ call' \in [Request -> Call]
      /\ call'[r].id = call[r].id /\ call'[r].photo = call[r].photo
      /\ call'[r].key = k /\ call'[r].pc \in {"save", "remove"}
      /\ \A q \in Request \ {r} : call'[q] = call[q]
  <2>1. PICK c : c = [call[r] EXCEPT !.key = k,
                        !.pc = IF call[r].photo = None THEN "save" ELSE "remove"]
    OBVIOUS
  <2>2. call[r] \in Call
    BY <1>2
  <2>3. /\ c \in Call /\ c.id = call[r].id /\ c.photo = call[r].photo
        /\ c.key = k /\ c.pc \in {"save", "remove"}
    BY <2>1, <2>2 DEF Call
  <2>4. call' = [call EXCEPT ![r] = c]
    BY <1>1, <1>2, <2>1
  <2> QED
    BY <1>2, <2>3, <2>4
<1>4. UNCHANGED <<users, dangling, named, owner, converted, faults>> /\ call[r].pc = "put"
  BY DEF PutPhoto, At
<1>5. call[r].id \in Id
  BY <1>4 DEF AccountInv, CallsOK
<1>6. TypeOK' /\ UniqueRows'
  BY <1>1, <1>3, <1>4 DEF AccountInv, TypeOK, UniqueRows, Unique, Exists
<1>7. CallsOK'
  BY <1>3, <1>5 DEF AccountInv, CallsOK
<1>8. PhotosApart'
  BY <1>3, <1>4 DEF AccountInv, PhotosApart, Own
<1>9. PhotosSpent'
  BY <1>1, <1>3, <1>4 DEF AccountInv, PhotosSpent
<1>10. /\ \A j \in Id : users[j].photo # k
       /\ \A q \in Request : call[q].photo # k /\ call[q].key # k
  BY <1>1 DEF AccountInv, PhotosSpent
<1>11. NewPhotosSafe'
  <2> SUFFICES ASSUME NEW p \in Request, call'[p].key \in Own
               PROVE  /\ call'[p].key \in bucket'
                      /\ \A j \in Id : users'[j].photo # call'[p].key
                      /\ \A q \in Request : call'[q].photo # call'[p].key
                      /\ \A q \in Request \ {p} : call'[q].key # call'[p].key
    BY <1>4 DEF NewPhotosSafe, Own
  <2>1. \A q \in Request : call'[q].photo = call[q].photo
    BY <1>3
  <2>2. CASE p = r
    BY <1>1, <1>3, <1>4, <1>10, <2>1, <2>2
  <2>3. CASE p # r
    BY <1>1, <1>3, <1>4, <1>10, <2>1, <2>3 DEF AccountInv, NewPhotosSafe
  <2> QED
    BY <2>2, <2>3
<1>12. PhotoNotLost'
  BY <1>1, <1>3, <1>4 DEF AccountInv, PhotoNotLost, Exists, At
<1> QED
  BY <1>6, <1>7, <1>8, <1>9, <1>11, <1>12 DEF AccountInv

LEMMA RemoveOldKeeps == ASSUME AccountInv, NEW r \in Request, RemoveOld(r) PROVE AccountInv'
<1> USE AccountAssumption
<1>1. call \in [Request -> Call] /\ call[r].pc = "remove"
  BY DEF AccountInv, TypeOK, RemoveOld, At
<1>2. call' = [call EXCEPT ![r].pc = "save"]
  BY DEF RemoveOld, Goto
<1>3. /\ call' \in [Request -> Call]
      /\ call'[r].id = call[r].id /\ call'[r].photo = call[r].photo
      /\ call'[r].key = call[r].key /\ call'[r].pc = "save"
      /\ \A q \in Request \ {r} : call'[q] = call[q]
  BY <1>1, <1>2 DEF Call
<1>4. UNCHANGED <<users, spent, dangling, named, owner, converted>>
  BY DEF RemoveOld
<1>5. bucket' \in {bucket, bucket \ {call[r].photo}} /\ faults' \in 0 .. MaxFaults
  BY DEF RemoveOld, Fault, AccountInv, TypeOK
<1>6. TypeOK' /\ UniqueRows'
  BY <1>3, <1>4, <1>5 DEF AccountInv, TypeOK, UniqueRows, Unique, Exists
<1>7. CallsOK'
  BY <1>1, <1>3 DEF AccountInv, CallsOK
<1>8. PhotosApart'
  <2>1. Own' = Own
    BY <1>4 DEF Own
  <2>2. \A q \in Request : call'[q].photo = call[q].photo /\ call'[q].id = call[q].id
    BY <1>3
  <2> QED
    BY <1>4, <2>1, <2>2 DEF AccountInv, PhotosApart
<1>9. NewPhotosSafe'
  <2> SUFFICES ASSUME NEW p \in Request, call'[p].key \in Own
               PROVE  /\ call'[p].key \in bucket'
                      /\ \A j \in Id : users'[j].photo # call'[p].key
                      /\ \A q \in Request : call'[q].photo # call'[p].key
                      /\ \A q \in Request \ {p} : call'[q].key # call'[p].key
    BY <1>4 DEF NewPhotosSafe, Own
  <2>1. \A q \in Request : call'[q].photo = call[q].photo /\ call'[q].key = call[q].key
    BY <1>3
  <2>2. call[p].key \in Own
    BY <2>1
  <2>3. /\ call[p].key \in bucket
        /\ \A j \in Id : users[j].photo # call[p].key
        /\ \A q \in Request : call[q].photo # call[p].key
        /\ \A q \in Request \ {p} : call[q].key # call[p].key
    BY <2>2 DEF AccountInv, NewPhotosSafe, Own
  <2> QED
    BY <1>4, <1>5, <2>1, <2>3
<1>10. PhotosSpent'
  BY <1>3, <1>4 DEF AccountInv, PhotosSpent
<1>11. PhotoNotLost'
  <2> SUFFICES ASSUME NEW i \in Id, Exists(i)', users'[i].photo \in Own \ bucket', i \notin dangling'
               PROVE  \E q \in Request : /\ call'[q].pc = "save" /\ call'[q].id = i
                                         /\ call'[q].photo = users'[i].photo
    BY <1>4 DEF PhotoNotLost, At, Own
  <2>1. CASE users[i].photo \in bucket
    <3>1. users[i].photo = call[r].photo /\ users[i].photo \in Own
      BY <1>4, <1>5, <2>1
    <3>2. i = call[r].id
      BY <3>1 DEF AccountInv, PhotosApart
    <3> QED
      BY <1>3, <1>4, <3>1, <3>2
  <2>2. CASE users[i].photo \notin bucket
    <3>1. PICK q \in Request : call[q].pc = "save" /\ call[q].id = i /\ call[q].photo = users[i].photo
      BY <1>4, <2>2 DEF AccountInv, PhotoNotLost, Exists, At, Own
    <3> QED
      BY <1>1, <1>3, <1>4, <3>1
  <2> QED
    BY <2>1, <2>2
<1> QED
  BY <1>6, <1>7, <1>8, <1>9, <1>10, <1>11 DEF AccountInv

\* The UPDATE cannot fail on an index, so it names the photo if the account is there.
LEMMA SavePhotoKeeps == ASSUME AccountInv, NEW r \in Request, SavePhoto(r) PROVE AccountInv'
<1> USE AccountAssumption
<1> DEFINE i == call[r].id
           k == call[r].key
<1>1. /\ i \in Id /\ k \in Key /\ call[r].pc = "save"
      /\ users \in [Id -> User]
  BY DEF SavePhoto, At, AccountInv, CallsOK, TypeOK
<1>2. PICK row : row = [users[i] EXCEPT !.photo = k]
  OBVIOUS
<1>3. /\ row \in User /\ row.there = users[i].there /\ row.photo = k
      /\ row.uid = users[i].uid /\ row.email = users[i].email
  BY <1>1, <1>2 DEF User
<1>4. UpdateProfile(i, row)
  BY <1>2 DEF SavePhoto
<1>5. Exists(i) => Unique(i, row)
  BY <1>1, <1>3 DEF AccountInv, UniqueRows, Unique
<1>6. /\ users' \in [Id -> User] /\ UniqueRows'
      /\ \A j \in Id : users'[j].there = users[j].there
      /\ \A j \in Id \ {i} : users'[j] = users[j]
      /\ users'[i] \in {users[i], row}
      /\ Exists(i) => users'[i] = row
  BY <1>1, <1>3, <1>4, <1>5, UpdateKeeps
<1>7. /\ UNCHANGED <<bucket, spent, named, owner, converted, faults>>
      /\ dangling' = dangling \ {i}
  BY DEF SavePhoto
<1>8. /\ call' \in [Request -> Call] /\ call'[r] = IdleCall
      /\ \A q \in Request \ {r} : call'[q] = call[q]
  BY ReturnKeeps DEF SavePhoto
<1>9. k \in Own =>
        /\ k \in bucket
        /\ \A j \in Id : users[j].photo # k
        /\ \A q \in Request : call[q].photo # k
        /\ \A q \in Request \ {r} : call[q].key # k
  BY <1>1 DEF AccountInv, NewPhotosSafe
<1>10. IdleCall.photo \notin Key /\ IdleCall.key \notin Key /\ IdleCall.pc = "idle"
  BY DEF IdleCall
<1>11. k \in spent
  BY <1>1 DEF AccountInv, PhotosSpent
<1>12. \A j \in Id : users'[j].photo = users[j].photo \/ (j = i /\ users'[j].photo = k)
  BY <1>3, <1>6
<1> HIDE DEF i, k
<1>13. TypeOK'
  BY <1>6, <1>7, <1>8 DEF AccountInv, TypeOK, Exists
<1>14. CallsOK'
  BY <1>8, <1>10 DEF AccountInv, CallsOK
<1>15. PhotosApart'
  <2>1. \A j \in Id : users'[j].photo \in Own =>
          \A h \in Id \ {j} : users'[h].photo # users'[j].photo
    BY <1>9, <1>12 DEF AccountInv, PhotosApart
  <2>2. \A q \in Request : call'[q].photo \in Own =>
          \A j \in Id : users'[j].photo = call'[q].photo => j = call'[q].id
    BY <1>8, <1>9, <1>10, <1>12 DEF AccountInv, PhotosApart, Own
  <2> QED
    BY <1>7, <2>1, <2>2 DEF PhotosApart, Own
<1>16. NewPhotosSafe'
  BY <1>7, <1>8, <1>9, <1>10, <1>12 DEF AccountInv, NewPhotosSafe, Own
<1>17. PhotosSpent'
  BY <1>7, <1>8, <1>10, <1>11, <1>12 DEF AccountInv, PhotosSpent
<1>18. PhotoNotLost'
  <2> SUFFICES ASSUME NEW j \in Id, Exists(j)', users'[j].photo \in Own \ bucket', j \notin dangling'
               PROVE  \E q \in Request : /\ call'[q].pc = "save" /\ call'[q].id = j
                                         /\ call'[q].photo = users'[j].photo
    BY <1>7 DEF PhotoNotLost, At, Own
  <2>1. Exists(j)
    BY <1>6 DEF Exists
  <2>2. j # i
    BY <1>3, <1>6, <1>7, <1>9, <2>1
  <2>3. users'[j] = users[j] /\ j \notin dangling
    BY <1>6, <1>7, <2>2
  <2>4. PICK q \in Request : call[q].pc = "save" /\ call[q].id = j /\ call[q].photo = users[j].photo
    BY <1>7, <2>1, <2>3 DEF AccountInv, PhotoNotLost, At, Own
  <2>5. q # r
    BY <2>2, <2>4 DEF i
  <2> QED
    BY <1>8, <2>3, <2>4, <2>5
<1> QED
  BY <1>6, <1>13, <1>14, <1>15, <1>16, <1>17, <1>18 DEF AccountInv

LEMMA FailsKeeps == ASSUME AccountInv, NEW r \in Request, Fails(r) PROVE AccountInv'
<1> USE AccountAssumption
<1>1. /\ UNCHANGED <<users, bucket, spent, named, owner, converted>>
      /\ call[r].pc # "idle"
      /\ dangling' = IF call[r].pc = "save" THEN dangling \cup {call[r].id} ELSE dangling
  BY DEF Fails, At
<1>2. faults' \in 0 .. MaxFaults
  BY DEF Fails, Fault, AccountInv, TypeOK
<1>3. call[r].id \in Id
  BY <1>1 DEF AccountInv, CallsOK
<1>4. /\ call' \in [Request -> Call] /\ call'[r] = IdleCall
      /\ \A q \in Request \ {r} : call'[q] = call[q]
  BY ReturnKeeps DEF Fails
<1>5. IdleCall.photo \notin Key /\ IdleCall.key \notin Key /\ IdleCall.pc = "idle"
  BY DEF IdleCall
<1>6. TypeOK' /\ UniqueRows'
  BY <1>1, <1>2, <1>3, <1>4 DEF AccountInv, TypeOK, UniqueRows, Unique, Exists
<1>7. CallsOK'
  BY <1>4, <1>5 DEF AccountInv, CallsOK
<1>8. PhotosApart' /\ PhotosSpent'
  <2>1. Own' = Own
    BY <1>1 DEF Own
  <2>2. \A q \in Request : call'[q] = call[q] \/ call'[q] = IdleCall
    BY <1>4
  <2>3. PhotosApart'
    BY <1>1, <1>5, <2>1, <2>2 DEF AccountInv, PhotosApart, Own
  <2>4. PhotosSpent'
    BY <1>1, <1>5, <2>2 DEF AccountInv, PhotosSpent
  <2> QED
    BY <2>3, <2>4
<1>9. NewPhotosSafe'
  BY <1>1, <1>4, <1>5 DEF AccountInv, NewPhotosSafe, Own
<1>10. PhotoNotLost'
  <2> SUFFICES ASSUME NEW j \in Id, Exists(j)', users'[j].photo \in Own \ bucket', j \notin dangling'
               PROVE  \E q \in Request : /\ call'[q].pc = "save" /\ call'[q].id = j
                                         /\ call'[q].photo = users'[j].photo
    BY <1>1 DEF PhotoNotLost, At, Own
  <2>1. PICK q \in Request : call[q].pc = "save" /\ call[q].id = j /\ call[q].photo = users[j].photo
    BY <1>1 DEF AccountInv, PhotoNotLost, Exists, At, Own
  <2>2. q # r
    BY <1>1, <2>1
  <2> QED
    BY <1>1, <1>4, <2>1, <2>2
<1> QED
  BY <1>6, <1>7, <1>8, <1>9, <1>10 DEF AccountInv

-----------------------------------------------------------------------------
(* Theorems *)

LEMMA StepKeeps == ASSUME AccountInv, [Next]_vars PROVE AccountInv'
<1>1. CASE UNCHANGED vars
  BY <1>1 DEF vars, store, AccountInv, TypeOK, CallsOK, UniqueRows, Unique, Exists, PhotosApart,
              PhotosSpent, NewPhotosSafe, PhotoNotLost, Own, At
<1>2. CASE \E u \in Uid : Verify(u) \/ Anonymous(u)
  BY <1>2, SignInKeeps
<1>3. ASSUME NEW r \in Request, NEW i \in Id,
             \/ \E op \in Operation : RequireRegisteredUser(r, op, i)
             \/ RequireAnonymousUser(r, i)
      PROVE  AccountInv'
  <2>1. \E op \in Operation : RequireAuth(r, op, i)
    BY <1>3 DEF RequireRegisteredUser, RequireAnonymousUser, Operation
  <2> QED
    BY <2>1, RequireAuthKeeps
<1>4. ASSUME NEW r \in Request,
             \/ UpdateMe(r) \/ DeleteMe(r) \/ Convert(r) \/ LinkBookings(r)
             \/ PutPhoto(r) \/ RemoveOld(r) \/ SavePhoto(r) \/ Fails(r)
      PROVE  AccountInv'
  BY <1>4, UpdateMeKeeps, DeleteMeKeeps, ConvertKeeps, LinkKeeps, PutPhotoKeeps,
     RemoveOldKeeps, SavePhotoKeeps, FailsKeeps
<1> QED
  BY <1>1, <1>2, <1>3, <1>4 DEF Next

\* The invariant holds for any number of accounts, calls, photos and failures.
THEOREM Invariance == Spec => []AccountInv
BY Initially, StepKeeps, PTL DEF Spec

\* No claimed booking belongs to an account that is gone.
THEOREM TypeCorrect == Spec => []TypeOK
<1>1. AccountInv => TypeOK
  BY DEF AccountInv
<1> QED
  BY <1>1, Invariance, PTL

\* Uploads of one account that race cannot leave it with a photo deleted by
\* another, unless an edit has named the key of that photo.
THEOREM PhotosNotLost == Spec => []PhotoNotLost
<1>1. AccountInv => PhotoNotLost
  BY DEF AccountInv
<1> QED
  BY <1>1, Invariance, PTL

\* A claimed booking changes hands only when its account is deleted.
THEOREM ClaimsStay == Spec => BookingsStay
<1>1. ASSUME AccountInv, [Next]_vars
      PROVE  [\A b \in Booking : owner[b] # None /\ owner'[b] # owner[b]
                => owner'[b] = None /\ users'[owner[b]].there = "deleted"]_vars
  <2> SUFFICES ASSUME Next, NEW b \in Booking, owner[b] # None, owner'[b] # owner[b]
               PROVE  owner'[b] = None /\ users'[owner[b]].there = "deleted"
    BY <1>1
  <2>1. ASSUME NEW r \in Request, DeleteMe(r)
        PROVE  owner'[b] = None /\ users'[owner[b]].there = "deleted"
    <3> DEFINE i == call[r].id
    <3>1. i \in Id /\ users \in [Id -> User]
      BY <1>1, <2>1 DEF DeleteMe, At, AccountInv, CallsOK, TypeOK
    <3>2. owner' = [c \in Booking |-> IF owner[c] = i THEN None ELSE owner[c]]
      BY <2>1 DEF DeleteMe
    <3>3. owner[b] = i /\ owner'[b] = None
      BY <3>2
    <3>4. users'[i].there = "deleted"
      BY <2>1, <3>1 DEF DeleteMe, NoUser
    <3> QED
      BY <3>3, <3>4
  <2>2. ASSUME NEW r \in Request, LinkBookings(r) PROVE FALSE
    BY <2>2 DEF LinkBookings
  <2>3. owner' # owner
    OBVIOUS
  <2>4. \E r \in Request : DeleteMe(r) \/ LinkBookings(r)
    BY <2>3 DEF Next, Verify, Anonymous, Upsert, RequireRegisteredUser, RequireAnonymousUser,
                RequireAuth, UpdateMe, Convert, PutPhoto, RemoveOld, SavePhoto, Fails
  <2> QED
    BY <2>1, <2>2, <2>4
<1> QED
  BY <1>1, Invariance, PTL DEF Spec, BookingsStay

-----------------------------------------------------------------------------
(* Conversions *)

\* The conversions of an account that have passed the look at it.
Converting(i) == {r \in Request : call[r].op = "convert" /\ At(r, "act") /\ call[r].id = i}

\* An anonymous account has seen no conversion, and of those that are over and
\* those that are on their way there are no more than calls.
ConversionInv ==
  \A i \in Id :
    /\ users[i].there = "absent" \/ users[i].anonymous => converted[i] = 0
    /\ converted[i] + Cardinality(Converting(i)) <= Cardinality(Request)

LEMMA ConvertingIsFinite ==
  \A i : /\ IsFiniteSet(Converting(i)) /\ Cardinality(Converting(i)) \in Nat
         /\ Cardinality(Converting(i)) <= Cardinality(Request)
BY AccountAssumption, FS_Subset, FS_CardinalityType DEF Converting

\* Where no conversion begins or ends as one, nothing is lost.
LEMMA OthersKeepConversions ==
  ASSUME AccountInv, ConversionInv, converted' = converted,
         \A i \in Id : Converting(i)' \subseteq Converting(i),
         \A i \in Id : users'[i].there = "absent" \/ users'[i].anonymous
                         => users[i].there = "absent" \/ users[i].anonymous
  PROVE  ConversionInv'
<1> SUFFICES ASSUME NEW i \in Id
             PROVE  /\ users'[i].there = "absent" \/ users'[i].anonymous => converted'[i] = 0
                    /\ converted'[i] + Cardinality(Converting(i)') <= Cardinality(Request)
  BY DEF ConversionInv
<1>1. Cardinality(Converting(i)') <= Cardinality(Converting(i))
  BY ConvertingIsFinite, FS_Subset
<1>2. Cardinality(Converting(i)') \in Nat /\ Cardinality(Converting(i)) \in Nat
  BY ConvertingIsFinite, FS_Subset, FS_CardinalityType
<1>3. converted[i] \in Nat /\ Cardinality(Request) \in Nat
  BY AccountAssumption, FS_CardinalityType DEF AccountInv, TypeOK
<1>4. converted[i] + Cardinality(Converting(i)) <= Cardinality(Request)
  BY DEF ConversionInv
<1>5. converted'[i] + Cardinality(Converting(i)') <= Cardinality(Request)
  BY <1>1, <1>2, <1>3, <1>4
<1> QED
  BY <1>5 DEF ConversionInv

\* A call that goes on, ends or begins as something else converts nothing more.
LEMMA NoNewConversion ==
  ASSUME AccountInv, NEW r \in Request,
         \A q \in Request \ {r} : call'[q] = call[q],
         call'[r].op # "convert" \/ call'[r].pc # "act"
  PROVE  \A i \in Id : Converting(i)' = Converting(i) \ {r}
BY DEF Converting, At

LEMMA SignInKeepsConversions ==
  ASSUME AccountInv, ConversionInv, NEW u \in Uid, Verify(u) \/ Anonymous(u)
  PROVE  ConversionInv'
<1>1. \E row : Upsert(row)
  BY DEF Verify, Anonymous
<1>2. PICK i \in Id : \E row : users[i].there = "absent" /\ users' = [users EXCEPT ![i] = row]
  BY <1>1 DEF Upsert, Insert
<1>3. converted' = converted /\ call' = call
  BY <1>1 DEF Upsert
<1>4. \A j \in Id : users'[j].there = "absent" \/ users'[j].anonymous
                      => users[j].there = "absent" \/ users[j].anonymous
  BY <1>2 DEF AccountInv, TypeOK
<1>5. \A j \in Id : Converting(j)' \subseteq Converting(j)
  BY <1>3 DEF Converting, At
<1> QED
  BY <1>3, <1>4, <1>5, OthersKeepConversions

LEMMA ConvertCounts ==
  ASSUME AccountInv, ConversionInv, NEW r \in Request, Convert(r)
  PROVE  ConversionInv'
<1>0. PICK i : i = call[r].id
  OBVIOUS
<1>1. /\ i \in Id /\ users \in [Id -> User] /\ converted \in [Id -> Nat]
      /\ r \in Converting(i)
  BY <1>0 DEF Convert, At, AccountInv, CallsOK, TypeOK, Converting
<1>2. PICK row : /\ ~row.anonymous /\ row.there = users[i].there
                 /\ UpdateProfile(i, row)
                 /\ converted' = IF Exists(i) /\ Unique(i, row)
                                 THEN [converted EXCEPT ![i] = @ + 1] ELSE converted
  <2> DEFINE j == call[r].id
  <2>1. PICK u \in Uid \cup {users[j].uid}, e \in Email \cup {users[j].email},
             p \in {users[j].photo, External}, t \in {users[j].phone, TRUE} :
           LET new == [users[j] EXCEPT !.uid = u, !.anonymous = FALSE, !.email = e,
                                       !.photo = p, !.phone = t]
           IN  /\ UpdateProfile(j, new)
               /\ converted' = IF Exists(j) /\ Unique(j, new)
                               THEN [converted EXCEPT ![j] = @ + 1] ELSE converted
    BY DEF Convert
  <2> DEFINE new == [users[j] EXCEPT !.uid = u, !.anonymous = FALSE, !.email = e,
                                     !.photo = p, !.phone = t]
  <2>2. ~new.anonymous /\ new.there = users[j].there
    BY <1>0, <1>1 DEF User
  <2>3. /\ UpdateProfile(j, new)
        /\ converted' = IF Exists(j) /\ Unique(j, new)
                        THEN [converted EXCEPT ![j] = @ + 1] ELSE converted
    BY <2>1
  <2> HIDE DEF new
  <2>4. j = i
    BY <1>0
  <2> HIDE DEF j
  <2> QED
    BY <2>2, <2>3, <2>4
<1>3. call'[r] = IdleCall /\ \A q \in Request \ {r} : call'[q] = call[q]
  BY ReturnKeeps DEF Convert
<1>4. \A j \in Id : Converting(j)' = Converting(j) \ {r}
  BY <1>3, NoNewConversion DEF IdleCall
<1>5. CASE ~(Exists(i) /\ Unique(i, row))
  <2>1. users' = users /\ converted' = converted
    BY <1>2, <1>5 DEF UpdateProfile
  <2> QED
    BY <1>4, <2>1, OthersKeepConversions
<1>6. CASE Exists(i) /\ Unique(i, row)
  <2>1. /\ users' = [users EXCEPT ![i] = row]
        /\ converted' = [converted EXCEPT ![i] = converted[i] + 1]
    BY <1>2, <1>6 DEF UpdateProfile
  <2>2. /\ users'[i] = row /\ converted'[i] = converted[i] + 1
        /\ \A j \in Id \ {i} : users'[j] = users[j] /\ converted'[j] = converted[j]
    BY <1>1, <2>1
  <2>3. Cardinality(Converting(i)') = Cardinality(Converting(i)) - 1
    <3>1. Converting(i)' = Converting(i) \ {r}
      BY <1>1, <1>4
    <3>2. Cardinality(Converting(i) \ {r}) = Cardinality(Converting(i)) - 1
      BY <1>1, ConvertingIsFinite, FS_RemoveElement
    <3> QED
      BY <3>1, <3>2
  <2>4. \A j \in Id : /\ Cardinality(Converting(j)') <= Cardinality(Converting(j))
                      /\ Cardinality(Converting(j)') \in Nat
    BY <1>4, ConvertingIsFinite, FS_Subset, FS_CardinalityType
  <2>5. \A j \in Id : Cardinality(Converting(j)) \in Nat
    BY ConvertingIsFinite
  <2>6. Cardinality(Request) \in Nat
    BY AccountAssumption, FS_CardinalityType
  <2>7. \A j \in Id : converted[j] + Cardinality(Converting(j)) <= Cardinality(Request)
    BY DEF ConversionInv
  <2>8. \A j \in Id : converted'[j] + Cardinality(Converting(j)') <= Cardinality(Request)
    <3>1. converted'[i] + Cardinality(Converting(i)') <= Cardinality(Request)
      BY <1>1, <2>2, <2>3, <2>5, <2>6, <2>7
    <3>2. ASSUME NEW j \in Id \ {i}
          PROVE  converted'[j] + Cardinality(Converting(j)') <= Cardinality(Request)
      <4>1. converted'[j] = converted[j] /\ converted[j] \in Nat
        BY <1>1, <2>2
      <4> QED
        BY <2>4, <2>5, <2>6, <2>7, <4>1
    <3> QED
      BY <3>1, <3>2
  <2>9. \A j \in Id : users'[j].there = "absent" \/ users'[j].anonymous => converted'[j] = 0
    <3>1. ~row.anonymous /\ row.there # "absent"
      BY <1>2, <1>6 DEF Exists
    <3>2. ~(users'[i].there = "absent" \/ users'[i].anonymous)
      BY <2>2, <3>1
    <3>3. ASSUME NEW j \in Id \ {i}
          PROVE  users'[j].there = "absent" \/ users'[j].anonymous => converted'[j] = 0
      <4>1. users'[j] = users[j] /\ converted'[j] = converted[j]
        BY <2>2
      <4>2. users[j].there = "absent" \/ users[j].anonymous => converted[j] = 0
        BY DEF ConversionInv
      <4> QED
        BY <4>1, <4>2
    <3> QED
      BY <3>2, <3>3
  <2> QED
    BY <2>8, <2>9 DEF ConversionInv
<1> QED
  BY <1>5, <1>6

\* An edit leaves the row as anonymous as it is.
LEMMA EditKeepsConversions ==
  ASSUME AccountInv, ConversionInv, NEW r \in Request, NEW row,
         users[call[r].id] \in User => /\ row \in User
                                       /\ row.there = users[call[r].id].there
                                       /\ row.anonymous = users[call[r].id].anonymous,
         call[r].id \in Id, UpdateProfile(call[r].id, row), Return(r), UNCHANGED converted
  PROVE  ConversionInv'
<1>1. users \in [Id -> User]
  BY DEF AccountInv, TypeOK
<1>2. \A j \in Id : /\ users'[j].there = users[j].there
                    /\ users'[j].anonymous = users[j].anonymous
  BY <1>1 DEF UpdateProfile
<1>3. call'[r] = IdleCall /\ \A q \in Request \ {r} : call'[q] = call[q]
  BY ReturnKeeps
<1>4. \A j \in Id : Converting(j)' = Converting(j) \ {r}
  BY <1>3, NoNewConversion DEF IdleCall
<1> QED
  BY <1>2, <1>4, OthersKeepConversions

LEMMA RequireAuthCounts ==
  ASSUME AccountInv, ConversionInv, NEW r \in Request, NEW op \in Operation, NEW i \in Id,
         RequireAuth(r, op, i), op = "convert" => users[i].anonymous
  PROVE  ConversionInv'
<1>1. PICK new : /\ new.op = op /\ new.id = i
                 /\ call' = [call EXCEPT ![r] = new]
  <2>1. PICK c : /\ c = [op |-> op, pc |-> IF op = "photo" THEN "put" ELSE "act",
                         id |-> i, phone |-> op = "link" /\ users[i].phone,
                         photo |-> IF op = "photo" THEN users[i].photo ELSE None,
                         key |-> None]
                 /\ call' = [call EXCEPT ![r] = c]
    BY DEF RequireAuth
  <2>2. c.op = op /\ c.id = i
    BY <2>1
  <2> QED
    BY <2>1, <2>2
<1>2. call'[r] = new /\ \A q \in Request \ {r} : call'[q] = call[q]
  BY <1>1 DEF AccountInv, TypeOK
<1>3. users' = users /\ converted' = converted
  BY DEF RequireAuth
<1>4. CASE op # "convert"
  <2>1. \A j \in Id : Converting(j)' = Converting(j) \ {r}
    BY <1>1, <1>2, <1>4, NoNewConversion
  <2> QED
    BY <1>3, <2>1, OthersKeepConversions
<1>5. CASE op = "convert"
  <2>1. converted[i] = 0
    BY <1>5 DEF ConversionInv
  <2>2. \A j \in Id \ {i} : Converting(j)' \subseteq Converting(j)
    BY <1>1, <1>2 DEF Converting, At
  <2>3. IsFiniteSet(Request) /\ Cardinality(Request) \in Nat
    BY AccountAssumption, FS_CardinalityType
  <2>4. /\ Cardinality(Converting(i)') <= Cardinality(Request)
        /\ Cardinality(Converting(i)') \in Nat
    <3>1. Converting(i)' \subseteq Request
      BY DEF Converting
    <3> QED
      BY <2>3, <3>1, FS_Subset, FS_CardinalityType
  <2>5. ASSUME NEW j \in Id \ {i}
        PROVE  converted'[j] + Cardinality(Converting(j)') <= Cardinality(Request)
    <3>1. /\ Cardinality(Converting(j)') <= Cardinality(Converting(j))
          /\ Cardinality(Converting(j)') \in Nat /\ Cardinality(Converting(j)) \in Nat
      BY <2>2, ConvertingIsFinite, FS_Subset, FS_CardinalityType
    <3>2. converted[j] \in Nat /\ converted[j] + Cardinality(Converting(j)) <= Cardinality(Request)
      BY DEF AccountInv, TypeOK, ConversionInv
    <3> QED
      BY <1>3, <2>3, <3>1, <3>2
  <2>6. converted'[i] + Cardinality(Converting(i)') <= Cardinality(Request)
    BY <1>3, <2>1, <2>3, <2>4
  <2> QED
    BY <1>3, <2>5, <2>6 DEF ConversionInv
<1> QED
  BY <1>4, <1>5

LEMMA StepKeepsConversions ==
  ASSUME AccountInv, ConversionInv, [Next]_vars PROVE ConversionInv'
<1>1. CASE UNCHANGED vars
  BY <1>1 DEF vars, ConversionInv, Converting, At
<1>2. CASE \E u \in Uid : Verify(u) \/ Anonymous(u)
  BY <1>2, SignInKeepsConversions
<1>3. ASSUME NEW r \in Request, NEW i \in Id,
             \/ \E op \in Operation : RequireRegisteredUser(r, op, i)
             \/ RequireAnonymousUser(r, i)
      PROVE  ConversionInv'
  <2>1. \E op \in Operation : RequireAuth(r, op, i) /\ (op = "convert" => users[i].anonymous)
    BY <1>3 DEF RequireRegisteredUser, RequireAnonymousUser, Operation
  <2> QED
    BY <2>1, RequireAuthCounts
<1>4. ASSUME NEW r \in Request, UpdateMe(r) \/ SavePhoto(r) PROVE ConversionInv'
  <2>1. call[r].id \in Id
    BY <1>4 DEF UpdateMe, SavePhoto, At, AccountInv, CallsOK
  <2>2. Return(r) /\ UNCHANGED converted
    BY <1>4 DEF UpdateMe, SavePhoto
  <2>3. \E row \in User : /\ row.there = users[call[r].id].there
                         /\ row.anonymous = users[call[r].id].anonymous
                         /\ UpdateProfile(call[r].id, row)
    <3>1. CASE UpdateMe(r)
      BY <3>1, EditedRow
    <3>2. CASE SavePhoto(r)
      <4>1. call[r].key \in Key /\ users[call[r].id] \in User
        BY <2>1, <3>2 DEF SavePhoto, At, AccountInv, CallsOK, TypeOK
      <4>2. PICK row : row = [users[call[r].id] EXCEPT !.photo = call[r].key]
        OBVIOUS
      <4>3. /\ row \in User /\ row.there = users[call[r].id].there
            /\ row.anonymous = users[call[r].id].anonymous
        BY <4>1, <4>2 DEF User
      <4> QED
        BY <3>2, <4>2, <4>3 DEF SavePhoto
    <3> QED
      BY <1>4, <3>1, <3>2
  <2> QED
    BY <2>1, <2>2, <2>3, EditKeepsConversions
<1>5. ASSUME NEW r \in Request, DeleteMe(r) PROVE ConversionInv'
  <2>1. /\ users' = [users EXCEPT ![call[r].id] = [NoUser EXCEPT !.there = "deleted"]]
        /\ converted' = converted
    BY <1>5 DEF DeleteMe
  <2>2. \A j \in Id : users'[j].there = "absent" \/ users'[j].anonymous
                        => users[j].there = "absent" \/ users[j].anonymous
    BY <2>1 DEF NoUser, AccountInv, TypeOK
  <2>3. call'[r] = IdleCall /\ \A q \in Request \ {r} : call'[q] = call[q]
    BY <1>5, ReturnKeeps DEF DeleteMe
  <2>4. \A j \in Id : Converting(j)' = Converting(j) \ {r}
    BY <2>3, NoNewConversion DEF IdleCall
  <2> QED
    BY <2>1, <2>2, <2>4, OthersKeepConversions
<1>6. ASSUME NEW r \in Request, Convert(r) PROVE ConversionInv'
  BY <1>6, ConvertCounts
<1>7. ASSUME NEW r \in Request,
             LinkBookings(r) \/ PutPhoto(r) \/ RemoveOld(r) \/ Fails(r)
      PROVE  ConversionInv'
  <2>1. users' = users /\ converted' = converted
    BY <1>7 DEF LinkBookings, PutPhoto, RemoveOld, Fails
  <2>2. call \in [Request -> Call]
    BY DEF AccountInv, TypeOK
  <2>3. /\ \A q \in Request \ {r} : call'[q] = call[q]
        /\ call'[r].pc # "act"
    <3>1. CASE LinkBookings(r) \/ Fails(r)
      BY <3>1, ReturnKeeps DEF LinkBookings, Fails, IdleCall
    <3>2. CASE PutPhoto(r)
      BY <2>2, <3>2 DEF PutPhoto, Call
    <3>3. CASE RemoveOld(r)
      BY <2>2, <3>3 DEF RemoveOld, Goto, Call
    <3> QED
      BY <1>7, <3>1, <3>2, <3>3
  <2>4. \A j \in Id : Converting(j)' = Converting(j) \ {r}
    BY <2>3, NoNewConversion
  <2> QED
    BY <2>1, <2>4, OthersKeepConversions
<1> QED
  BY <1>1, <1>2, <1>3, <1>4, <1>5, <1>6, <1>7 DEF Next

\* An account is not converted more often than there are calls at one time.
THEOREM ConversionsBounded == Spec => []ConversionsAreBounded
<1>1. Init => ConversionInv
  <2> SUFFICES ASSUME Init, NEW i \in Id
               PROVE  converted[i] = 0 /\ Cardinality(Converting(i)) <= Cardinality(Request)
    BY ConvertingIsFinite DEF ConversionInv
  <2> QED
    BY ConvertingIsFinite DEF Init
<1>2. AccountInv /\ ConversionInv => ConversionsAreBounded
  <2> SUFFICES ASSUME AccountInv, ConversionInv, NEW i \in Id
               PROVE  converted[i] <= Cardinality(Request)
    BY DEF ConversionsAreBounded
  <2>1. /\ converted[i] \in Nat /\ Cardinality(Converting(i)) \in Nat
        /\ Cardinality(Request) \in Nat
    BY ConvertingIsFinite, AccountAssumption, FS_CardinalityType DEF AccountInv, TypeOK
  <2> QED
    BY <2>1 DEF ConversionInv
<1> QED
  BY <1>1, <1>2, Invariance, StepKeepsConversions, PTL DEF Spec

=============================================================================
