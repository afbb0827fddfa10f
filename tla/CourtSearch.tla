---------------------------- MODULE CourtSearch ----------------------------
(***************************************************************************)
(* The courts and the two ways of finding them: the search in PostgreSQL,  *)
(* and the suggestions from an index in Redis, which knows of a change to  *)
(* the courts only when an administrator has it rebuilt.                   *)
(*                                                                         *)
(* The index is a sorted set of terms with court ids and a hash of the     *)
(* names; a rebuild reads all courts, deletes both and adds court after    *)
(* court, in pipelines that are no transactions, and nothing keeps two     *)
(* rebuilds apart.  Every step is one command.                             *)
(***************************************************************************)
EXTENDS Naturals, Sequences, FiniteSets

CONSTANTS
  Court,      \* ids of courts
  Name,       \* terms that are names of courts
  District,   \* terms that are districts
  Word,       \* words a user types
  Starts,     \* [terms -> SUBSET Word]: the words the term has at its start
  Inside,     \* [terms -> SUBSET Word]: the words it has anywhere
  Short,      \* terms of less than two characters
  Piped,      \* terms with a "|" in them
  Limit,      \* most suggestions, 10 in the program
  Admin,      \* concurrent rebuilds
  Client,     \* concurrent searches
  MaxFaults,  \* bound on failed commands
  MaxChanges, \* bound on changes of courts
  None

Term == Name \cup District

ASSUME SearchAssumption ==
  /\ \A t \in Term : Starts[t] \subseteq Inside[t] /\ Inside[t] \subseteq Word
  /\ Short \cup Piped \subseteq Term
  /\ None \notin Court \cup Name
  /\ Court \cap (Piped \X Court) = {}  \* the ids, UUIDs, have no "|" in them
  /\ Limit \in Nat \ {0} /\ MaxFaults \in Nat /\ MaxChanges \in Nat

VARIABLES
  courts,     \* the table: [Court -> its terms, the name first, or <<>>]
  entries,    \* search:autocomplete: <<term, court>>
  names,      \* search:courts: [Court -> Name or None]
  task,       \* what each rebuild does
  client,     \* what each search does
  tainted,    \* a court, a command or another rebuild came between since the last read
  torn,       \* a pipeline was halfway when the index was last deleted
  faults,
  changes

bounds == <<faults, changes>>
index == <<entries, names, torn>>
vars == <<courts, index, task, client, tainted, bounds>>

Row == {<<n>> : n \in Name} \cup (Name \X District)

Task == [pc : {"idle", "clear", "next", "terms"}, todo : [Court -> Row \cup {<<>>}],
         at : Court \cup {None}, terms : UNION {[1 .. n -> Term] : n \in 0 .. 2}]

IdleTask == [pc |-> "idle", todo |-> [c \in Court |-> <<>>], at |-> None, terms |-> <<>>]

\* What the entry of a term with a "|" names is no court.
Suggestion == Court \cup (Piped \X Court)

Search == [words : SUBSET Word, found : SUBSET Suggestion, stale : BOOLEAN]

IdleSearch == [words |-> {}, found |-> {}, stale |-> FALSE]

\* Rows, index and calls have their types, and only terms of two characters or
\* more are in the index.
TypeOK ==
  /\ courts \in [Court -> Row \cup {<<>>}]
  /\ entries \subseteq (Term \ Short) \X Court
  /\ names \in [Court -> Name \cup {None}]
  /\ task \in [Admin -> Task]
  /\ client \in [Client -> Search]
  /\ tainted \in BOOLEAN /\ torn \in BOOLEAN
  /\ faults \in 0 .. MaxFaults /\ changes \in 0 .. MaxChanges

\* There may be courts when the server is first started.
Init ==
  /\ courts \in [Court -> Row \cup {<<>>}]
  /\ entries = {} /\ names = [c \in Court |-> None]
  /\ task = [i \in Admin |-> IdleTask]
  /\ client = [r \in Client |-> IdleSearch]
  /\ tainted = TRUE /\ torn = FALSE
  /\ faults = 0 /\ changes = 0

Fault == faults < MaxFaults /\ faults' = faults + 1

-----------------------------------------------------------------------------
(* The courts.  None of these operations touches the index. *)

ChangeCourt(c, row) ==
  /\ changes < MaxChanges /\ changes' = changes + 1
  /\ courts' = [courts EXCEPT ![c] = row]
  /\ tainted' = TRUE
  /\ UNCHANGED <<index, task, client, faults>>

Insert(c, row) == courts[c] = <<>> /\ ChangeCourt(c, row)

\* Of an id that is not there the handler gets no row, and panics on it.
UpdateRow(c, row) == courts[c] # <<>> /\ ChangeCourt(c, row)

Create(c) == \E n \in Name, d \in District : Insert(c, <<n>>) \/ Insert(c, <<n, d>>)

\* What can be changed includes the name but not the district.
Update(c) == \E n \in Name : UpdateRow(c, [courts[c] EXCEPT ![1] = n])

Delete(c) == courts[c] # <<>> /\ ChangeCourt(c, <<>>)

-----------------------------------------------------------------------------
(* Rebuilding the index *)

AtStep(i, l) == task[i].pc = l

\* GetAllCourtNames: one SELECT.
Reindex(i) ==
  /\ AtStep(i, "idle")
  /\ task' = [task EXCEPT ![i].pc = "clear", ![i].todo = courts]
  /\ tainted' = \E j \in Admin \ {i} : ~AtStep(j, "idle")
  /\ UNCHANGED <<courts, index, client, bounds>>

Deleted(i) ==
  /\ AtStep(i, "clear")
  /\ torn' = \E j \in Admin : AtStep(j, "terms")
  /\ task' = [task EXCEPT ![i].pc = "next"]
  /\ client' = [r \in Client |-> [client[r] EXCEPT !.stale = client[r].words # {}]]
  /\ UNCHANGED <<courts, tainted, bounds>>

\* Mutants of ClearAutocomplete: one of the keys is left.
ClearTerms(i) == Deleted(i) /\ entries' = {} /\ UNCHANGED names

ClearNames(i) == Deleted(i) /\ names' = [c \in Court |-> None] /\ UNCHANGED entries

\* One DEL of both keys.
ClearAutocomplete(i) ==
  Deleted(i) /\ entries' = {} /\ names' = [c \in Court |-> None]

\* Mutant of LongTerms: no term is too short.
AllTerms(row) == row

\* A term of one character is left out.
Long(t) == IF t \in Short THEN <<>> ELSE <<t>>

LongTerms(row) == Long(row[1]) \o (IF Len(row) = 2 THEN Long(row[2]) ELSE <<>>)

EndPipeline(i) == [task EXCEPT ![i].pc = "next", ![i].at = None, ![i].terms = <<>>]

\* The next court's pipeline with its commands: HSET, and a ZADD for every term.
Pipeline(i, c) ==
  LET terms == LongTerms(task[i].todo[c])
  IN  /\ AtStep(i, "next") /\ task[i].todo[c] # <<>>
      /\ task' = [task EXCEPT ![i] = [pc |-> IF terms = <<>> THEN "next" ELSE "terms",
                                      todo |-> [@.todo EXCEPT ![c] = <<>>],
                                      at |-> IF terms = <<>> THEN None ELSE c, terms |-> terms]]

\* Mutant of AddCourt: the name is kept only if it is a term of the index itself.
AddCourtLongName(i, c) ==
  /\ Pipeline(i, c)
  /\ names' = [names EXCEPT ![c] = IF task[i].todo[c][1] \in Short THEN @ ELSE task[i].todo[c][1]]
  /\ UNCHANGED <<courts, entries, torn, client, tainted, bounds>>

AddCourt(i, c) ==
  /\ Pipeline(i, c)
  /\ names' = [names EXCEPT ![c] = task[i].todo[c][1]]
  /\ UNCHANGED <<courts, entries, torn, client, tainted, bounds>>

AddTerm(i) ==
  /\ AtStep(i, "terms")
  /\ entries' = entries \cup {<<Head(task[i].terms), task[i].at>>}
  /\ task' = IF Len(task[i].terms) = 1 THEN EndPipeline(i)
             ELSE [task EXCEPT ![i].terms = Tail(@)]
  /\ UNCHANGED <<courts, names, torn, client, tainted, bounds>>

Reindexed(i) ==
  /\ AtStep(i, "next") /\ \A c \in Court : task[i].todo[c] = <<>>
  /\ task' = [task EXCEPT ![i] = IdleTask]
  /\ UNCHANGED <<courts, index, client, tainted, bounds>>

\* Errors are ignored: a DEL, or what is left of a pipeline, does not happen, or
\* nothing does any more, since the request has been abandoned.
ReindexFails(i) ==
  /\ ~AtStep(i, "idle") /\ Fault
  /\ tainted' = TRUE
  /\ \/ /\ ~AtStep(i, "next")
        /\ task' = EndPipeline(i)
     \/ \E c \in Court :
          /\ AtStep(i, "next") /\ task[i].todo[c] # <<>>
          /\ task' = [task EXCEPT ![i].todo[c] = <<>>]
     \/ task' = [task EXCEPT ![i] = IdleTask]
  /\ UNCHANGED <<courts, index, client, changes>>

-----------------------------------------------------------------------------
(* Suggestions *)

\* SplitN(member, "|", 2): of a term with a "|" the part behind it is taken for
\* the id with it; what is before it still begins with the same words.
CourtOf(e) == IF e[1] \in Piped THEN e ELSE e[2]

TermsOf(c) == {e[1] : e \in {f \in entries : CourtOf(f) = c}}

\* Every word typed must begin a term of the court.
AllMatch(c, words) == \A w \in words : \E t \in TermsOf(c) : w \in Starts[t]

\* Mutant of Collect: the limit is looked at after the next court is taken.
CollectOneMore(order, words) ==
  LET taken[k \in 0 .. Len(order)] ==
        IF k = 0 THEN {}
        ELSE IF Cardinality(taken[k - 1]) > Limit THEN taken[k - 1]
        ELSE IF AllMatch(order[k], words) THEN taken[k - 1] \cup {order[k]}
        ELSE taken[k - 1]
  IN  taken[Len(order)]

\* The loop over the map, whose order is any, leaves off when it has enough.
Collect(order, words) ==
  LET taken[k \in 0 .. Len(order)] ==
        IF k = 0 THEN {}
        ELSE IF Cardinality(taken[k - 1]) >= Limit THEN taken[k - 1]
        ELSE IF AllMatch(order[k], words) THEN taken[k - 1] \cup {order[k]}
        ELSE taken[k - 1]
  IN  taken[Len(order)]

Orders(S) ==
  {f \in [1 .. Cardinality(S) -> S] : \A a, b \in DOMAIN f : f[a] = f[b] => a = b}

\* ZREVRANGE and the loop; without a match the answer is empty.  The empty set
\* of words stands for less than two characters, for which nothing is asked.
SearchAutocomplete(r, words) ==
  /\ client[r].words = {} /\ words # {}
  /\ \E order \in Orders({CourtOf(e) : e \in entries}) :
       /\ Collect(order, words) # {}
       /\ client' = [client EXCEPT ![r].words = words, ![r].found = Collect(order, words)]
  /\ UNCHANGED <<courts, index, task, tainted, bounds>>

\* HMGET: what has no name is shown with its id, and what a term with a "|" is
\* taken for is no field of the hash.
NameOf(c) == IF c \in Court THEN names[c] ELSE None

\* The answer, or an error.
Suggest(r) ==
  /\ client[r].words # {}
  /\ client' = [client EXCEPT ![r] = IdleSearch]
  /\ UNCHANGED <<courts, index, task, tainted, bounds>>

-----------------------------------------------------------------------------
(* The search *)

\* ILIKE '%w%' on name and district.
SearchResult(w) == {c \in Court : \E k \in DOMAIN courts[c] : w \in Inside[courts[c][k]]}

-----------------------------------------------------------------------------

Next ==
  \/ \E c \in Court : Create(c) \/ Update(c) \/ Delete(c)
  \/ \E i \in Admin :
       \/ Reindex(i) \/ ClearAutocomplete(i) \/ AddTerm(i)
       \/ Reindexed(i) \/ ReindexFails(i)
       \/ \E c \in Court : AddCourt(i, c)
  \/ \E r \in Client :
       \/ \E words \in SUBSET Word : SearchAutocomplete(r, words)
       \/ Suggest(r)

Spec == Init /\ [][Next]_vars

-----------------------------------------------------------------------------
(* Properties *)

Quiet == ~tainted /\ \A i \in Admin : AtStep(i, "idle")

\* When a rebuild has ended that no error, no other rebuild and no change of a
\* court has come between, the index holds every court under each of its terms
\* and with its name, and nothing else: nothing of an index before it is left.
IndexIsExact ==
  Quiet =>
    /\ entries = {e \in (Term \ Short) \X Court : \E k \in DOMAIN courts[e[2]] : courts[e[2]][k] = e[1]}
    /\ \A c \in Court : names[c] = IF courts[c] = <<>> THEN None ELSE courts[c][1]

\* An id is shown instead of a name in three cases only: the suggestion comes from
\* a term with a "|", and then it is so in any index; the index was deleted while
\* the answer was made; or it was deleted while another rebuild was adding.
SuggestionsAreNamed ==
  /\ ~torn => \A e \in entries : names[e[2]] # None
  /\ \A r \in Client : \A c \in client[r].found :
       NameOf(c) = None => c \in Piped \X Court \/ client[r].stale \/ torn

\* A suggestion is made of courts that match every word, as many of them as there
\* are up to the limit, in whatever order the map is gone through.
SuggestionsMatch ==
  [][\A r \in Client :
       client[r].words = {} /\ client'[r].words # {} =>
         LET all == {c \in Suggestion : AllMatch(c, client'[r].words)}
             found == client'[r].found
         IN  /\ found \subseteq all
             /\ Cardinality(found) = IF Cardinality(all) < Limit THEN Cardinality(all) ELSE Limit]_vars

\* The two searches agree: the courts that an exact index suggests for a word, the
\* search finds.  What a term with a "|" is taken for is no court.
SuggestedIsFound ==
  Quiet => \A w \in Word, c \in Court : AllMatch(c, {w}) => c \in SearchResult(w)

=============================================================================
