-------------------------- MODULE CourtSearchProofs --------------------------
(***************************************************************************)
(* The index, the suggestions made from it and the loop that collects      *)
(* them, for any courts, terms and words, rebuilds, searches and failures. *)
(***************************************************************************)
EXTENDS CourtSearch, FiniteSetTheorems, SequenceTheorems, WellFoundedInduction, TLAPS

-----------------------------------------------------------------------------
(* Rows and terms *)

Terms == UNION {[1 .. n -> Term] : n \in 0 .. 2}

In(t, s) == \E k \in DOMAIN s : s[k] = t

LEMMA TermsCases ==
  ASSUME NEW s \in Terms
  PROVE  \/ s = <<>>
         \/ \E t \in Term : s = <<t>>
         \/ \E t, u \in Term : s = <<t, u>>
<1>1. PICK n \in 0 .. 2 : s \in [1 .. n -> Term]
  BY DEF Terms
<1>2. CASE n = 0
  BY <1>1, <1>2
<1>3. CASE n = 1
  <2>1. s[1] \in Term /\ s = <<s[1]>>
    BY <1>1, <1>3
  <2> QED
    BY <2>1
<1>4. CASE n = 2
  <2>1. s[1] \in Term /\ s[2] \in Term /\ s = <<s[1], s[2]>>
    BY <1>1, <1>4
  <2> QED
    BY <2>1
<1> QED
  BY <1>2, <1>3, <1>4

LEMMA IsTerms ==
  /\ <<>> \in Terms
  /\ \A t \in Term : <<t>> \in Terms
  /\ \A t, u \in Term : <<t, u>> \in Terms
<1>1. <<>> \in [1 .. 0 -> Term]
  OBVIOUS
<1>2. ASSUME NEW t \in Term PROVE <<t>> \in [1 .. 1 -> Term]
  OBVIOUS
<1>3. ASSUME NEW t \in Term, NEW u \in Term PROVE <<t, u>> \in [1 .. 2 -> Term]
  OBVIOUS
<1>4. 0 \in 0 .. 2 /\ 1 \in 0 .. 2 /\ 2 \in 0 .. 2
  OBVIOUS
<1> QED
  BY <1>1, <1>2, <1>3, <1>4 DEF Terms

LEMMA InTuple ==
  /\ \A t : ~In(t, <<>>)
  /\ \A s, t : In(t, <<s>>) <=> t = s
  /\ \A s, u, t : In(t, <<s, u>>) <=> t = s \/ t = u
BY DEF In

LEMMA HeadTail ==
  ASSUME NEW s \in Terms, s # <<>>
  PROVE  /\ Head(s) \in Term
         /\ Len(s) = 1 => \A t : In(t, s) <=> t = Head(s)
         /\ Len(s) # 1 => /\ Tail(s) \in Terms /\ Tail(s) # <<>>
                          /\ \A t : In(t, s) <=> t = Head(s) \/ In(t, Tail(s))
<1>1. CASE \E t \in Term : s = <<t>>
  <2>1. PICK t \in Term : s = <<t>>
    BY <1>1
  <2>2. Head(s) = t /\ Len(s) = 1
    BY <2>1
  <2> QED
    BY <2>1, <2>2, InTuple
<1>2. CASE \E t, u \in Term : s = <<t, u>>
  <2>1. PICK t \in Term, u \in Term : s = <<t, u>>
    BY <1>2
  <2>2. Head(s) = t /\ Len(s) = 2 /\ Tail(s) = <<u>>
    BY <2>1
  <2>3. <<u>> # <<>>
    OBVIOUS
  <2> QED
    BY <2>1, <2>2, <2>3, InTuple, IsTerms
<1> QED
  BY <1>1, <1>2, TermsCases

LEMMA RowCases ==
  ASSUME NEW row \in Row
  PROVE  \/ \E n \in Name : row = <<n>>
         \/ \E n \in Name, d \in District : row = <<n, d>>
BY DEF Row

\* A row begins with a name, and its terms of two characters are what is left of it.
LEMMA RowTerms ==
  ASSUME NEW row \in Row
  PROVE  /\ row # <<>> /\ row[1] \in Name
         /\ LongTerms(row) \in Terms
         /\ \A t : In(t, row) => t \in Term
         /\ \A t : In(t, LongTerms(row)) <=> t \notin Short /\ In(t, row)
<1>1. CASE \E n \in Name : row = <<n>>
  <2>1. PICK n \in Name : row = <<n>>
    BY <1>1
  <2>2. LongTerms(row) = IF n \in Short THEN <<>> ELSE <<n>>
    BY <2>1 DEF LongTerms, Long
  <2>3. n \in Term
    BY DEF Term
  <2> QED
    BY <2>1, <2>2, <2>3, InTuple, IsTerms
<1>2. CASE \E n \in Name, d \in District : row = <<n, d>>
  <2>1. PICK n \in Name, d \in District : row = <<n, d>>
    BY <1>2
  <2>2. LongTerms(row) = IF n \in Short THEN IF d \in Short THEN <<>> ELSE <<d>>
                         ELSE IF d \in Short THEN <<n>> ELSE <<n, d>>
    <3>1. LongTerms(row) = Long(n) \o Long(d)
      BY <2>1 DEF LongTerms
    <3>2. \A s \in Seq(Term) : <<>> \o s = s /\ s \o <<>> = s
      BY ConcatEmptySeq
    <3>3. <<n>> \in Seq(Term) /\ <<d>> \in Seq(Term) /\ <<>> \in Seq(Term)
      BY DEF Term
    <3>4. <<n>> \o <<d>> = <<n, d>>
      <4>1. <<n, d>> \in Seq(Term)
        BY DEF Term
      <4>2. PICK a, b, c : a = <<n>> /\ b = <<d>> /\ c = <<n, d>>
        OBVIOUS
      <4>3. a \in Seq(Term) /\ b \in Seq(Term) /\ c \in Seq(Term)
        BY <3>3, <4>1, <4>2
      <4>4. /\ Len(a) = 1 /\ Len(b) = 1 /\ a[1] = n /\ b[1] = d
            /\ Len(c) = 2 /\ c[1] = n /\ c[2] = d
        <5>1. Len(a) = 1 /\ a[1] = n
          BY <4>2
        <5>2. Len(b) = 1 /\ b[1] = d
          BY <4>2
        <5>3. Len(c) = 2 /\ c[1] = n /\ c[2] = d
          BY <4>2
        <5> QED
          BY <5>1, <5>2, <5>3
      <4>5. a \o b \in Seq(Term) /\ Len(a \o b) = 2 /\ (a \o b)[1] = n /\ (a \o b)[2] = d
        <5>1. /\ a \o b \in Seq(Term) /\ Len(a \o b) = Len(a) + Len(b)
              /\ \A k \in 1 .. Len(a) + Len(b) :
                   (a \o b)[k] = IF k <= Len(a) THEN a[k] ELSE b[k - Len(a)]
          BY <4>3, ConcatProperties
        <5>2. PICK e : e = a \o b
          OBVIOUS
        <5>3. /\ e \in Seq(Term) /\ Len(e) = 2
              /\ \A k \in 1 .. 2 : e[k] = IF k <= 1 THEN a[k] ELSE b[k - 1]
          BY <4>4, <5>1, <5>2
        <5>4. e[1] = n /\ e[2] = d
          BY <4>4, <5>3
        <5> QED
          BY <5>2, <5>3, <5>4
      <4>6. \A k \in 1 .. Len(c) : (a \o b)[k] = c[k]
        BY <4>4, <4>5
      <4>7. a \o b = c
        BY <4>3, <4>4, <4>5, <4>6, SeqEqual
      <4> QED
        BY <4>2, <4>7
    <3> QED
      BY <3>1, <3>2, <3>3, <3>4 DEF Long
  <2>3. n \in Term /\ d \in Term
    BY DEF Term
  <2> QED
    BY <2>1, <2>2, <2>3, InTuple, IsTerms
<1> QED
  BY <1>1, <1>2, RowCases

-----------------------------------------------------------------------------
(* The loop *)

LEMMA Induction ==
  ASSUME NEW n \in Nat, NEW T, 0 \in T, \A k \in 0 .. n : k \in T /\ k < n => k + 1 \in T
  PROVE  \A k \in 0 .. n : k \in T
<1> DEFINE U == 0 .. n \ T
<1>1. ASSUME U # {} PROVE FALSE
  <2>1. U \subseteq Nat
    OBVIOUS
  <2>2. PICK k \in U : \A y \in U : ~ (<<y, k>> \in OpToRel(<, Nat))
    BY <1>1, <2>1, NatLessThanWellFounded, WFMin
  <2>3. k \in 0 .. n /\ k \notin T /\ k # 0
    BY <2>2
  <2>4. k \in Nat /\ k - 1 \in Nat /\ k - 1 \in 0 .. n /\ k - 1 < k /\ k - 1 < n /\ (k - 1) + 1 = k
    BY <2>3
  <2>5. <<k - 1, k>> \in OpToRel(<, Nat)
    BY <2>4 DEF OpToRel
  <2>6. k - 1 \in T
    BY <2>2, <2>4, <2>5
  <2> QED
    BY <2>3, <2>4, <2>6
<1> QED
  BY <1>1

Iteration(g, k, order, words) ==
  IF k = 0 THEN {}
  ELSE IF Cardinality(g[k - 1]) >= Limit THEN g[k - 1]
  ELSE IF AllMatch(order[k], words) THEN g[k - 1] \cup {order[k]}
  ELSE g[k - 1]

\* The loop ends: there is a function that its recursion defines.
LEMMA LoopExists ==
  ASSUME NEW n \in Nat, NEW order, NEW words
  PROVE  \E g : g = [k \in 0 .. n |-> Iteration(g, k, order, words)]
<1> DEFINE D(m) == \E g : g = [k \in 0 .. m |-> Iteration(g, k, order, words)]
           T == {m \in 0 .. n : D(m)}
<1>1. D(0)
  <2>1. PICK g : g = [k \in 0 .. 0 |-> {}]
    OBVIOUS
  <2>2. g = [k \in 0 .. 0 |-> Iteration(g, k, order, words)]
    BY <2>1 DEF Iteration
  <2> QED
    BY <2>2
<1>2. ASSUME NEW m \in 0 .. n, D(m), m < n PROVE D(m + 1)
  <2>1. PICK g : g = [k \in 0 .. m |-> Iteration(g, k, order, words)]
    BY <1>2
  <2>2. PICK h : h = [k \in 0 .. m + 1 |-> IF k = m + 1 THEN Iteration(g, k, order, words) ELSE g[k]]
    OBVIOUS
  <2>3. ASSUME NEW k \in 0 .. m + 1 PROVE h[k] = Iteration(h, k, order, words)
    <3>1. k = 0 \/ h[k - 1] = g[k - 1]
      BY <2>2, <2>3
    <3>2. Iteration(h, k, order, words) = Iteration(g, k, order, words)
      BY <3>1 DEF Iteration
    <3>3. h[k] = Iteration(g, k, order, words)
      <4>1. CASE k = m + 1
        BY <2>2, <4>1
      <4>2. CASE k # m + 1
        <5>1. k \in 0 .. m
          BY <2>3, <4>2
        <5>2. g[k] = Iteration(g, k, order, words)
          BY <2>1, <5>1
        <5> QED
          BY <2>2, <2>3, <4>2, <5>2
      <4> QED
        BY <4>1, <4>2
    <3> QED
      BY <3>2, <3>3
  <2>4. h = [k \in 0 .. m + 1 |-> h[k]]
    BY <2>2
  <2>5. h = [k \in 0 .. m + 1 |-> Iteration(h, k, order, words)]
    BY <2>3, <2>4
  <2> QED
    BY <2>5
<1> HIDE DEF D
<1>3. \A k \in 0 .. n : k \in T
  <2>1. 0 \in T
    BY <1>1
  <2>2. \A k \in 0 .. n : k \in T /\ k < n => k + 1 \in T
    BY <1>2
  <2> HIDE DEF T
  <2> QED
    BY <2>1, <2>2, Induction
<1>4. D(n)
  BY <1>3
<1> QED
  BY <1>4 DEF D

LEMMA CollectIsLoop ==
  ASSUME NEW order, NEW words, Len(order) \in Nat
  PROVE  \E g : /\ \A k \in 0 .. Len(order) : g[k] = Iteration(g, k, order, words)
                /\ Collect(order, words) = g[Len(order)]
<1> DEFINE taken[k \in 0 .. Len(order)] ==
             IF k = 0 THEN {}
             ELSE IF Cardinality(taken[k - 1]) >= Limit THEN taken[k - 1]
             ELSE IF AllMatch(order[k], words) THEN taken[k - 1] \cup {order[k]}
             ELSE taken[k - 1]
<1>1. Collect(order, words) = taken[Len(order)]
  BY Zenon DEF Collect
<1>2. \E g : g = [k \in 0 .. Len(order) |->
                    IF k = 0 THEN {}
                    ELSE IF Cardinality(g[k - 1]) >= Limit THEN g[k - 1]
                    ELSE IF AllMatch(order[k], words) THEN g[k - 1] \cup {order[k]}
                    ELSE g[k - 1]]
  <2>1. PICK n \in Nat : n = Len(order)
    OBVIOUS
  <2>2. PICK g : g = [k \in 0 .. n |-> Iteration(g, k, order, words)]
    BY LoopExists
  <2> QED
    BY <2>1, <2>2, Zenon DEF Iteration
<1>3. taken = [k \in 0 .. Len(order) |->
                 IF k = 0 THEN {}
                 ELSE IF Cardinality(taken[k - 1]) >= Limit THEN taken[k - 1]
                 ELSE IF AllMatch(order[k], words) THEN taken[k - 1] \cup {order[k]}
                 ELSE taken[k - 1]]
  BY <1>2, Zenon
<1> HIDE DEF taken
<1>4. taken = [k \in 0 .. Len(order) |-> Iteration(taken, k, order, words)]
  BY <1>3 DEF Iteration
<1>5. \A k \in 0 .. Len(order) : taken[k] = Iteration(taken, k, order, words)
  <2> DEFINE f == [k \in 0 .. Len(order) |-> Iteration(taken, k, order, words)]
  <2>1. \A k \in 0 .. Len(order) : f[k] = Iteration(taken, k, order, words)
    OBVIOUS
  <2>2. taken = f
    BY <1>4
  <2> HIDE DEF f
  <2> QED
    BY <2>1, <2>2
<1> QED
  BY <1>1, <1>5

\* The members of S are all in an order of S.
LEMMA OrderOK ==
  ASSUME NEW S, IsFiniteSet(S), NEW order \in Orders(S)
  PROVE  /\ Len(order) = Cardinality(S) /\ Len(order) \in Nat
         /\ \A k \in 1 .. Len(order) : order[k] \in S
         /\ \A c \in S : \E k \in 1 .. Len(order) : order[k] = c
<1>1. Cardinality(S) \in Nat
  BY FS_CardinalityType
<1>2. PICK n \in Nat : n = Cardinality(S)
  BY <1>1
<1>3. order \in [1 .. n -> S] /\ \A a, b \in 1 .. n : order[a] = order[b] => a = b
  BY <1>2 DEF Orders
<1>4. Len(order) = n
  BY <1>3
<1>5. IsFiniteSet(1 .. n) /\ Cardinality(1 .. n) = n
  BY FS_Interval
<1>6. order \in Injection(1 .. n, S)
  BY <1>3 DEF Injection, IsInjective
<1>7. order \in Surjection(1 .. n, S)
  BY <1>2, <1>5, <1>6, FS_Injection
<1> QED
  BY <1>2, <1>3, <1>4, <1>7 DEF Surjection

\* The loop takes matching members of S, as many as there are up to the limit.
LEMMA CollectOK ==
  ASSUME NEW S, IsFiniteSet(S), NEW order \in Orders(S), NEW words
  PROVE  LET all == {c \in S : AllMatch(c, words)}
         IN  /\ Collect(order, words) \subseteq all
             /\ Cardinality(Collect(order, words))
                  = IF Cardinality(all) < Limit THEN Cardinality(all) ELSE Limit
<1> DEFINE all == {c \in S : AllMatch(c, words)}
           Seen(k) == {c \in S : AllMatch(c, words) /\ \E m \in 1 .. k : order[m] = c}
<1>0. PICK n \in Nat : n = Len(order)
  BY OrderOK
<1>1. PICK g : /\ \A k \in 0 .. n : g[k] = Iteration(g, k, order, words)
               /\ Collect(order, words) = g[n]
  BY <1>0, CollectIsLoop
<1> DEFINE J(k) == /\ g[k] \subseteq Seen(k) /\ IsFiniteSet(g[k]) /\ Cardinality(g[k]) <= Limit
                   /\ Cardinality(g[k]) < Limit => g[k] = Seen(k)
           T == {k \in 0 .. n : J(k)}
<1>2. J(0)
  <2>0. 0 \in 0 .. n
    OBVIOUS
  <2>1. g[0] = {}
    BY <1>1, <2>0 DEF Iteration
  <2>2. Seen(0) = {}
    OBVIOUS
  <2>3. Limit \in Nat
    BY SearchAssumption
  <2> HIDE DEF Seen
  <2> QED
    BY <2>1, <2>2, <2>3, FS_EmptySet
<1>3. ASSUME NEW k \in 0 .. n, J(k), k < n PROVE J(k + 1)
  <2>1. k + 1 \in 0 .. n /\ (k + 1) - 1 = k /\ k + 1 # 0 /\ k + 1 \in 1 .. n
    BY <1>3
  <2>2. g[k + 1] = IF Cardinality(g[k]) >= Limit THEN g[k]
                   ELSE IF AllMatch(order[k + 1], words) THEN g[k] \cup {order[k + 1]}
                   ELSE g[k]
    BY <1>1, <2>1 DEF Iteration
  <2>3. order[k + 1] \in S
    BY <1>0, <2>1, OrderOK
  <2>4. Seen(k + 1) = IF AllMatch(order[k + 1], words) THEN Seen(k) \cup {order[k + 1]} ELSE Seen(k)
    <3>1. \A m : m \in 1 .. k + 1 <=> m \in 1 .. k \/ m = k + 1
      BY <2>1
    <3> QED
      BY <2>3, <3>1
  <2>5. Limit \in Nat /\ Cardinality(g[k]) \in Nat
    BY <1>3, FS_CardinalityType, SearchAssumption
  <2> HIDE DEF Seen
  <2>6. CASE Cardinality(g[k]) >= Limit
    <3>1. g[k + 1] = g[k] /\ g[k + 1] \subseteq Seen(k + 1)
      BY <1>3, <2>2, <2>4, <2>6
    <3> QED
      BY <1>3, <2>5, <2>6, <3>1
  <2>7. CASE Cardinality(g[k]) < Limit
    <3>0. g[k] = Seen(k) /\ IsFiniteSet(g[k])
      BY <1>3, <2>7
    <3>1. g[k + 1] = Seen(k + 1)
      <4>1. ~(Cardinality(g[k]) >= Limit)
        BY <2>5, <2>7
      <4> QED
        BY <2>2, <2>4, <3>0, <4>1
    <3>2. g[k + 1] = g[k] \/ g[k + 1] = g[k] \cup {order[k + 1]}
      BY <2>2
    <3>3. IsFiniteSet(g[k + 1]) /\ Cardinality(g[k + 1]) <= Cardinality(g[k]) + 1
      <4>1. PICK Q, x : Q = g[k] /\ x = order[k + 1]
        OBVIOUS
      <4>2. /\ IsFiniteSet(Q \cup {x})
            /\ Cardinality(Q \cup {x}) = IF x \in Q THEN Cardinality(Q) ELSE Cardinality(Q) + 1
        BY <3>0, <4>1, FS_AddElement
      <4> QED
        BY <2>5, <3>0, <3>2, <4>1, <4>2
    <3>4. Cardinality(g[k + 1]) \in Nat
      BY <3>3, FS_CardinalityType
    <3> QED
      BY <2>5, <2>7, <3>1, <3>3, <3>4
  <2> QED
    BY <2>5, <2>6, <2>7
<1> HIDE DEF J
<1>4. \A k \in 0 .. n : k \in T
  <2>1. 0 \in T
    BY <1>2
  <2>2. \A k \in 0 .. n : k \in T /\ k < n => k + 1 \in T
    BY <1>3
  <2> HIDE DEF T
  <2> QED
    BY <2>1, <2>2, Induction
<1>5. J(n)
  BY <1>4
<1>6. Seen(n) = all
  BY <1>0, OrderOK
<1> HIDE DEF Seen
<1>7. /\ g[n] \subseteq all /\ IsFiniteSet(g[n]) /\ Cardinality(g[n]) <= Limit
      /\ Cardinality(g[n]) < Limit => g[n] = all
  BY <1>5, <1>6 DEF J
<1>8. IsFiniteSet(all)
  BY FS_Subset
<1> HIDE DEF all
<1>9. /\ Cardinality(g[n]) \in Nat /\ Cardinality(all) \in Nat /\ Limit \in Nat
      /\ Cardinality(g[n]) <= Cardinality(all)
  BY <1>7, <1>8, FS_CardinalityType, FS_Subset, SearchAssumption
<1>10. Cardinality(g[n]) = IF Cardinality(all) < Limit THEN Cardinality(all) ELSE Limit
  BY <1>7, <1>9
<1> QED
  BY <1>1, <1>7, <1>10 DEF all

-----------------------------------------------------------------------------
(* The invariant *)

\* What a rebuild is about at each of its steps.
TaskOK ==
  \A i \in Admin :
    /\ AtStep(i, "terms") => /\ task[i].at \in Court /\ task[i].terms # <<>>
                             /\ \A t \in Short : ~In(t, task[i].terms)
    /\ ~AtStep(i, "terms") => task[i].terms = <<>>

\* How far the rebuild has come: the courts not yet taken are those still to do,
\* and what is not yet in the index of those taken is what its pipeline still holds.
Built(i) ==
  \A c \in Court :
    /\ task[i].todo[c] \in {<<>>, courts[c]}
    /\ names[c] = IF task[i].todo[c] = courts[c] THEN None ELSE courts[c][1]
    /\ \A t \in Term :
         <<t, c>> \in entries \/ (AtStep(i, "terms") /\ c = task[i].at /\ In(t, task[i].terms))
           <=> task[i].todo[c] # courts[c] /\ t \notin Short /\ In(t, courts[c])

\* A rebuild that nothing came between is the only one.
Sole == ~tainted => \A i, j \in Admin : AtStep(i, "idle") \/ AtStep(j, "idle") \/ i = j

Progress ==
  ~tainted => \A i \in Admin :
    /\ AtStep(i, "clear") => task[i].todo = courts
    /\ AtStep(i, "next") \/ AtStep(i, "terms") => Built(i)

\* Until a pipeline is cut in two by a DEL, what is in the index has a name.
Named ==
  ~torn => /\ \A e \in entries : names[e[2]] # None
           /\ \A i \in Admin : AtStep(i, "terms") => names[task[i].at] # None

Answers ==
  \A r \in Client :
    /\ client[r].words = {} => client[r].found = {}
    /\ \A c \in Court : c \in client[r].found => names[c] # None \/ torn \/ client[r].stale

SearchInv ==
  /\ TypeOK /\ IsFiniteSet(entries)
  /\ TaskOK /\ Sole /\ Progress /\ Named /\ Answers /\ IndexIsExact

-----------------------------------------------------------------------------
(* What a step makes of a rebuild *)

Is(v, p, d, a, s) == v \in [pc : {p}, todo : {d}, at : {a}, terms : {s}]

Moved(i, p, d, a, s) ==
  /\ task' \in [Admin -> Task]
  /\ task'[i].pc = p /\ task'[i].todo = d /\ task'[i].at = a /\ task'[i].terms = s
  /\ \A j \in Admin : j # i => task'[j] = task[j]

LEMMA TaskFields ==
  ASSUME TypeOK, NEW i \in Admin
  PROVE  /\ task[i] \in Task /\ task[i].pc \in {"idle", "clear", "next", "terms"}
         /\ task[i].todo \in [Court -> Row \cup {<<>>}]
         /\ task[i].at \in Court \cup {None} /\ task[i].terms \in Terms
<1>1. task[i] \in Task
  BY DEF TypeOK
<1> QED
  BY <1>1 DEF Task, Terms

LEMMA Moving ==
  ASSUME TypeOK, NEW i \in Admin,
         NEW p \in {"idle", "clear", "next", "terms"}, NEW d \in [Court -> Row \cup {<<>>}],
         NEW a \in Court \cup {None}, NEW s \in Terms,
         NEW v, Is(v, p, d, a, s), task' = [task EXCEPT ![i] = v]
  PROVE  Moved(i, p, d, a, s)
<1>1. v \in Task /\ v.pc = p /\ v.todo = d /\ v.at = a /\ v.terms = s
  BY DEF Is, Task, Terms
<1>2. task \in [Admin -> Task]
  BY DEF TypeOK
<1>3. task' \in [Admin -> Task] /\ task'[i] = v /\ \A j \in Admin : j # i => task'[j] = task[j]
  BY <1>1, <1>2
<1> QED
  BY <1>1, <1>3 DEF Moved

LEMMA TaskPc ==
  ASSUME NEW r \in Task, NEW p, NEW v, v = [r EXCEPT !.pc = p]
  PROVE  Is(v, p, r.todo, r.at, r.terms)
BY DEF Task, Is

LEMMA TaskStart ==
  ASSUME NEW r \in Task, NEW p, NEW d, NEW v, v = [r EXCEPT !.pc = p, !.todo = d]
  PROVE  Is(v, p, d, r.at, r.terms)
BY DEF Task, Is

LEMMA TaskTodo ==
  ASSUME NEW r \in Task, NEW d, NEW v, v = [r EXCEPT !.todo = d]
  PROVE  Is(v, r.pc, d, r.at, r.terms)
BY DEF Task, Is

LEMMA TaskTail ==
  ASSUME NEW r \in Task, NEW s, NEW v, v = [r EXCEPT !.terms = s]
  PROVE  Is(v, r.pc, r.todo, r.at, s)
BY DEF Task, Is

LEMMA TaskEnd ==
  ASSUME NEW r \in Task, NEW p, NEW a, NEW s, NEW v, v = [r EXCEPT !.pc = p, !.at = a, !.terms = s]
  PROVE  Is(v, p, r.todo, a, s)
BY DEF Task, Is

LEMMA EmptyTodo == [c \in Court |-> <<>>] \in [Court -> Row \cup {<<>>}]
OBVIOUS

LEMMA ReindexMoves ==
  ASSUME TypeOK, NEW i \in Admin, Reindex(i)
  PROVE  Moved(i, "clear", courts, task[i].at, task[i].terms)
<1>1. PICK v : v = [task[i] EXCEPT !.pc = "clear", !.todo = courts]
  OBVIOUS
<1>2. task' = [task EXCEPT ![i] = v]
  BY <1>1 DEF Reindex, TypeOK
<1>3. courts \in [Court -> Row \cup {<<>>}]
  BY DEF TypeOK
<1>4. Is(v, "clear", courts, task[i].at, task[i].terms)
  BY <1>1, TaskFields, TaskStart
<1> QED
  BY <1>2, <1>3, <1>4, TaskFields, Moving

LEMMA ClearMoves ==
  ASSUME TypeOK, NEW i \in Admin, ClearAutocomplete(i)
  PROVE  Moved(i, "next", task[i].todo, task[i].at, task[i].terms)
<1>1. PICK v : v = [task[i] EXCEPT !.pc = "next"]
  OBVIOUS
<1>2. task' = [task EXCEPT ![i] = v]
  BY <1>1 DEF ClearAutocomplete, Deleted, TypeOK
<1>3. Is(v, "next", task[i].todo, task[i].at, task[i].terms)
  BY <1>1, TaskFields, TaskPc
<1> QED
  BY <1>2, <1>3, TaskFields, Moving

LEMMA AddCourtMoves ==
  ASSUME TypeOK, NEW i \in Admin, NEW c \in Court, AddCourt(i, c)
  PROVE  LET terms == LongTerms(task[i].todo[c])
         IN  /\ task[i].todo[c] \in Row
             /\ Moved(i, IF terms = <<>> THEN "next" ELSE "terms",
                      [task[i].todo EXCEPT ![c] = <<>>],
                      IF terms = <<>> THEN None ELSE c, terms)
<1> DEFINE terms == LongTerms(task[i].todo[c])
           d == [task[i].todo EXCEPT ![c] = <<>>]
           p == IF terms = <<>> THEN "next" ELSE "terms"
           a == IF terms = <<>> THEN None ELSE c
           v == [pc |-> p, todo |-> d, at |-> a, terms |-> terms]
<1>1. task[i].todo[c] \in Row
  BY TaskFields DEF AddCourt, Pipeline
<1>2. terms \in Terms
  BY <1>1, RowTerms
<1>3. d \in [Court -> Row \cup {<<>>}]
  BY TaskFields
<1>4. p \in {"idle", "clear", "next", "terms"} /\ a \in Court \cup {None}
  OBVIOUS
<1>5. task' = [task EXCEPT ![i] = v]
  BY DEF AddCourt, Pipeline, TypeOK
<1> HIDE DEF terms, d, p, a
<1>6. Is(v, p, d, a, terms)
  BY DEF Is
<1> HIDE DEF v
<1>7. Moved(i, p, d, a, terms)
  BY <1>2, <1>3, <1>4, <1>5, <1>6, Moving
<1> QED
  BY <1>1, <1>7 DEF terms, d, p, a

LEMMA EndMoves ==
  ASSUME TypeOK, NEW i \in Admin, task' = EndPipeline(i)
  PROVE  Moved(i, "next", task[i].todo, None, <<>>)
<1>1. PICK v : v = [task[i] EXCEPT !.pc = "next", !.at = None, !.terms = <<>>]
  OBVIOUS
<1>2. task' = [task EXCEPT ![i] = v]
  BY <1>1 DEF EndPipeline, TypeOK
<1>3. Is(v, "next", task[i].todo, None, <<>>)
  BY <1>1, TaskFields, TaskEnd
<1> QED
  BY <1>2, <1>3, TaskFields, IsTerms, Moving

LEMMA IdleMoves ==
  ASSUME TypeOK, NEW i \in Admin, task' = [task EXCEPT ![i] = IdleTask]
  PROVE  Moved(i, "idle", [c \in Court |-> <<>>], None, <<>>)
<1>1. Is(IdleTask, "idle", [c \in Court |-> <<>>], None, <<>>)
  BY DEF IdleTask, Is
<1> QED
  BY <1>1, EmptyTodo, IsTerms, Moving

LEMMA AddTermMoves ==
  ASSUME TypeOK, TaskOK, NEW i \in Admin, AddTerm(i)
  PROVE  /\ Len(task[i].terms) = 1 => Moved(i, "next", task[i].todo, None, <<>>)
         /\ Len(task[i].terms) # 1 => Moved(i, "terms", task[i].todo, task[i].at, Tail(task[i].terms))
<1>1. task[i].terms # <<>> /\ task[i].pc = "terms"
  BY DEF AddTerm, TaskOK, AtStep
<1>2. CASE Len(task[i].terms) = 1
  BY <1>2, EndMoves DEF AddTerm
<1>3. CASE Len(task[i].terms) # 1
  <2>1. Tail(task[i].terms) \in Terms
    BY <1>1, <1>3, TaskFields, HeadTail
  <2>2. PICK v : v = [task[i] EXCEPT !.terms = Tail(task[i].terms)]
    OBVIOUS
  <2>3. task' = [task EXCEPT ![i] = v]
    BY <1>3, <2>2 DEF AddTerm, TypeOK
  <2>4. Is(v, "terms", task[i].todo, task[i].at, Tail(task[i].terms))
    BY <1>1, <2>2, TaskFields, TaskTail
  <2> QED
    BY <1>3, <2>1, <2>3, <2>4, TaskFields, Moving
<1> QED
  BY <1>2, <1>3

LEMMA ReindexFailsMoves ==
  ASSUME TypeOK, TaskOK, NEW i \in Admin, ReindexFails(i)
  PROVE  \/ \E d, a : Moved(i, "next", d, a, <<>>)
         \/ \E d, a : Moved(i, "idle", d, a, <<>>)
<1>1. CASE task' = EndPipeline(i)
  BY <1>1, EndMoves
<1>2. CASE task' = [task EXCEPT ![i] = IdleTask]
  BY <1>2, IdleMoves
<1>3. ASSUME NEW c \in Court, AtStep(i, "next"), task' = [task EXCEPT ![i].todo[c] = <<>>]
      PROVE  \E d, a : Moved(i, "next", d, a, <<>>)
  <2>1. PICK d : d = [task[i].todo EXCEPT ![c] = <<>>]
    OBVIOUS
  <2>2. d \in [Court -> Row \cup {<<>>}]
    BY <2>1, TaskFields
  <2>3. task[i].pc = "next" /\ task[i].terms = <<>>
    BY <1>3 DEF AtStep, TaskOK
  <2>4. PICK v : v = [task[i] EXCEPT !.todo = d]
    OBVIOUS
  <2>5. task' = [task EXCEPT ![i] = v]
    BY <1>3, <2>1, <2>4 DEF TypeOK
  <2>6. Is(v, "next", d, task[i].at, <<>>)
    BY <2>3, <2>4, TaskFields, TaskTodo
  <2> QED
    BY <2>2, <2>5, <2>6, TaskFields, IsTerms, Moving
<1> QED
  BY <1>1, <1>2, <1>3 DEF ReindexFails

-----------------------------------------------------------------------------
(* Every step keeps the invariant *)

\* What IndexIsExact says of a quiet index.
Exact ==
  /\ entries = {e \in (Term \ Short) \X Court : \E k \in DOMAIN courts[e[2]] : courts[e[2]][k] = e[1]}
  /\ \A c \in Court : names[c] = IF courts[c] = <<>> THEN None ELSE courts[c][1]

\* A step of one rebuild: what is left to show of it.
LEMMA MovedKeeps ==
  ASSUME SearchInv, NEW i \in Admin, NEW p, NEW d, NEW a, NEW s, Moved(i, p, d, a, s),
         TypeOK', IsFiniteSet(entries)', Named', Answers',
         p = "terms" => a \in Court /\ s # <<>> /\ \A t \in Short : ~In(t, s),
         p # "terms" => s = <<>>,
         tainted' \/ \A j \in Admin : j # i => task[j].pc = "idle",
         tainted' \/ p = "idle" \/ (p = "clear" /\ d = courts') \/ Built(i)',
         tainted' \/ p # "idle" \/ Exact',
         p = "clear" => d = courts'
  PROVE  SearchInv'
<1>1. TaskOK'
  <2> SUFFICES ASSUME NEW j \in Admin
               PROVE  /\ task'[j].pc = "terms" => /\ task'[j].at \in Court /\ task'[j].terms # <<>>
                                                  /\ \A t \in Short : ~In(t, task'[j].terms)
                      /\ task'[j].pc # "terms" => task'[j].terms = <<>>
    BY DEF TaskOK, AtStep
  <2> QED
    BY DEF SearchInv, TaskOK, AtStep, Moved
<1>2. Sole'
  BY DEF Sole, AtStep, Moved
<1>3. Progress'
  <2> SUFFICES ASSUME ~tainted', NEW j \in Admin
               PROVE  /\ task'[j].pc = "clear" => task'[j].todo = courts'
                      /\ task'[j].pc = "next" \/ task'[j].pc = "terms" => Built(j)'
    BY DEF Progress, AtStep
  <2>1. CASE j = i
    BY <2>1 DEF Moved
  <2>2. CASE j # i
    BY <2>2 DEF Moved
  <2> QED
    BY <2>1, <2>2
<1>4. IndexIsExact'
  <2> SUFFICES ASSUME Quiet' PROVE Exact'
    BY DEF IndexIsExact, Exact
  <2> QED
    BY DEF Quiet, AtStep, Moved
<1> QED
  BY <1>1, <1>2, <1>3, <1>4 DEF SearchInv

LEMMA InitiallyInv == Init => SearchInv
<1> SUFFICES ASSUME Init PROVE SearchInv
  OBVIOUS
<1>1. IdleTask \in Task /\ IdleTask.pc = "idle" /\ IdleTask.terms = <<>>
  BY EmptyTodo, IsTerms DEF IdleTask, Task, Terms
<1>2. IdleSearch \in Search /\ IdleSearch.words = {} /\ IdleSearch.found = {}
  BY DEF IdleSearch, Search
<1>3. TypeOK
  <2>1. task \in [Admin -> Task] /\ client \in [Client -> Search]
    BY <1>1, <1>2 DEF Init
  <2>2. names \in [Court -> Name \cup {None}] /\ entries \subseteq (Term \ Short) \X Court
    BY DEF Init
  <2>3. faults \in 0 .. MaxFaults /\ changes \in 0 .. MaxChanges
    BY SearchAssumption DEF Init
  <2> QED
    BY <2>1, <2>2, <2>3 DEF Init, TypeOK
<1>4. IsFiniteSet(entries)
  BY FS_EmptySet DEF Init
<1>5. TaskOK
  BY <1>1 DEF Init, TaskOK, AtStep
<1>6. Sole /\ Progress /\ IndexIsExact
  BY DEF Init, Sole, Progress, IndexIsExact, Quiet
<1>7. Named
  BY <1>1 DEF Init, Named, AtStep
<1>8. Answers
  BY <1>2 DEF Init, Answers
<1> QED
  BY <1>3, <1>4, <1>5, <1>6, <1>7, <1>8 DEF SearchInv

LEMMA RowRenamed ==
  ASSUME NEW row \in Row, NEW n \in Name
  PROVE  [row EXCEPT ![1] = n] \in Row
<1>1. CASE \E m \in Name : row = <<m>>
  <2>1. [row EXCEPT ![1] = n] = <<n>>
    BY <1>1
  <2> QED
    BY <2>1 DEF Row
<1>2. CASE \E m \in Name, d \in District : row = <<m, d>>
  <2>1. PICK m \in Name, d \in District : row = <<m, d>>
    BY <1>2
  <2>2. [row EXCEPT ![1] = n] = <<n, d>>
    BY <2>1
  <2> QED
    BY <2>2 DEF Row
<1> QED
  BY <1>1, <1>2, RowCases

LEMMA CourtsKeep ==
  ASSUME SearchInv, NEW c \in Court, Create(c) \/ Update(c) \/ Delete(c)
  PROVE  SearchInv'
<1>1. \E row \in Row \cup {<<>>} : ChangeCourt(c, row)
  <2>1. CASE Create(c)
    <3>1. PICK row \in Row : ChangeCourt(c, row)
      BY <2>1 DEF Create, Insert, Row
    <3> QED
      BY <3>1
  <2>2. CASE Update(c)
    <3>1. PICK n \in Name : courts[c] # <<>> /\ ChangeCourt(c, [courts[c] EXCEPT ![1] = n])
      BY <2>2 DEF Update, UpdateRow
    <3>2. courts[c] \in Row
      BY <3>1 DEF SearchInv, TypeOK
    <3> QED
      BY <3>1, <3>2, RowRenamed
  <2>3. CASE Delete(c)
    BY <2>3 DEF Delete
  <2> QED
    BY <2>1, <2>2, <2>3
<1>2. /\ courts' \in [Court -> Row \cup {<<>>}] /\ tainted' = TRUE
      /\ changes' \in 0 .. MaxChanges
      /\ entries' = entries /\ names' = names /\ torn' = torn /\ task' = task /\ client' = client
      /\ faults' = faults
  BY <1>1, SearchAssumption DEF ChangeCourt, SearchInv, TypeOK, index
<1>3. TypeOK' /\ IsFiniteSet(entries)'
  BY <1>2 DEF SearchInv, TypeOK
<1>4. TaskOK'
  BY <1>2 DEF SearchInv, TaskOK, AtStep
<1>5. Sole' /\ Progress' /\ IndexIsExact'
  BY <1>2 DEF Sole, Progress, IndexIsExact, Quiet
<1>6. Named' /\ Answers'
  BY <1>2 DEF SearchInv, Named, Answers, AtStep
<1> QED
  BY <1>3, <1>4, <1>5, <1>6 DEF SearchInv

LEMMA ReindexKeeps ==
  ASSUME SearchInv, NEW i \in Admin, Reindex(i)
  PROVE  SearchInv'
<1>1. Moved(i, "clear", courts, task[i].at, task[i].terms) /\ task[i].terms = <<>>
  BY ReindexMoves DEF SearchInv, TaskOK, Reindex, AtStep
<1>2. /\ courts' = courts /\ entries' = entries /\ names' = names /\ torn' = torn /\ client' = client
      /\ faults' = faults /\ changes' = changes /\ tainted' \in BOOLEAN
      /\ tainted' \/ \A j \in Admin : j # i => task[j].pc = "idle"
  BY DEF Reindex, index, bounds, AtStep
<1>3. TypeOK' /\ IsFiniteSet(entries)'
  BY <1>1, <1>2 DEF SearchInv, TypeOK, Moved
<1>4. Named'
  BY <1>1, <1>2 DEF SearchInv, Named, AtStep, Moved
<1>5. Answers'
  BY <1>2 DEF SearchInv, Answers
<1> QED
  BY <1>1, <1>2, <1>3, <1>4, <1>5, MovedKeeps

\* An index that is deleted is remembered by the searches that are under way.
LEMMA ClearedClient ==
  ASSUME TypeOK, NEW i \in Admin, ClearAutocomplete(i), NEW r \in Client
  PROVE  /\ client'[r] \in Search
         /\ client'[r].words = client[r].words /\ client'[r].found = client[r].found
         /\ client'[r].stale = (client[r].words # {})
<1>1. client[r] \in Search
  BY DEF TypeOK
<1>2. PICK b \in BOOLEAN : b = (client[r].words # {})
  OBVIOUS
<1>3. PICK v : v = [client[r] EXCEPT !.stale = b]
  OBVIOUS
<1>4. client'[r] = v
  BY <1>2, <1>3 DEF ClearAutocomplete, Deleted
<1>5. v \in Search /\ v.words = client[r].words /\ v.found = client[r].found /\ v.stale = b
  BY <1>1, <1>3 DEF Search
<1> QED
  BY <1>2, <1>4, <1>5

LEMMA ClearKeeps ==
  ASSUME SearchInv, NEW i \in Admin, ClearAutocomplete(i)
  PROVE  SearchInv'
<1>1. /\ Moved(i, "next", task[i].todo, task[i].at, task[i].terms)
      /\ task[i].terms = <<>> /\ task[i].pc = "clear"
  BY ClearMoves DEF SearchInv, TaskOK, ClearAutocomplete, Deleted, AtStep
<1>2. /\ entries' = {} /\ names' = [c \in Court |-> None]
      /\ torn' = \E j \in Admin : task[j].pc = "terms"
      /\ client' = [r \in Client |-> [client[r] EXCEPT !.stale = client[r].words # {}]]
      /\ courts' = courts /\ tainted' = tainted /\ faults' = faults /\ changes' = changes
  BY DEF ClearAutocomplete, Deleted, bounds, AtStep
<1>3. \A r \in Client :
        /\ client'[r] \in Search
        /\ client'[r].words = client[r].words /\ client'[r].found = client[r].found
        /\ client'[r].stale = (client[r].words # {})
  BY ClearedClient DEF SearchInv
<1>4. TypeOK' /\ IsFiniteSet(entries)'
  <2>1. client' \in [Client -> Search]
    BY <1>2, <1>3
  <2>2. names' \in [Court -> Name \cup {None}]
    BY <1>2
  <2>3. torn' \in BOOLEAN
    BY <1>2
  <2>4. IsFiniteSet(entries')
    BY <1>2, FS_EmptySet
  <2> QED
    BY <1>1, <1>2, <2>1, <2>2, <2>3, <2>4 DEF SearchInv, TypeOK, Moved
<1>5. Named'
  <2> SUFFICES ASSUME ~torn', NEW j \in Admin PROVE task'[j].pc # "terms"
    BY <1>2 DEF Named, AtStep
  <2> QED
    BY <1>1, <1>2 DEF Moved
<1>6. Answers'
  BY <1>3 DEF SearchInv, Answers
<1>7. ~tainted' => Built(i)'
  <2> SUFFICES ASSUME ~tainted PROVE Built(i)'
    BY <1>2
  <2>1. task[i].todo = courts /\ task'[i].todo = courts' /\ task'[i].pc = "next"
    BY <1>1, <1>2 DEF SearchInv, Progress, AtStep, Moved
  <2> SUFFICES ASSUME NEW c \in Court
               PROVE  /\ task'[i].todo[c] = courts'[c] /\ names'[c] = None
                      /\ \A t \in Term : <<t, c>> \notin entries'
    BY <2>1 DEF Built, AtStep
  <2> QED
    BY <1>2, <2>1
<1>8. tainted' \/ \A j \in Admin : j # i => task[j].pc = "idle"
  BY <1>1, <1>2 DEF SearchInv, Sole, AtStep
<1> QED
  BY <1>1, <1>4, <1>5, <1>6, <1>7, <1>8, MovedKeeps

LEMMA AddCourtKeeps ==
  ASSUME SearchInv, NEW i \in Admin, NEW c \in Court, AddCourt(i, c)
  PROVE  SearchInv'
<1> DEFINE row == task[i].todo[c]
           terms == LongTerms(row)
           p == IF terms = <<>> THEN "next" ELSE "terms"
           a == IF terms = <<>> THEN None ELSE c
           d == [task[i].todo EXCEPT ![c] = <<>>]
<1>1. row \in Row /\ Moved(i, p, d, a, terms) /\ task[i].pc = "next" /\ task[i].terms = <<>>
  BY AddCourtMoves DEF SearchInv, AddCourt, Pipeline, AtStep, TaskOK
<1>2. /\ names' = [names EXCEPT ![c] = row[1]]
      /\ courts' = courts /\ entries' = entries /\ torn' = torn /\ client' = client
      /\ tainted' = tainted /\ faults' = faults /\ changes' = changes
  BY DEF AddCourt, bounds
<1>3. /\ row # <<>> /\ row[1] \in Name /\ terms \in Terms
      /\ \A t : In(t, terms) <=> t \notin Short /\ In(t, row)
  BY <1>1, RowTerms
<1>4. row[1] # None
  BY <1>3, SearchAssumption
<1>5. d \in [Court -> Row \cup {<<>>}] /\ d[c] = <<>> /\ \A e \in Court : e # c => d[e] = task[i].todo[e]
  BY TaskFields DEF SearchInv
<1>6. names \in [Court -> Name \cup {None}]
  BY DEF SearchInv, TypeOK
<1> HIDE DEF row, terms, p, a, d
<1>7. TypeOK' /\ IsFiniteSet(entries)'
  BY <1>1, <1>2, <1>3 DEF SearchInv, TypeOK, Moved
<1>8. names'[c] = row[1] /\ \A e \in Court : e # c => names'[e] = names[e]
  BY <1>2, <1>6
<1>9. \A e \in Court : names[e] # None => names'[e] # None
  BY <1>4, <1>8
<1>10. Named'
  <2> SUFFICES ASSUME ~torn'
               PROVE  /\ \A e \in entries' : names'[e[2]] # None
                      /\ \A j \in Admin : task'[j].pc = "terms" => names'[task'[j].at] # None
    BY DEF Named, AtStep
  <2>1. \A e \in entries : e[2] \in Court
    BY DEF SearchInv, TypeOK
  <2>2. \A e \in entries' : names'[e[2]] # None
    BY <1>2, <1>9, <2>1 DEF SearchInv, Named
  <2>3. ASSUME NEW j \in Admin, task'[j].pc = "terms" PROVE names'[task'[j].at] # None
    <3>1. CASE j = i
      <4>1. task'[i].at = c
        BY <1>1, <2>3, <3>1 DEF Moved, p, a
      <4> QED
        BY <1>4, <1>8, <3>1, <4>1
    <3>2. CASE j # i
      <4>1. task[j].pc = "terms" /\ task'[j].at = task[j].at /\ task[j].at \in Court
        BY <1>1, <2>3, <3>2 DEF Moved, SearchInv, TaskOK, AtStep
      <4>2. names[task[j].at] # None
        BY <1>2, <4>1 DEF SearchInv, Named, AtStep
      <4> QED
        BY <1>9, <4>1, <4>2
    <3> QED
      BY <3>1, <3>2
  <2> QED
    BY <2>2, <2>3
<1>11. Answers'
  BY <1>2, <1>9 DEF SearchInv, Answers
<1>12. p = "terms" => a \in Court /\ terms # <<>> /\ \A t \in Short : ~In(t, terms)
  BY <1>3 DEF p, a
<1>13. p # "terms" => terms = <<>>
  BY DEF p
<1>14. p # "clear" /\ p # "idle"
  BY DEF p
<1>15. tainted' \/ \A j \in Admin : j # i => task[j].pc = "idle"
  BY <1>1, <1>2 DEF SearchInv, Sole, AtStep
<1>16. tainted' \/ Built(i)'
  <2> SUFFICES ASSUME ~tainted PROVE Built(i)'
    BY <1>2
  <2>1. Built(i)
    BY <1>1 DEF SearchInv, Progress, AtStep
  <2>2. row = courts[c] /\ courts[c] # <<>> /\ task[i].todo[c] = row
    BY <1>3, <2>1 DEF Built, row
  <2>3. task'[i].todo = d /\ task'[i].pc = p /\ task'[i].at = a /\ task'[i].terms = terms
    BY <1>1 DEF Moved
  <2> SUFFICES ASSUME NEW e \in Court
               PROVE  /\ d[e] \in {<<>>, courts[e]}
                      /\ names'[e] = IF d[e] = courts[e] THEN None ELSE courts[e][1]
                      /\ \A t \in Term :
                           <<t, e>> \in entries \/ (p = "terms" /\ e = a /\ In(t, terms))
                             <=> d[e] # courts[e] /\ t \notin Short /\ In(t, courts[e])
    BY <1>2, <2>3 DEF Built, AtStep
  <2>4. CASE e = c
    <3>1. \A t \in Term : <<t, e>> \notin entries
      BY <1>1, <2>1, <2>2, <2>4 DEF Built, AtStep
    <3>2. d[e] = <<>> /\ d[e] # courts[e] /\ names'[e] = courts[e][1]
      BY <1>5, <1>8, <2>2, <2>4
    <3>3. \A t : In(t, terms) => p = "terms" /\ a = c
      BY InTuple DEF p, a
    <3> QED
      BY <1>3, <2>2, <2>4, <3>1, <3>2, <3>3
  <2>5. CASE e # c
    <3>1. d[e] = task[i].todo[e] /\ names'[e] = names[e]
      BY <1>5, <1>8, <2>5
    <3>2. ~(p = "terms" /\ e = a)
      BY <2>5 DEF p, a
    <3> QED
      BY <1>1, <2>1, <3>1, <3>2 DEF Built, AtStep
  <2> QED
    BY <2>4, <2>5
<1> QED
  BY <1>1, <1>7, <1>10, <1>11, <1>12, <1>13, <1>14, <1>15, <1>16, MovedKeeps

LEMMA AddTermKeeps ==
  ASSUME SearchInv, NEW i \in Admin, AddTerm(i)
  PROVE  SearchInv'
<1> DEFINE s == task[i].terms
           c == task[i].at
           t == Head(s)
<1>1. /\ task[i].pc = "terms" /\ s \in Terms /\ s # <<>> /\ c \in Court
      /\ \A u \in Short : ~In(u, s)
  BY TaskFields DEF SearchInv, AddTerm, AtStep, TaskOK
<1>2. /\ t \in Term
      /\ Len(s) = 1 => \A u : In(u, s) <=> u = t
      /\ Len(s) # 1 => /\ Tail(s) \in Terms /\ Tail(s) # <<>>
                       /\ \A u : In(u, s) <=> u = t \/ In(u, Tail(s))
  BY <1>1, HeadTail
<1>3. /\ Len(s) = 1 => Moved(i, "next", task[i].todo, None, <<>>)
      /\ Len(s) # 1 => Moved(i, "terms", task[i].todo, c, Tail(s))
  BY AddTermMoves DEF SearchInv
<1>4. /\ entries' = entries \cup {<<t, c>>}
      /\ courts' = courts /\ names' = names /\ torn' = torn /\ client' = client
      /\ tainted' = tainted /\ faults' = faults /\ changes' = changes
  BY DEF AddTerm, bounds
<1> HIDE DEF s, c, t
<1>5. \E p, a, u : /\ Moved(i, p, task[i].todo, a, u)
                   /\ (p = "next" /\ u = <<>>) \/ (p = "terms" /\ a = c /\ u # <<>>)
                   /\ \A v : In(v, s) <=> v = t \/ (p = "terms" /\ In(v, u))
  <2>1. CASE Len(s) = 1
    <3>1. \A v : In(v, s) <=> v = t \/ ("next" = "terms" /\ In(v, <<>>))
      BY <1>2, <2>1
    <3> QED
      BY <1>3, <2>1, <3>1
  <2>2. CASE Len(s) # 1
    <3>1. \A v : In(v, s) <=> v = t \/ ("terms" = "terms" /\ In(v, Tail(s)))
      BY <1>2, <2>2
    <3> QED
      BY <1>2, <1>3, <2>2, <3>1
  <2> QED
    BY <2>1, <2>2
<1>6. PICK p, a, u : /\ Moved(i, p, task[i].todo, a, u)
                     /\ (p = "next" /\ u = <<>>) \/ (p = "terms" /\ a = c /\ u # <<>>)
                     /\ \A v : In(v, s) <=> v = t \/ (p = "terms" /\ In(v, u))
  BY <1>5
<1>7. t \notin Short
  BY <1>1, <1>6
<1>8. TypeOK' /\ IsFiniteSet(entries)'
  <2>1. IsFiniteSet(entries \cup {<<t, c>>})
    BY FS_AddElement DEF SearchInv
  <2>2. entries' \subseteq (Term \ Short) \X Court
    BY <1>1, <1>2, <1>4, <1>7 DEF SearchInv, TypeOK
  <2> QED
    BY <1>4, <1>6, <2>1, <2>2 DEF SearchInv, TypeOK, Moved
<1>9. Named'
  <2> SUFFICES ASSUME ~torn
               PROVE  /\ \A e \in entries' : names[e[2]] # None
                      /\ \A j \in Admin : task'[j].pc = "terms" => names[task'[j].at] # None
    BY <1>4 DEF Named, AtStep
  <2>1. names[c] # None
    BY <1>1 DEF SearchInv, Named, AtStep, c
  <2>2. \A e \in entries' : names[e[2]] # None
    BY <1>4, <2>1 DEF SearchInv, Named
  <2>3. ASSUME NEW j \in Admin, task'[j].pc = "terms" PROVE names[task'[j].at] # None
    <3>1. CASE j = i
      BY <1>6, <2>1, <2>3, <3>1 DEF Moved
    <3>2. CASE j # i
      BY <1>6, <2>3, <3>2 DEF Moved, SearchInv, Named, AtStep
    <3> QED
      BY <3>1, <3>2
  <2> QED
    BY <2>2, <2>3
<1>10. Answers'
  BY <1>4 DEF SearchInv, Answers
<1>11. p = "terms" => a \in Court /\ u # <<>> /\ \A v \in Short : ~In(v, u)
  BY <1>1, <1>6
<1>12. tainted' \/ \A j \in Admin : j # i => task[j].pc = "idle"
  BY <1>1, <1>4 DEF SearchInv, Sole, AtStep
<1>13. tainted' \/ Built(i)'
  <2> SUFFICES ASSUME ~tainted PROVE Built(i)'
    BY <1>4
  <2>1. Built(i)
    BY <1>1 DEF SearchInv, Progress, AtStep
  <2>2. task'[i].todo = task[i].todo /\ task'[i].pc = p /\ task'[i].at = a /\ task'[i].terms = u
    BY <1>6 DEF Moved
  <2> SUFFICES ASSUME NEW e \in Court, NEW v \in Term
               PROVE  <<v, e>> \in entries' \/ (p = "terms" /\ e = a /\ In(v, u))
                        <=> task[i].todo[e] # courts[e] /\ v \notin Short /\ In(v, courts[e])
    BY <1>4, <2>1, <2>2 DEF Built, AtStep
  <2>3. <<v, e>> \in entries \/ (e = c /\ In(v, s))
          <=> task[i].todo[e] # courts[e] /\ v \notin Short /\ In(v, courts[e])
    BY <1>1, <2>1 DEF Built, AtStep, s, c
  <2>4. <<v, e>> \in entries' <=> <<v, e>> \in entries \/ (v = t /\ e = c)
    BY <1>4
  <2> QED
    BY <1>6, <2>3, <2>4
<1> QED
  BY <1>6, <1>8, <1>9, <1>10, <1>11, <1>12, <1>13, MovedKeeps

LEMMA ReindexedKeeps ==
  ASSUME SearchInv, NEW i \in Admin, Reindexed(i)
  PROVE  SearchInv'
<1>1. Moved(i, "idle", [c \in Court |-> <<>>], None, <<>>) /\ task[i].pc = "next"
  BY IdleMoves DEF SearchInv, Reindexed, AtStep
<1>2. /\ entries' = entries /\ courts' = courts /\ names' = names /\ torn' = torn /\ client' = client
      /\ tainted' = tainted /\ faults' = faults /\ changes' = changes
      /\ \A c \in Court : task[i].todo[c] = <<>>
  BY DEF Reindexed, index, bounds
<1>3. TypeOK' /\ IsFiniteSet(entries)'
  BY <1>1, <1>2 DEF SearchInv, TypeOK, Moved
<1>4. Named'
  BY <1>1, <1>2 DEF SearchInv, Named, AtStep, Moved
<1>5. Answers'
  BY <1>2 DEF SearchInv, Answers
<1>6. tainted' \/ \A j \in Admin : j # i => task[j].pc = "idle"
  BY <1>1, <1>2 DEF SearchInv, Sole, AtStep
<1>7. ~tainted => Exact
  <2> SUFFICES ASSUME ~tainted PROVE Exact
    OBVIOUS
  <2>1. Built(i)
    BY <1>1 DEF SearchInv, Progress, AtStep
  <2>2. ASSUME NEW c \in Court
        PROVE  /\ names[c] = IF courts[c] = <<>> THEN None ELSE courts[c][1]
               /\ \A t \in Term : <<t, c>> \in entries <=> t \notin Short /\ In(t, courts[c])
    <3>1. courts[c] = <<>> => \A t : ~In(t, courts[c])
      BY InTuple
    <3> QED
      BY <1>1, <1>2, <2>1, <3>1 DEF Built, AtStep
  <2>3. entries \subseteq (Term \ Short) \X Court
    BY DEF SearchInv, TypeOK
  <2>4. \A t \in Term \ Short, c \in Court :
          <<t, c>> \in entries <=> \E k \in DOMAIN courts[c] : courts[c][k] = t
    BY <2>2 DEF In
  <2>5. ASSUME NEW e \in (Term \ Short) \X Court
        PROVE  e \in entries <=> \E k \in DOMAIN courts[e[2]] : courts[e[2]][k] = e[1]
    BY <2>4
  <2>6. entries = {e \in (Term \ Short) \X Court : \E k \in DOMAIN courts[e[2]] : courts[e[2]][k] = e[1]}
    BY <2>3, <2>5
  <2> QED
    BY <2>2, <2>6 DEF Exact
<1>8. tainted' \/ Exact'
  BY <1>2, <1>7 DEF Exact
<1> QED
  BY <1>1, <1>3, <1>4, <1>5, <1>6, <1>8, MovedKeeps

LEMMA ReindexFailsKeeps ==
  ASSUME SearchInv, NEW i \in Admin, ReindexFails(i)
  PROVE  SearchInv'
<1>1. PICK p, d, a : Moved(i, p, d, a, <<>>) /\ (p = "next" \/ p = "idle")
  BY ReindexFailsMoves DEF SearchInv
<1>2. /\ entries' = entries /\ courts' = courts /\ names' = names /\ torn' = torn /\ client' = client
      /\ tainted' = TRUE /\ changes' = changes
  BY DEF ReindexFails, index
<1>3. faults' \in 0 .. MaxFaults
  BY SearchAssumption DEF ReindexFails, Fault, SearchInv, TypeOK
<1>4. TypeOK' /\ IsFiniteSet(entries)'
  BY <1>1, <1>2, <1>3 DEF SearchInv, TypeOK, Moved
<1>5. Named'
  BY <1>1, <1>2 DEF SearchInv, Named, AtStep, Moved
<1>6. Answers'
  BY <1>2 DEF SearchInv, Answers
<1> QED
  BY <1>1, <1>2, <1>4, <1>5, <1>6, MovedKeeps

-----------------------------------------------------------------------------
(* The suggestions *)

Candidates == {CourtOf(e) : e \in entries}

LEMMA CandidatesOK ==
  ASSUME TypeOK, IsFiniteSet(entries)
  PROVE  /\ IsFiniteSet(Candidates) /\ Candidates \subseteq Suggestion
         /\ \A c \in Candidates : c \in Court => \E e \in entries : e[2] = c
<1>1. PICK f : f = [e \in entries |-> CourtOf(e)]
  OBVIOUS
<1>2. f \in Surjection(entries, Candidates)
  BY <1>1 DEF Surjection, Candidates
<1>3. IsFiniteSet(Candidates)
  BY <1>2, FS_Surjection
<1>4. ASSUME NEW e \in entries
      PROVE  CourtOf(e) \in Suggestion /\ (CourtOf(e) \in Court => CourtOf(e) = e[2])
  <2>1. e \in Term \X Court /\ e = <<e[1], e[2]>> /\ e[2] \in Court
    BY DEF TypeOK
  <2>2. CASE e[1] \in Piped
    <3>1. CourtOf(e) = e /\ e \in Piped \X Court
      BY <2>1, <2>2 DEF CourtOf
    <3> QED
      BY <3>1, SearchAssumption DEF Suggestion
  <2>3. CASE e[1] \notin Piped
    BY <2>1, <2>3 DEF CourtOf, Suggestion
  <2> QED
    BY <2>2, <2>3
<1>5. Candidates \subseteq Suggestion
  BY <1>4 DEF Candidates
<1>6. \A c \in Candidates : c \in Court => \E e \in entries : e[2] = c
  BY <1>4 DEF Candidates
<1> QED
  BY <1>3, <1>5, <1>6

\* Of what is in the index nothing else can match a word.
LEMMA MatchIsCandidate ==
  ASSUME TypeOK, IsFiniteSet(entries), NEW words, words # {}
  PROVE  {c \in Suggestion : AllMatch(c, words)} = {c \in Candidates : AllMatch(c, words)}
<1>1. ASSUME NEW c, AllMatch(c, words) PROVE c \in Candidates
  <2>1. PICK t : t \in TermsOf(c)
    BY <1>1 DEF AllMatch
  <2> QED
    BY <2>1 DEF TermsOf, Candidates
<1>2. Candidates \subseteq Suggestion
  BY CandidatesOK
<1> QED
  BY <1>1, <1>2

LEMMA SearchAnswers ==
  ASSUME SearchInv, NEW r \in Client, NEW words \in SUBSET Word, SearchAutocomplete(r, words)
  PROVE  /\ words # {} /\ client' \in [Client -> Search]
         /\ client'[r].words = words /\ client'[r].stale = client[r].stale
         /\ \A q \in Client : q # r => client'[q] = client[q]
         /\ client'[r].found \subseteq Candidates
         /\ LET all == {c \in Suggestion : AllMatch(c, words)}
            IN  /\ client'[r].found \subseteq all
                /\ Cardinality(client'[r].found)
                     = IF Cardinality(all) < Limit THEN Cardinality(all) ELSE Limit
<1>1. TypeOK /\ IsFiniteSet(entries) /\ words # {}
  BY DEF SearchInv, SearchAutocomplete
<1>2. PICK order \in Orders(Candidates) :
        client' = [client EXCEPT ![r].words = words, ![r].found = Collect(order, words)]
  BY DEF SearchAutocomplete, Candidates
<1> DEFINE all == {c \in Candidates : AllMatch(c, words)}
<1>3. PICK found : found = Collect(order, words)
  OBVIOUS
<1>4. /\ found \subseteq all
      /\ Cardinality(found) = IF Cardinality(all) < Limit THEN Cardinality(all) ELSE Limit
  BY <1>1, <1>3, CandidatesOK, CollectOK
<1>5. all = {c \in Suggestion : AllMatch(c, words)} /\ all \subseteq Candidates
  BY <1>1, MatchIsCandidate
<1> HIDE DEF all
<1>6. client[r] \in Search /\ client \in [Client -> Search]
  BY <1>1 DEF TypeOK
<1>7. PICK v : v = [client[r] EXCEPT !.words = words, !.found = found]
  OBVIOUS
<1>8. client' = [client EXCEPT ![r] = v]
  BY <1>2, <1>3, <1>6, <1>7
<1>9. found \subseteq Suggestion
  BY <1>1, <1>4, <1>5, CandidatesOK
<1>10. v \in Search /\ v.words = words /\ v.found = found /\ v.stale = client[r].stale
  BY <1>6, <1>7, <1>9 DEF Search
<1>11. client' \in [Client -> Search] /\ client'[r] = v /\ \A q \in Client : q # r => client'[q] = client[q]
  BY <1>6, <1>8, <1>10
<1> QED
  BY <1>1, <1>4, <1>5, <1>10, <1>11

\* A step of a search leaves the index and the rebuilds alone.
LEMMA ClientKeeps ==
  ASSUME SearchInv, UNCHANGED <<courts, index, task, tainted, bounds>>,
         client' \in [Client -> Search], Answers'
  PROVE  SearchInv'
<1>1. /\ courts' = courts /\ entries' = entries /\ names' = names /\ torn' = torn /\ task' = task
      /\ tainted' = tainted /\ faults' = faults /\ changes' = changes
  BY DEF index, bounds
<1>2. TypeOK' /\ IsFiniteSet(entries)'
  BY <1>1 DEF SearchInv, TypeOK
<1>3. TaskOK' /\ Sole' /\ Named'
  BY <1>1 DEF SearchInv, TaskOK, Sole, Named, AtStep
<1>4. Progress'
  BY <1>1 DEF SearchInv, Progress, Built, AtStep
<1>5. IndexIsExact'
  BY <1>1 DEF SearchInv, IndexIsExact, Quiet, AtStep
<1> QED
  BY <1>2, <1>3, <1>4, <1>5 DEF SearchInv

LEMMA SearchAutocompleteKeeps ==
  ASSUME SearchInv, NEW r \in Client, NEW words \in SUBSET Word, SearchAutocomplete(r, words)
  PROVE  SearchInv'
<1>1. /\ words # {} /\ client' \in [Client -> Search]
      /\ client'[r].words = words
      /\ \A q \in Client : q # r => client'[q] = client[q]
      /\ client'[r].found \subseteq Candidates
  BY SearchAnswers
<1>2. UNCHANGED <<courts, index, task, tainted, bounds>>
  BY DEF SearchAutocomplete
<1>3. names' = names /\ torn' = torn
  BY <1>2 DEF index
<1>4. \A c \in Court : c \in Candidates => names[c] # None \/ torn
  <2>1. \A c \in Candidates : c \in Court => \E e \in entries : e[2] = c
    BY CandidatesOK DEF SearchInv
  <2> QED
    BY <2>1 DEF SearchInv, Named
<1>5. Answers'
  <2> SUFFICES ASSUME NEW q \in Client
               PROVE  /\ client'[q].words = {} => client'[q].found = {}
                      /\ \A c \in Court : c \in client'[q].found => names[c] # None \/ torn \/ client'[q].stale
    BY <1>3 DEF Answers
  <2>1. CASE q = r
    BY <1>1, <1>4, <2>1
  <2>2. CASE q # r
    BY <1>1, <2>2 DEF SearchInv, Answers
  <2> QED
    BY <2>1, <2>2
<1> QED
  BY <1>1, <1>2, <1>5, ClientKeeps

LEMMA SuggestKeeps ==
  ASSUME SearchInv, NEW r \in Client, Suggest(r)
  PROVE  SearchInv' /\ client'[r].words = {} /\ \A q \in Client : q # r => client'[q] = client[q]
<1>1. IdleSearch \in Search /\ IdleSearch.words = {} /\ IdleSearch.found = {}
  BY DEF IdleSearch, Search
<1>2. /\ client' \in [Client -> Search] /\ client'[r] = IdleSearch
      /\ \A q \in Client : q # r => client'[q] = client[q]
  BY <1>1 DEF Suggest, SearchInv, TypeOK
<1>3. UNCHANGED <<courts, index, task, tainted, bounds>>
  BY DEF Suggest
<1>4. names' = names /\ torn' = torn
  BY <1>3 DEF index
<1>5. Answers'
  BY <1>1, <1>2, <1>4 DEF SearchInv, Answers
<1> QED
  BY <1>1, <1>2, <1>3, <1>5, ClientKeeps

LEMMA StepKeeps ==
  ASSUME SearchInv, [Next]_vars
  PROVE  SearchInv'
<1>1. ASSUME NEW c \in Court, Create(c) \/ Update(c) \/ Delete(c) PROVE SearchInv'
  BY <1>1, CourtsKeep
<1>2. ASSUME NEW i \in Admin,
             \/ Reindex(i) \/ ClearAutocomplete(i) \/ AddTerm(i)
             \/ Reindexed(i) \/ ReindexFails(i)
             \/ \E c \in Court : AddCourt(i, c)
      PROVE  SearchInv'
  BY <1>2, ReindexKeeps, ClearKeeps, AddTermKeeps, ReindexedKeeps, ReindexFailsKeeps, AddCourtKeeps
<1>3. ASSUME NEW r \in Client,
             (\E words \in SUBSET Word : SearchAutocomplete(r, words)) \/ Suggest(r)
      PROVE  SearchInv'
  BY <1>3, SearchAutocompleteKeeps, SuggestKeeps
<1>4. CASE UNCHANGED vars
  <2>1. UNCHANGED <<courts, index, task, tainted, bounds>> /\ client' = client /\ names' = names /\ torn' = torn
    BY <1>4 DEF vars, index
  <2>2. Answers' /\ client' \in [Client -> Search]
    BY <2>1 DEF SearchInv, Answers, TypeOK
  <2> QED
    BY <2>1, <2>2, ClientKeeps
<1> QED
  BY <1>1, <1>2, <1>3, <1>4 DEF Next

\* The invariant holds of every run of the program.
THEOREM Invariance == Spec => []SearchInv
<1>1. Init => SearchInv
  BY InitiallyInv
<1>2. SearchInv /\ [Next]_vars => SearchInv'
  BY StepKeeps
<1> QED
  BY <1>1, <1>2, PTL DEF Spec

\* Rows, index, rebuilds and answers keep their types; no term of one character
\* gets into the index.
THEOREM TypeCorrect == Spec => []TypeOK
<1>1. SearchInv => TypeOK
  BY DEF SearchInv
<1> QED
  BY <1>1, Invariance, PTL

\* After a rebuild that nothing came between, the index is the courts', however
\* many rebuilds, errors and changes there were before.
THEOREM RebuildIsExact == Spec => []IndexIsExact
<1>1. SearchInv => IndexIsExact
  BY DEF SearchInv
<1> QED
  BY <1>1, Invariance, PTL

\* A suggestion without a name comes from a term with a "|", or from an index
\* deleted meanwhile or torn by two rebuilds.
THEOREM NamesAreKnown == Spec => []SuggestionsAreNamed
<1>1. SearchInv => SuggestionsAreNamed
  <2> SUFFICES ASSUME SearchInv PROVE SuggestionsAreNamed
    OBVIOUS
  <2>1. ~torn => \A e \in entries : names[e[2]] # None
    BY DEF SearchInv, Named
  <2>2. ASSUME NEW r \in Client, NEW c \in client[r].found, NameOf(c) = None
        PROVE  c \in Piped \X Court \/ client[r].stale \/ torn
    <3>1. client[r].found \subseteq Suggestion
      BY DEF SearchInv, TypeOK, Search
    <3>2. CASE c \in Court
      BY <2>2, <3>2 DEF SearchInv, Answers, NameOf
    <3>3. CASE c \notin Court
      BY <3>1, <3>3 DEF Suggestion
    <3> QED
      BY <3>2, <3>3
  <2> QED
    BY <2>1, <2>2 DEF SuggestionsAreNamed
<1> QED
  BY <1>1, Invariance, PTL

LEMMA ExactIsFound == TypeOK /\ IndexIsExact => SuggestedIsFound
<1> SUFFICES ASSUME TypeOK, IndexIsExact, Quiet, NEW w \in Word, NEW c \in Court, AllMatch(c, {w})
             PROVE  c \in SearchResult(w)
  BY DEF SuggestedIsFound
<1>1. PICK t \in TermsOf(c) : w \in Starts[t]
  BY DEF AllMatch
<1>2. PICK e \in entries : e[1] = t /\ CourtOf(e) = c
  BY <1>1 DEF TermsOf
<1>3. e \in Term \X Court /\ e = <<e[1], e[2]>>
  BY DEF TypeOK
<1>4. e[2] = c
  <2>1. CASE e[1] \in Piped
    <3>1. c \in Piped \X Court
      BY <1>2, <1>3, <2>1 DEF CourtOf
    <3> QED
      BY <3>1, SearchAssumption
  <2>2. CASE e[1] \notin Piped
    BY <1>2, <2>2 DEF CourtOf
  <2> QED
    BY <2>1, <2>2
<1>5. \E k \in DOMAIN courts[c] : courts[c][k] = t
  BY <1>2, <1>4 DEF IndexIsExact
<1>6. t \in Term /\ w \in Inside[t]
  BY <1>1, <1>2, <1>3, SearchAssumption
<1> QED
  BY <1>5, <1>6 DEF SearchResult

\* What is suggested for a word from an exact index the search for it finds.
THEOREM SearchesAgree == Spec => []SuggestedIsFound
<1>1. SearchInv => SuggestedIsFound
  BY ExactIsFound DEF SearchInv
<1> QED
  BY <1>1, Invariance, PTL

\* Whatever order the map is gone through, a suggestion takes only courts that
\* match every word, and as many as there are up to the limit.
THEOREM SuggestionIsFull == Spec => SuggestionsMatch
<1> DEFINE Full(r) ==
             client[r].words = {} /\ client'[r].words # {} =>
               LET all == {c \in Suggestion : AllMatch(c, client'[r].words)}
                   found == client'[r].found
               IN  /\ found \subseteq all
                   /\ Cardinality(found) = IF Cardinality(all) < Limit THEN Cardinality(all) ELSE Limit
<1>1. ASSUME SearchInv, [Next]_vars, NEW r \in Client PROVE Full(r)
  <2>1. CASE client' = client
    BY <2>1
  <2>2. ASSUME NEW i \in Admin, ClearAutocomplete(i) PROVE Full(r)
    <3>1. client'[r].words = client[r].words
      BY <1>1, <2>2, ClearedClient DEF SearchInv
    <3> QED
      BY <3>1
  <2>3. ASSUME NEW q \in Client, NEW words \in SUBSET Word, SearchAutocomplete(q, words) PROVE Full(r)
    <3>1. CASE q = r
      <4> DEFINE all == {c \in Suggestion : AllMatch(c, words)}
      <4>1. /\ client'[r].words = words /\ client'[r].found \subseteq all
            /\ Cardinality(client'[r].found)
                 = IF Cardinality(all) < Limit THEN Cardinality(all) ELSE Limit
        BY <1>1, <2>3, <3>1, SearchAnswers
      <4> QED
        BY <4>1
    <3>2. CASE q # r
      <4>1. client'[r] = client[r]
        BY <1>1, <2>3, <3>2, SearchAnswers
      <4> QED
        BY <4>1
    <3> QED
      BY <3>1, <3>2
  <2>4. ASSUME NEW q \in Client, Suggest(q) PROVE Full(r)
    <3>1. client'[r].words = {} \/ client'[r] = client[r]
      BY <1>1, <2>4, SuggestKeeps
    <3> QED
      BY <3>1
  <2>5. ASSUME NEW c \in Court, Create(c) \/ Update(c) \/ Delete(c) PROVE client' = client
    BY <2>5 DEF Create, Update, Delete, Insert, UpdateRow, ChangeCourt
  <2>6. ASSUME NEW i \in Admin,
               \/ Reindex(i) \/ AddTerm(i) \/ Reindexed(i) \/ ReindexFails(i)
               \/ \E c \in Court : AddCourt(i, c)
        PROVE  client' = client
    BY <2>6 DEF Reindex, AddTerm, Reindexed, ReindexFails, AddCourt
  <2>7. UNCHANGED vars => client' = client
    BY DEF vars
  <2> HIDE DEF Full
  <2> QED
    BY <1>1, <2>1, <2>2, <2>3, <2>4, <2>5, <2>6, <2>7 DEF Next
<1>2. SearchInv /\ [Next]_vars => \A r \in Client : Full(r)
  BY <1>1
<1> QED
  BY <1>2, Invariance, PTL DEF Spec, SuggestionsMatch
=============================================================================
