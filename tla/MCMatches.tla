----------------------------- MODULE MCMatches -----------------------------
(***************************************************************************)
(* Instances of Matches for TLC.                                           *)
(***************************************************************************)
EXTENDS Matches, TLC

CONSTANTS m1, m2, h1, h2, r1, r2, s1, s2, u1, u2, u3

Offer(n, prv, prc) == [slots |-> n, private |-> prv, priced |-> prc]

\* The terms of the instances.
PublicFree == Offer(1, FALSE, FALSE)
PrivateFree == Offer(1, TRUE, FALSE)
PrivatePriced == Offer(1, TRUE, TRUE)

FreeTerms == {PublicFree, PrivateFree}
PublicOrPriced == {PublicFree, PrivatePriced}

\* What the matches are created with.
AllPublic == {[m \in Match |-> PublicFree]}
AllPrivate == {[m \in Match |-> PrivateFree]}
AllAlike == AllPublic \cup AllPrivate

\* What is done in the first match; in the second one the host only answers.
FirstPlayed == [m \in Match |-> IF m = m1 THEN {"join", "respond"} ELSE {"respond"}]
FirstLeft ==
  [m \in Match |-> IF m = m1 THEN {"join", "leave", "respond", "update", "cancel"} ELSE {"respond"}]
JoinAndRespond == [m \in Match |-> {"join", "respond"}]

\* Each match has a host of its own, who plays in none.
Hosts == [m \in Match |-> IF m = m1 THEN h1 ELSE h2]

\* One server, or one for each request.
OneServer == [r \in Request |-> s1]
TwoServers == [r \in Request |-> IF r = r1 THEN s1 ELSE s2]

\* The users are alike; with two servers, so are the requests together with
\* the servers they run on.
Kept == [x \in {r1, r2, s1, s2} |-> x]
Exchanged == (r1 :> r2) @@ (r2 :> r1) @@ (s1 :> s2) @@ (s2 :> s1)
Alike == {p @@ q : p \in Permutations(User), q \in {Kept, Exchanged}}
=============================================================================
