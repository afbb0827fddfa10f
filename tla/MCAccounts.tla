----------------------------- MODULE MCAccounts -----------------------------
(***************************************************************************)
(* An instance of Accounts for TLC: ids are numbers, everything else model *)
(* values.                                                                 *)
(***************************************************************************)
EXTENDS Accounts, TLC

CONSTANTS g1, g2, e1

\* Two identities of one person, who has one email: they may be swapped.
OneEmail == [u \in {g1, g2} |-> e1]

\* Both accounts have photos and claim bookings; the first one is also edited
\* and deleted, the second one converted.
ByAccount ==
  [i \in Id |-> {"photo", "link"} \cup IF i = 1 THEN {"update", "delete"} ELSE {"convert"}]

KeySymmetry ==
  Permutations(Key) \cup Permutations(Request) \cup Permutations(Uid)
=============================================================================
