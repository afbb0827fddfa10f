--------------------------- MODULE MCCourtSearch ---------------------------
(***************************************************************************)
(* An instance of CourtSearch for TLC: a name, a name of one letter, and a *)
(* district with a "|".                                                    *)
(***************************************************************************)
EXTENDS CourtSearch, TLC

CONSTANTS plain, short, piped, w1, w2

Begins == plain :> {w1} @@ short :> {} @@ piped :> {w1, w2}

Has == plain :> {w1, w2} @@ short :> {w1} @@ piped :> {w1, w2}

AnySymmetry == Permutations(Court) \cup Permutations(Admin)
=============================================================================
