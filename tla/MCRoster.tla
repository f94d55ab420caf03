------------------------------ MODULE MCRoster ------------------------------
(***************************************************************************)
(* Roster with one person, since the calls about different people touch    *)
(* different rows, and three calls: two that overlap in every way, and one *)
(* before, between or after them.                                          *)
(***************************************************************************)
EXTENDS Roster, TLC

Interchangeable ==
  Permutations(Camp) \cup Permutations(Profession) \cup Permutations(Call)
=============================================================================
