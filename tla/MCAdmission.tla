---------------------------- MODULE MCAdmission ----------------------------
(***************************************************************************)
(* Admission of two applicants by two overlapping calls, which can hold    *)
(* both connections of a pool of two, and leave one of a pool of three,    *)
(* with one digit out of three: the third code is longer than the others   *)
(* and comes before them.                                                  *)
(***************************************************************************)
EXTENDS Admission
=============================================================================
