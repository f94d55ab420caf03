----------------------------- MODULE MCSessions -----------------------------
(***************************************************************************)
(* Sessions with two refresh tokens, so that a login can be rotated or     *)
(* stand beside another one, two overlapping calls and two sessions that   *)
(* end.                                                                    *)
(***************************************************************************)
EXTENDS Sessions, TLC

Interchangeable == Permutations(Token) \cup Permutations(Call)
=============================================================================
