---------------------------- MODULE MCCatalogue ----------------------------
(***************************************************************************)
(* Each of the twelve keys in turn, with two overlapping calls and two     *)
(* reads or values on their way to the cache; a row is created, updated    *)
(* and deleted.                                                            *)
(***************************************************************************)
EXTENDS Catalogue
=============================================================================
