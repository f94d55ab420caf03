----------------------------- MODULE MCJobQueue -----------------------------
(***************************************************************************)
(* JobQueue with one worker, two production jobs and one of rations, over  *)
(* two camps: lists hold several payloads, one list goes before the other, *)
(* and a job can fail after its first camp and come back.                  *)
(***************************************************************************)
EXTENDS JobQueue

CONSTANTS j1, j2, j3

MCKindOf == [j \in Job |-> IF j = j3 THEN "daily_rations" ELSE "daily_production"]

MCCamps == <<"c1", "c2">>
=============================================================================
