---------------------------- MODULE MCDailyJobs ----------------------------
(***************************************************************************)
(* Two overlapping runs of any kind, of the API or of the worker, over two *)
(* camps.  A unit is 0.39 and the ration 0.78, so that half a portion may  *)
(* be left over.  In the first camp two children have the highest ids and  *)
(* are called last.  An override takes from what the second one produces.  *)
(***************************************************************************)
EXTENDS DailyJobs, TLC

CONSTANTS c1, c2, food

MCCamps == <<c1, c2>>

MCNeed == food :> 2

(* In doubles, 2.34 / 0.78 is 2.9999999999999996 and 4.68 / 0.78 is 5.999999999999999. *)
MCShort == food :> {6, 12}

(* 5 * 0.78 is 3.9000000000000004. *)
MCExcess == food :> {5}

MCHome == [p \in Person |-> IF p <= 5 THEN c1 ELSE c2]

MCGrade == [p \in Person |-> IF p \in {4, 5} THEN 1 ELSE 4]

MCYield == food :> [p \in Person |-> IF p \in {1, 6} THEN 2 ELSE 0]

MCOverride == food :> [p \in Person |-> IF p = 6 THEN -1 ELSE 0]

(* A portion for everybody; or three in the first camp and none in the second. *)
MCOpening ==
  {[x \in Row |-> IF x[1] = c1 THEN 10 ELSE 2], [x \in Row |-> IF x[1] = c1 THEN 6 ELSE 0]}

Interchangeable == Permutations(Run)
=============================================================================
