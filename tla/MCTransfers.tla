---------------------------- MODULE MCTransfers ----------------------------
(***************************************************************************)
(* Two transfers between two camps, of one person and one resource, each   *)
(* drawn from three proposals.  Two carry the person in opposite           *)
(* directions, so that a person may be called back by a stale transfer;    *)
(* the third carries the person without rations and never completes.       *)
(* Two calls overlap in every way, the same transfer included.             *)
(***************************************************************************)
EXTENDS Transfers, TLC

CONSTANTS c1, c2, p1

Food == "FOOD_RATION"

MCOpening == {[r \in Row |-> IF r[1] = c1 THEN 2 ELSE 1]}

MCBirth == [p \in Person |-> c1]

Proposed(from, to, people) ==
  [from |-> from, to |-> to, items |-> <<Food>>, amount |-> [r \in Resource |-> 1],
   people |-> people]

MCProposal ==
  {Proposed(c1, c2, {p1}), Proposed(c2, c1, {p1}),
   [Proposed(c1, c2, {p1}) EXCEPT !.items = <<>>]}

Interchangeable == Permutations(TransferId) \cup Permutations(Call)

MCWorkload ==
  {Movement(x) : x \in {y \in MCProposal : y.items # <<>>}}
    \cup {OneRow("DAILY_RATION", <<c1, Food>>, -1)}
=============================================================================
