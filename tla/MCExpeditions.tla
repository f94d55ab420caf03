--------------------------- MODULE MCExpeditions ---------------------------
(***************************************************************************)
(* Expeditions of one camp with one person and one resource.  The stock is *)
(* enough for two of them, or for a ration.  Both share the person; each   *)
(* takes one unit and may claim back two.  Two calls overlap in every way, *)
(* on one expedition or on both.                                           *)
(***************************************************************************)
EXTENDS Expeditions, TLC

CONSTANTS c1, food, p1

MCOpening == {[r \in Row |-> 2]}

MCBirth == [p \in Person |-> c1]

MCProposal ==
  {[camp |-> c1, members |-> {p1}, items |-> <<food>>, amount |-> [r \in Resource |-> 1]]}

MCWorkload ==
  {Outflow(c1, <<food>>, [r \in Resource |-> 1])}
    \cup {Return(c1, <<food>>, [r \in Resource |-> q]) : q \in Qty}
    \cup {OneRow("DAILY_RATION", <<c1, food>>, -2)}

Interchangeable == Permutations(ExpeditionId) \cup Permutations(Call)
=============================================================================
