--------------------------- MODULE MCAdjustments ---------------------------
(***************************************************************************)
(* AdjustmentRequests with two requests and three reviews: enough for two  *)
(* reviews to overlap on one request while a third reviews the other.  One *)
(* camp opens with one unit, which a ration may take before an approval,   *)
(* and one with nothing, so that approvals are refused and tried again.    *)
(***************************************************************************)
EXTENDS AdjustmentRequests

CONSTANTS c1, c2, food

MCOpening == {[r \in Row |-> IF r = <<c1, food>> THEN 1 ELSE 0]}

MCAsked ==
  {OneRow("MANUAL_IN", <<c1, food>>, 1),
   OneRow("MANUAL_OUT", <<c1, food>>, -1),
   OneRow("MANUAL_OUT", <<c2, food>>, -1)}

MCWorkload == MCAsked \cup {OneRow("DAILY_RATION", <<c1, food>>, -1)}
=============================================================================
