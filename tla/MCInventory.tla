---------------------------- MODULE MCInventory ----------------------------
(***************************************************************************)
(* InventoryTransactions on two camps and two resources.  The workload has *)
(* every way of writing a row: a gain that may have to create it (two can  *)
(* race), guarded decrements after a stock check, and transfers that run   *)
(* in opposite directions over rows the outflow takes in the other order,  *)
(* so that transactions wait for one another, cycles of waits included.    *)
(***************************************************************************)
EXTENDS InventoryTransactions

CONSTANTS c1, c2, food, meds

One == [r \in Resource |-> 1]

MCOpening == {[r \in Row |-> IF r = <<c2, food>> THEN 0 ELSE 1]}

MCWorkload ==
  {OneRow("DAILY_GAIN", <<c2, food>>, 1),
   Outflow(c1, <<meds, food>>, One),
   Transfer(c1, c2, <<food, meds>>, One),
   Transfer(c2, c1, <<meds>>, One)}
=============================================================================
