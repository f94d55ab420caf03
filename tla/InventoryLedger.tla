-------------------------- MODULE InventoryLedger --------------------------
(***************************************************************************)
(* What the inventory promises: operations happen one at a time and whole. *)
(* `stock` is the column inventories.quantity, `ledger` the sum of         *)
(* quantity_change over the rows of inventory_logs.                        *)
(***************************************************************************)
EXTENDS InventoryOperations

CONSTANTS
  Opening,   \* the stocks a deployment may open with
  Workload   \* the operations its clients and jobs ask for

ASSUME DeploymentAssumption ==
  /\ Opening \subseteq [Row -> Nat]
  /\ Workload \subseteq Operations

VARIABLES stock, ledger

ledgerVars == <<stock, ledger>>

(* The quantities a deployment opens with are logged: the ledger balances. *)
LedgerInit ==
  /\ stock \in Opening
  /\ ledger = stock

(* The camp can afford every row the operation takes from. *)
Affordable(o) == \A r \in Row : stock[r] + o.delta[r] >= 0

Apply(o) ==
  /\ Affordable(o)
  /\ stock'  = [r \in Row |-> stock[r] + o.delta[r]]
  /\ ledger' = [r \in Row |-> ledger[r] + o.delta[r]]

LedgerNext == \E o \in Workload : Apply(o)

LedgerSpec == LedgerInit /\ [][LedgerNext]_ledgerVars

(* No camp ever holds less than nothing of a resource. *)
NonNegative == \A r \in Row : stock[r] >= 0

(***************************************************************************)
(* The quantity column is the snapshot the schema says it is, "derived     *)
(* from inventory_log quantity_change deltas".                             *)
(***************************************************************************)
LedgerMatches == ledger = stock
=============================================================================
