------------------------ MODULE InventoryOperations ------------------------
(***************************************************************************)
(* What one transaction of the API may ask of the tables `inventories` and *)
(* `inventory_logs`.  Every service that touches stock is listed here once *)
(* as a set of operations; the modules that follow say how an operation is *)
(* executed (InventoryTransactions) and what its execution must amount to  *)
(* (InventoryLedger).                                                      *)
(*                                                                         *)
(* Quantities are Decimal(12,2) in the schema and small naturals here: the *)
(* unit is one hundredth, every quantity of the DTOs being positive.  That *)
(* quantities are whole hundredths is an assumption: the DTOs do not ask   *)
(* for it, and the column rounds.                                          *)
(***************************************************************************)
EXTENDS Integers, Sequences, FiniteSets, Functions

CONSTANTS
  Camp,       \* the camps
  Resource,   \* the resource types
  MaxQty,     \* the largest quantity an operation moves
  MaxItems    \* the most resource items a transfer or an expedition lists

ASSUME BoundsAssumption == MaxQty \in Nat /\ MaxItems \in Nat

(* uq_camp_resource: one inventory row per camp and resource type. *)
Row == Camp \X Resource

Qty == 1 .. MaxQty

(* The log_type written; TRANSFER stands for the pair TRANSFER_OUT/_IN. *)
LogType == {"DAILY_RATION", "DAILY_GAIN", "MANUAL_IN", "MANUAL_OUT",
            "EXPEDITION_OUT", "EXPEDITION_IN", "TRANSFER"}

(***************************************************************************)
(* An operation: the rows it writes, in the order it writes them, and the  *)
(* signed change of each.  Callers aggregate their items by resource type, *)
(* so an operation writes a row once.  (An expedition that returns does so *)
(* for what it gives back and again for what it found; a resource in both  *)
(* is written twice under one lock, and counts here as one row with the    *)
(* sum.)                                                                   *)
(***************************************************************************)
OperationType == [type: LogType, order: Seq(Row), delta: [Row -> Int]]

NoChange == [r \in Row |-> 0]

Only(row, change) == [NoChange EXCEPT ![row] = change]

OneRow(type, row, change) ==
  [type |-> type, order |-> <<row>>, delta |-> Only(row, change)]

Consumptions == {OneRow("DAILY_RATION", r, -q) : r \in Row, q \in Qty}

Gains == {OneRow("DAILY_GAIN", r, q) : r \in Row, q \in Qty}

Adjustments == {OneRow("MANUAL_IN", r, q) : r \in Row, q \in Qty}
                 \cup {OneRow("MANUAL_OUT", r, -q) : r \in Row, q \in Qty}

(* The distinct resource types of an aggregated item list, in list order. *)
ItemLists == UNION {Injection(1 .. n, Resource) : n \in 1 .. MaxItems}

(* handleResourceOutflow: each listed resource leaves the camp. *)
Outflow(c, items, amount) ==
  [type  |-> "EXPEDITION_OUT",
   order |-> [i \in DOMAIN items |-> <<c, items[i]>>],
   delta |-> [r \in Row |-> IF r[1] = c /\ r[2] \in Range(items)
                            THEN -amount[r[2]] ELSE 0]]

(* handleResourceReturn: each listed resource enters the camp. *)
Return(c, items, amount) ==
  [type  |-> "EXPEDITION_IN",
   order |-> [i \in DOMAIN items |-> <<c, items[i]>>],
   delta |-> [r \in Row |-> IF r[1] = c /\ r[2] \in Range(items)
                            THEN amount[r[2]] ELSE 0]]

(* applyResourceTransfer: per item, the source row and then the target row. *)
Transfer(from, to, items, amount) ==
  [type  |-> "TRANSFER",
   order |-> [i \in 1 .. 2 * Len(items) |->
                <<IF i % 2 = 1 THEN from ELSE to, items[(i + 1) \div 2]>>],
   delta |-> [r \in Row |-> IF r[2] \notin Range(items) \/ r[1] \notin {from, to} THEN 0
                            ELSE IF r[1] = from THEN -amount[r[2]] ELSE amount[r[2]]]]

Expeditions ==
  {Outflow(c, items, amount) : c \in Camp, items \in ItemLists, amount \in [Resource -> Qty]}
    \cup {Return(c, items, amount) : c \in Camp, items \in ItemLists, amount \in [Resource -> Qty]}

Transfers ==
  {Transfer(p[1], p[2], items, amount) :
     p \in {q \in Camp \X Camp : q[1] # q[2]}, items \in ItemLists, amount \in [Resource -> Qty]}

(* No row twice, none missed, and something to write. *)
WellFormed(o) ==
  /\ o \in OperationType
  /\ o.order # <<>>
  /\ IsInjective(o.order)
  /\ \A r \in Row : o.delta[r] # 0 => r \in Range(o.order)

Operations == Consumptions \cup Gains \cup Adjustments \cup Expeditions \cup Transfers
=============================================================================
