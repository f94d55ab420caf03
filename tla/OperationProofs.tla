-------------------------- MODULE OperationProofs --------------------------
(***************************************************************************)
(* What the operations of the services are built from: facts about item    *)
(* lists, rows and orders that the proofs about executing them rest on.    *)
(***************************************************************************)
EXTENDS InventoryLedger, TLAPS

(* A single-row operation, whose only row is the one it changes. *)
LEMMA OneRowWellFormed ==
  ASSUME NEW type \in LogType, NEW row \in Row, NEW change \in Int
  PROVE  WellFormed(OneRow(type, row, change))
  <1> DEFINE o == OneRow(type, row, change)
  <1>1. o.delta \in [Row -> Int]
    BY DEF OneRow, Only, NoChange
  <1>2. o.order \in Seq(Row) /\ o.order # <<>> /\ DOMAIN o.order = {1} /\ o.order[1] = row
    BY DEF OneRow
  <1>3. o \in OperationType
    BY <1>1, <1>2 DEF OperationType, OneRow
  <1>4. \A r \in Row : o.delta[r] # 0 => r = row
    BY DEF OneRow, Only, NoChange
  <1> QED
    BY <1>2, <1>3, <1>4 DEF WellFormed, IsInjective, Range

(* An item list names each resource once, so its camp's rows do not repeat. *)
LEMMA ItemListFacts ==
  ASSUME NEW items \in ItemLists
  PROVE  /\ items \in Seq(Resource)
         /\ Len(items) \in Nat \ {0}
         /\ DOMAIN items = 1 .. Len(items)
         /\ \A i, j \in 1 .. Len(items) : items[i] = items[j] => i = j
  <1>1. PICK n \in 1 .. MaxItems : items \in Injection(1 .. n, Resource)
    BY DEF ItemLists
  <1>2. n \in Nat \ {0} /\ items \in [1 .. n -> Resource] /\ IsInjective(items)
    BY <1>1, BoundsAssumption DEF Injection
  <1> QED
    BY <1>2 DEF IsInjective

(* An expedition's outflow, from one camp. *)
LEMMA OutflowWellFormed ==
  ASSUME NEW c \in Camp, NEW items \in ItemLists, NEW amount \in [Resource -> Qty]
  PROVE  WellFormed(Outflow(c, items, amount))
  <1> DEFINE o == Outflow(c, items, amount)
  <1>1. o.delta \in [Row -> Int]
    <2>1. \A r \in Row : r[2] \in Resource
      BY DEF Row
    <2> QED
      BY <2>1, BoundsAssumption DEF Outflow, Qty
  <1>2. /\ o.order \in Seq(Row) /\ o.order # <<>>
        /\ DOMAIN o.order = DOMAIN items
        /\ \A i \in DOMAIN items : o.order[i] = <<c, items[i]>>
    BY ItemListFacts DEF Outflow, Row
  <1>3. IsInjective(o.order)
    BY <1>2, ItemListFacts DEF IsInjective
  <1>4. ASSUME NEW r \in Row, o.delta[r] # 0 PROVE r \in Range(o.order)
    <2>1. r[1] = c /\ r[2] \in Range(items) /\ r = <<r[1], r[2]>>
      BY <1>4 DEF Outflow, Row
    <2> QED
      BY <1>2, <2>1 DEF Range
  <1> QED
    BY <1>1, <1>2, <1>3, <1>4 DEF WellFormed, OperationType, Outflow, LogType

(* An expedition's return, to one camp. *)
LEMMA ReturnWellFormed ==
  ASSUME NEW c \in Camp, NEW items \in ItemLists, NEW amount \in [Resource -> Qty]
  PROVE  WellFormed(Return(c, items, amount))
  <1> DEFINE o == Return(c, items, amount)
  <1>1. o.delta \in [Row -> Int]
    <2>1. \A r \in Row : r[2] \in Resource
      BY DEF Row
    <2> QED
      BY <2>1, BoundsAssumption DEF Return, Qty
  <1>2. /\ o.order \in Seq(Row) /\ o.order # <<>>
        /\ DOMAIN o.order = DOMAIN items
        /\ \A i \in DOMAIN items : o.order[i] = <<c, items[i]>>
    BY ItemListFacts DEF Return, Row
  <1>3. IsInjective(o.order)
    BY <1>2, ItemListFacts DEF IsInjective
  <1>4. ASSUME NEW r \in Row, o.delta[r] # 0 PROVE r \in Range(o.order)
    <2>1. r[1] = c /\ r[2] \in Range(items) /\ r = <<r[1], r[2]>>
      BY <1>4 DEF Return, Row
    <2> QED
      BY <1>2, <2>1 DEF Range
  <1> QED
    BY <1>1, <1>2, <1>3, <1>4 DEF WellFormed, OperationType, Return, LogType

(* A transfer, whose rows alternate between two different camps. *)
LEMMA TransferWellFormed ==
  ASSUME NEW from \in Camp, NEW to \in Camp, from # to,
         NEW items \in ItemLists, NEW amount \in [Resource -> Qty]
  PROVE  WellFormed(Transfer(from, to, items, amount))
  <1> DEFINE o == Transfer(from, to, items, amount)
             n == Len(items)
             half(i) == (i + 1) \div 2
  <1>1. o.delta \in [Row -> Int]
    <2>1. \A r \in Row : r[2] \in Resource
      BY DEF Row
    <2> QED
      BY <2>1, BoundsAssumption DEF Transfer, Qty
  <1>2. \A i \in 1 .. 2 * n : half(i) \in 1 .. n
    BY ItemListFacts
  <1>3. /\ o.order \in Seq(Row) /\ o.order # <<>>
        /\ DOMAIN o.order = 1 .. 2 * n
        /\ \A i \in 1 .. 2 * n : o.order[i] = <<IF i % 2 = 1 THEN from ELSE to, items[half(i)]>>
    <2>1. \A i \in 1 .. 2 * n : <<IF i % 2 = 1 THEN from ELSE to, items[half(i)]>> \in Row
      BY <1>2, ItemListFacts DEF Row
    <2>2. 2 * n \in Nat \ {0}
      BY ItemListFacts
    <2>3. o.order = [i \in 1 .. 2 * n |-> <<IF i % 2 = 1 THEN from ELSE to, items[half(i)]>>]
      BY DEF Transfer
    <2>4. o.order \in [1 .. 2 * n -> Row]
      BY <2>1, <2>3
    <2>5. o.order \in Seq(Row) /\ DOMAIN o.order = 1 .. 2 * n /\ o.order # <<>>
      BY <2>2, <2>4
    <2> QED
      BY <2>3, <2>5
  <1>4. IsInjective(o.order)
    <2>1. SUFFICES ASSUME NEW i \in 1 .. 2 * n, NEW j \in 1 .. 2 * n, o.order[i] = o.order[j]
                   PROVE  i = j
      BY <1>3 DEF IsInjective
    <2>2. half(i) = half(j)
      BY <1>2, <1>3, <2>1, ItemListFacts
    <2>3. (i % 2 = 1) <=> (j % 2 = 1)
      BY <1>3, <2>1
    <2> QED
      BY <2>2, <2>3, ItemListFacts
  <1>5. ASSUME NEW r \in Row, o.delta[r] # 0 PROVE r \in Range(o.order)
    <2>1. r[1] \in {from, to} /\ r[2] \in Range(items) /\ r = <<r[1], r[2]>>
      BY <1>5 DEF Transfer, Row
    <2>2. PICK k \in 1 .. n : r[2] = items[k]
      BY <2>1, ItemListFacts DEF Range
    <2>3. /\ 2 * k - 1 \in 1 .. 2 * n /\ half(2 * k - 1) = k /\ (2 * k - 1) % 2 = 1
          /\ 2 * k \in 1 .. 2 * n /\ half(2 * k) = k /\ (2 * k) % 2 # 1
      BY ItemListFacts
    <2>4. r = o.order[2 * k - 1] \/ r = o.order[2 * k]
      BY <1>3, <2>1, <2>2, <2>3
    <2> QED
      BY <1>3, <2>3, <2>4 DEF Range
  <1> QED
    BY <1>1, <1>3, <1>4, <1>5 DEF WellFormed, OperationType, Transfer, LogType

(* Whatever clients and jobs may ask for is well formed. *)
LEMMA WorkloadWellFormed ==
  ASSUME NEW o \in Workload PROVE WellFormed(o)
  <1>1. \A q \in Qty : q \in Int /\ -q \in Int
    BY BoundsAssumption DEF Qty
  <1>2. CASE o \in Consumptions \cup Gains \cup Adjustments
    BY <1>1, <1>2, OneRowWellFormed DEF Consumptions, Gains, Adjustments, LogType
  <1>3. CASE o \in Expeditions
    BY <1>3, OutflowWellFormed, ReturnWellFormed DEF Expeditions
  <1>4. CASE o \in Transfers
    BY <1>4, TransferWellFormed DEF Transfers
  <1> QED
    BY <1>2, <1>3, <1>4, DeploymentAssumption DEF Operations

(* What is left to write after the next row has been written. *)
LEMMA TailFacts ==
  ASSUME NEW S, NEW s \in Seq(S), s # <<>>, IsInjective(s)
  PROVE  /\ Head(s) \in S
         /\ Tail(s) \in Seq(S)
         /\ IsInjective(Tail(s))
         /\ Range(s) \subseteq S
         /\ Head(s) \in Range(s)
         /\ Range(Tail(s)) = Range(s) \ {Head(s)}
  <1>1. /\ Len(s) \in Nat \ {0}
        /\ s \in [1 .. Len(s) -> S]
        /\ Head(s) = s[1]
        /\ Tail(s) \in Seq(S)
        /\ DOMAIN Tail(s) = 1 .. Len(s) - 1
        /\ \A i \in 1 .. Len(s) - 1 : Tail(s)[i] = s[i + 1]
    OBVIOUS
  <1>2. IsInjective(Tail(s))
    BY <1>1 DEF IsInjective
  <1>3. Range(Tail(s)) \subseteq Range(s) \ {Head(s)}
    BY <1>1 DEF Range, IsInjective
  <1>4. ASSUME NEW x \in Range(s), x # Head(s) PROVE x \in Range(Tail(s))
    <2>1. PICK i \in 1 .. Len(s) : x = s[i]
      BY <1>1 DEF Range
    <2>2. i - 1 \in 1 .. Len(s) - 1 /\ Tail(s)[i - 1] = x
      BY <1>1, <1>4, <2>1
    <2> QED
      BY <1>1, <2>2 DEF Range
  <1> QED
    BY <1>1, <1>2, <1>3, <1>4 DEF Range

(* One operation applied to well typed tables leaves them well typed. *)
LEMMA ApplyTyped ==
  ASSUME NEW o \in Workload, stock \in [Row -> Int], ledger \in [Row -> Int], Apply(o)
  PROVE  /\ stock' \in [Row -> Int] /\ ledger' \in [Row -> Int]
         /\ \A r \in Row : stock'[r] >= 0
         /\ ledger = stock => ledger' = stock'
  <1>1. o.delta \in [Row -> Int]
    BY WorkloadWellFormed DEF WellFormed, OperationType
  <1> QED
    BY <1>1 DEF Apply, Affordable
=============================================================================
