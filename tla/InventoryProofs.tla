-------------------------- MODULE InventoryProofs --------------------------
(***************************************************************************)
(* Theorems about InventoryTransactions, for every set of camps, resource  *)
(* types and transactions and for every workload.  The argument: IndInv is *)
(* inductive; it gives NonNegative and LedgerMatches at once, and it makes *)
(* a commit add exactly one operation's changes, which is a step of        *)
(* InventoryLedger, while every other statement leaves the tables alone.   *)
(***************************************************************************)
EXTENDS InventoryTransactions, OperationProofs

-----------------------------------------------------------------------------
(* IndInv is inductive: one lemma per way a statement changes the state. *)

(* The invariant holds when the services start. *)
LEMMA InitInv == Init => IndInv
  <1> SUFFICES ASSUME Init PROVE IndInv
    OBVIOUS
  <1>1. NoChange \in [Row -> Int] /\ \A r \in Row : NoChange[r] = 0
    BY DEF NoChange
  <1>2. Idle \in OperationType
    BY <1>1 DEF Idle, OperationType, LogType
  <1>3. stock \in [Row -> Nat]
    BY DeploymentAssumption DEF Init, LedgerInit
  <1>4. TypeOK
    BY <1>1, <1>2, <1>3 DEF Init, LedgerInit, TypeOK, Running, Ended
  <1>5. WritesLocked
    BY <1>1, TxAssumption DEF Init, WritesLocked
  <1>6. Solvent /\ NonNegative /\ LedgerMatches
    BY <1>1, <1>3 DEF Init, LedgerInit, Solvent, NonNegative, LedgerMatches
  <1>7. Progress
    BY DEF Init, Progress, Running
  <1> QED
    BY <1>4, <1>5, <1>6, <1>7 DEF IndInv

(* A transaction that begins has written nothing. *)
LEMMA BeginInv ==
  ASSUME IndInv, NEW t \in Tx, Begin(t)
  PROVE  IndInv'
  <1> USE DEF IndInv
  <1>1. PICK o \in Workload :
          /\ op' = [op EXCEPT ![t] = o]
          /\ rest' = [rest EXCEPT ![t] = o.order]
          /\ pc' = [pc EXCEPT ![t] = IF o.type = "EXPEDITION_OUT" THEN "check" ELSE "write"]
    BY DEF Begin
  <1>2. WellFormed(o) /\ o.order \in Seq(Row) /\ o \in OperationType
    BY WorkloadWellFormed DEF WellFormed, OperationType
  <1>3. pc[t] = "idle" /\ UNCHANGED <<stock, ledger, present, lock, wrote, logged, inserted>>
    BY DEF Begin
  <1>4. pc'[t] \in {"check", "write"} /\ \A u \in Tx \ {t} : pc'[u] = pc[u]
    BY <1>1 DEF TypeOK
  <1>5. TypeOK'
    BY <1>1, <1>2, <1>3 DEF TypeOK, Running
  <1>6. \A r \in Row : wrote[t][r] = 0
    BY <1>3 DEF WritesLocked, TypeOK, Running
  <1>7. WritesLocked' /\ Solvent' /\ NonNegative' /\ LedgerMatches'
    BY <1>3, <1>4 DEF WritesLocked, Solvent, NonNegative, LedgerMatches, Running
  <1>8. Progress'
    <2>1. \A u \in Tx \ {t} : op'[u] = op[u] /\ rest'[u] = rest[u] /\ Change(u)' = Change(u)
      BY <1>1 DEF TypeOK, Change, NextRow
    <2>2. op'[t] = o /\ rest'[t] = o.order
      BY <1>1 DEF TypeOK
    <2>3. ASSUME NEW u \in Tx \ {t}, pc'[u] \in Running
          PROVE  /\ op'[u] \in Workload
                 /\ IsInjective(rest'[u])
                 /\ \A r \in Row : wrote'[u][r] = IF r \in Range(rest'[u]) THEN 0 ELSE op'[u].delta[r]
                 /\ pc'[u] \in {"check", "write", "insert"} => rest'[u] # <<>>
                 /\ pc'[u] = "insert" => Change(u)' > 0
                 /\ pc'[u] = "commit" => rest'[u] = <<>> /\ logged'[u] = wrote'[u]
      BY <1>3, <1>4, <2>1, <2>3 DEF Progress
    <2>4. /\ op'[t] \in Workload
          /\ IsInjective(rest'[t])
          /\ \A r \in Row : wrote'[t][r] = IF r \in Range(rest'[t]) THEN 0 ELSE op'[t].delta[r]
          /\ rest'[t] # <<>>
      BY <1>2, <1>3, <1>6, <2>2 DEF WellFormed, OperationType
    <2> QED
      BY <1>4, <2>3, <2>4 DEF Progress
  <1> QED
    BY <1>5, <1>7, <1>8

(* A transaction that is rolled back leaves nothing. *)
LEMMA RollbackInv ==
  ASSUME IndInv, NEW t \in Tx, Rollback(t)
  PROVE  IndInv'
  <1> USE DEF IndInv, Rollback
  <1>1. TypeOK'
    BY DEF TypeOK, NoChange, Ended
  <1>2. pc'[t] = "aborted" /\ \A u \in Tx \ {t} : pc'[u] = pc[u]
    BY DEF TypeOK
  <1>3. WritesLocked'
    BY <1>2, TxAssumption DEF WritesLocked, TypeOK, NoChange, Running
  <1>4. Solvent' /\ NonNegative' /\ LedgerMatches'
    BY DEF Solvent, NonNegative, LedgerMatches, TypeOK, NoChange
  <1>5. Progress'
    <2>1. \A u \in Tx : Change(u)' = Change(u)
      BY DEF Change, NextRow
    <2>2. \A u \in Tx \ {t} : wrote'[u] = wrote[u] /\ logged'[u] = logged[u]
      BY DEF TypeOK
    <2> QED
      BY <1>2, <2>1, <2>2 DEF Progress, Running
  <1> QED
    BY <1>1, <1>3, <1>4, <1>5

(* A row is written only when free, and only if that leaves it above zero. *)
LEMMA WriteRowInv ==
  ASSUME IndInv, NEW t \in Tx, pc[t] \in {"write", "insert"},
         Free(t, NextRow(t)), Visible(t, NextRow(t)) + Change(t) >= 0,
         WriteRow(t)
  PROVE  IndInv'
  <1> USE DEF IndInv
  <1> DEFINE n == NextRow(t)
  <1>1. /\ rest[t] \in Seq(Row) /\ rest[t] # <<>> /\ IsInjective(rest[t])
        /\ op[t] \in Workload
        /\ \A r \in Row : wrote[t][r] = IF r \in Range(rest[t]) THEN 0 ELSE op[t].delta[r]
    BY DEF TypeOK, Progress, Running
  <1>2. /\ n \in Row
        /\ Tail(rest[t]) \in Seq(Row)
        /\ IsInjective(Tail(rest[t]))
        /\ n \in Range(rest[t])
        /\ Range(Tail(rest[t])) = Range(rest[t]) \ {n}
    BY <1>1, TailFacts DEF NextRow
  <1>3. wrote[t][n] = 0 /\ Change(t) = op[t].delta[n] /\ Change(t) \in Int
    BY <1>1, <1>2 DEF Change, TypeOK, OperationType
  <1>4. /\ lock' = [lock EXCEPT ![n] = t]
        /\ wrote' = [wrote EXCEPT ![t][n] = wrote[t][n] + Change(t)]
        /\ inserted' = [inserted EXCEPT ![t] = IF Exists(t, n) THEN inserted[t]
                                                ELSE inserted[t] \cup {n}]
        /\ rest' = [rest EXCEPT ![t] = Tail(rest[t])]
        /\ UNCHANGED <<stock, ledger, present, op, logged>>
    BY DEF WriteRow
  <1>5. /\ pc' = [pc EXCEPT ![t] = pc'[t]]
        /\ pc'[t] \in {"write", "log"}
        /\ pc'[t] = "write" => Tail(rest[t]) # <<>>
    BY DEF WriteRow, TypeOK
  <1>6. /\ wrote'[t] = [wrote[t] EXCEPT ![n] = Change(t)]
        /\ \A u \in Tx \ {t} : wrote'[u] = wrote[u] /\ inserted'[u] = inserted[u]
                              /\ rest'[u] = rest[u] /\ pc'[u] = pc[u]
        /\ rest'[t] = Tail(rest[t])
        /\ lock'[n] = t
        /\ \A r \in Row \ {n} : lock'[r] = lock[r]
    <2>1. wrote[t] \in [Row -> Int] /\ wrote[t][n] + Change(t) = Change(t)
      BY <1>2, <1>3 DEF TypeOK
    <2>2. wrote' = [wrote EXCEPT ![t] = [wrote[t] EXCEPT ![n] = Change(t)]]
      BY <1>4, <2>1
    <2>3. wrote'[t] = [wrote[t] EXCEPT ![n] = Change(t)] /\ \A u \in Tx \ {t} : wrote'[u] = wrote[u]
      BY <2>2 DEF TypeOK
    <2>4. \A u \in Tx \ {t} : inserted'[u] = inserted[u]
      BY <1>4 DEF TypeOK
    <2>5. rest'[t] = Tail(rest[t]) /\ \A u \in Tx \ {t} : rest'[u] = rest[u]
      BY <1>4 DEF TypeOK
    <2>6. \A u \in Tx \ {t} : pc'[u] = pc[u]
      BY <1>5 DEF TypeOK
    <2>7. lock'[n] = t /\ \A r \in Row \ {n} : lock'[r] = lock[r]
      BY <1>2, <1>4 DEF TypeOK
    <2> QED
      BY <2>3, <2>4, <2>5, <2>6, <2>7
  <1>7. /\ wrote'[t][n] = Change(t)
        /\ \A r \in Row \ {n} : wrote'[t][r] = wrote[t][r]
    BY <1>2, <1>6 DEF TypeOK
  <1>8. TypeOK'
    <2>1. wrote'[t] \in [Row -> Int]
      BY <1>2, <1>3, <1>6 DEF TypeOK
    <2>2. wrote' \in [Tx -> [Row -> Int]]
      BY <1>4, <1>6, <2>1 DEF TypeOK
    <2>3. inserted' \in [Tx -> SUBSET Row]
      BY <1>2, <1>4 DEF TypeOK
    <2>4. lock' \in [Row -> Tx \cup {NoTx}]
      BY <1>4 DEF TypeOK
    <2>5. rest' \in [Tx -> Seq(Row)]
      BY <1>2, <1>4 DEF TypeOK
    <2>6. pc' \in [Tx -> {"idle"} \cup Running \cup Ended]
      BY <1>5 DEF TypeOK, Running
    <2> QED
      BY <1>4, <2>2, <2>3, <2>4, <2>5, <2>6 DEF TypeOK
  <1>9. WritesLocked'
    <2>1. ASSUME NEW u \in Tx, NEW r \in Row, wrote'[u][r] # 0 PROVE lock'[r] = u
      <3>1. CASE r = n
        <4>1. CASE u = t
          BY <1>6, <3>1, <4>1
        <4>2. CASE u # t
          BY <1>2, <1>6, <2>1, <3>1, <4>2, TxAssumption DEF WritesLocked, Free
        <4> QED
          BY <4>1, <4>2
      <3>2. CASE r # n
        <4>1. wrote[u][r] # 0
          BY <1>6, <1>7, <2>1, <3>2
        <4> QED
          BY <1>6, <3>2, <4>1 DEF WritesLocked
      <3> QED
        BY <3>1, <3>2
    <2>2. ASSUME NEW u \in Tx, NEW r \in Row, r \in inserted'[u]
          PROVE  lock'[r] = u /\ r \notin present'
      <3>1. CASE r \in inserted[u]
        <4>1. lock[r] = u /\ r \notin present
          BY <3>1 DEF WritesLocked
        <4>2. r = n => u = t
          BY <4>1, TxAssumption DEF Free
        <4> QED
          BY <1>4, <1>6, <4>1, <4>2
      <3>2. CASE r \notin inserted[u]
        <4>1. u = t /\ r = n /\ ~Exists(t, n)
          BY <1>4, <2>2, <3>2 DEF TypeOK
        <4> QED
          BY <1>4, <1>6, <4>1 DEF Exists
      <3> QED
        BY <3>1, <3>2
    <2>3. ASSUME NEW u \in Tx, NEW r \in Row, lock'[r] = u PROVE pc'[u] \in Running
      BY <1>5, <1>6, <1>7, <2>3 DEF WritesLocked, Running
    <2> QED
      BY <2>1, <2>2, <2>3 DEF WritesLocked
  <1>10. Solvent'
    <2>1. stock[n] + Change(t) >= 0
      BY <1>2, <1>3 DEF Visible, TypeOK
    <2> QED
      BY <1>2, <1>3, <1>4, <1>6, <1>7, <2>1 DEF Solvent, TypeOK
  <1>11. NonNegative' /\ LedgerMatches'
    BY <1>4 DEF NonNegative, LedgerMatches
  <1>12. Progress'
    <2>1. ASSUME NEW u \in Tx \ {t}, pc'[u] \in Running
          PROVE  /\ op'[u] \in Workload
                 /\ IsInjective(rest'[u])
                 /\ \A r \in Row : wrote'[u][r] = IF r \in Range(rest'[u]) THEN 0 ELSE op'[u].delta[r]
                 /\ pc'[u] \in {"check", "write", "insert"} => rest'[u] # <<>>
                 /\ pc'[u] = "insert" => Change(u)' > 0
                 /\ pc'[u] = "commit" => rest'[u] = <<>> /\ logged'[u] = wrote'[u]
      <3>1. Change(u)' = Change(u)
        BY <1>4, <1>6 DEF Change, NextRow
      <3> QED
        BY <1>4, <1>6, <2>1, <3>1 DEF Progress
    <2>2. /\ op'[t] \in Workload
          /\ IsInjective(rest'[t])
          /\ \A r \in Row : wrote'[t][r] = IF r \in Range(rest'[t]) THEN 0 ELSE op'[t].delta[r]
          /\ pc'[t] \in {"check", "write", "insert"} => rest'[t] # <<>>
          /\ pc'[t] \notin {"insert", "commit"}
      <3>1. \A r \in Row : wrote'[t][r] = IF r \in Range(rest'[t]) THEN 0 ELSE op'[t].delta[r]
        BY <1>1, <1>2, <1>3, <1>4, <1>6, <1>7
      <3> QED
        BY <1>1, <1>2, <1>4, <1>5, <1>6, <1>7, <3>1
    <2> QED
      BY <2>1, <2>2 DEF Progress
  <1> QED
    BY <1>8, <1>9, <1>10, <1>11, <1>12

(* What is logged is what has been written. *)
LEMMA LogInv ==
  ASSUME IndInv, NEW t \in Tx, Log(t)
  PROVE  IndInv'
  <1>1. op[t].delta \in [Row -> Int] /\ wrote[t] \in [Row -> Int]
    BY DEF IndInv, TypeOK, OperationType
  <1>2. logged'[t] = wrote[t]
    <2>1. \A r \in Row : wrote[t][r] # 0 => wrote[t][r] = op[t].delta[r]
      BY DEF IndInv, Log, Progress, Running
    <2>2. logged'[t] = [r \in Row |-> IF wrote[t][r] # 0 THEN op[t].delta[r] ELSE 0]
      BY DEF IndInv, Log, TypeOK
    <2>3. \A r \in Row : logged'[t][r] = wrote[t][r]
      BY <1>1, <2>1, <2>2
    <2> QED
      BY <1>1, <2>2, <2>3, Zenon
  <1>3. TypeOK'
    BY <1>1 DEF IndInv, Log, TypeOK, Running
  <1>4. pc'[t] = (IF rest[t] = <<>> THEN "commit" ELSE "write")
          /\ \A u \in Tx \ {t} : pc'[u] = pc[u] /\ logged'[u] = logged[u]
    BY DEF IndInv, Log, TypeOK
  <1>5. WritesLocked' /\ Solvent' /\ NonNegative' /\ LedgerMatches'
    BY <1>4 DEF IndInv, Log, WritesLocked, Solvent, NonNegative, LedgerMatches, Running
  <1>6. Progress'
    <2>1. \A u \in Tx : Change(u)' = Change(u)
      BY DEF Log, Change, NextRow
    <2> QED
      BY <1>2, <1>4, <2>1 DEF IndInv, Log, Progress, Running
  <1> QED
    BY <1>3, <1>5, <1>6 DEF IndInv

(* A committed operation has changed every row by its own change, no more. *)
LEMMA CommitWrites ==
  ASSUME IndInv, NEW t \in Tx, pc[t] = "commit"
  PROVE  \A r \in Row : wrote[t][r] = op[t].delta[r] /\ logged[t][r] = op[t].delta[r]
  <1>1. rest[t] = <<>> /\ logged[t] = wrote[t]
    BY DEF IndInv, Progress, Running
  <1>2. \A r \in Row : r \notin Range(rest[t])
    BY <1>1 DEF Range
  <1> QED
    BY <1>1, <1>2 DEF IndInv, Progress, Running

(* A commit makes visible only what its locks protected. *)
LEMMA CommitInv ==
  ASSUME IndInv, NEW t \in Tx, Commit(t)
  PROVE  IndInv'
  <1> USE DEF IndInv, Commit
  <1>1. TypeOK'
    BY DEF TypeOK, NoChange, Ended
  <1>2. pc'[t] = "committed" /\ \A u \in Tx \ {t} : pc'[u] = pc[u]
    BY DEF TypeOK
  <1>3. WritesLocked'
    BY <1>2, TxAssumption DEF WritesLocked, TypeOK, NoChange, Running
  <1>4. \A u \in Tx \ {t}, r \in Row : wrote[t][r] # 0 => wrote[u][r] = 0
    BY DEF WritesLocked
  <1>5. Solvent'
    <2> SUFFICES ASSUME NEW u \in Tx, NEW r \in Row PROVE stock'[r] + wrote'[u][r] >= 0
      BY DEF Solvent
    <2>1. stock'[r] = stock[r] + wrote[t][r] /\ stock'[r] \in Int /\ stock'[r] >= 0
      BY DEF TypeOK, Solvent
    <2>2. CASE u = t
      BY <2>1, <2>2 DEF TypeOK, NoChange
    <2>3. CASE u # t
      <3>1. wrote'[u][r] = wrote[u][r] /\ wrote[u][r] \in Int /\ stock[r] \in Int
        BY <2>3 DEF TypeOK
      <3>2. CASE wrote[t][r] = 0
        BY <2>1, <3>1, <3>2 DEF Solvent
      <3>3. CASE wrote[t][r] # 0
        BY <1>4, <2>1, <2>3, <3>1, <3>3
      <3> QED
        BY <3>2, <3>3
    <2> QED
      BY <2>2, <2>3
  <1>6. NonNegative'
    BY DEF Solvent, NonNegative, TypeOK
  <1>7. LedgerMatches'
    BY CommitWrites DEF LedgerMatches, TypeOK
  <1>8. Progress'
    <2>1. \A u \in Tx : Change(u)' = Change(u)
      BY DEF Change, NextRow
    <2>2. \A u \in Tx \ {t} : wrote'[u] = wrote[u] /\ logged'[u] = logged[u]
      BY DEF TypeOK
    <2> QED
      BY <1>2, <2>1, <2>2 DEF Progress, Running
  <1> QED
    BY <1>1, <1>3, <1>5, <1>6, <1>7, <1>8

(* Every statement leads from IndInv to IndInv. *)
LEMMA StatementInv ==
  ASSUME IndInv, NEW t \in Tx, Statement(t)
  PROVE  IndInv'
  <1>1. UNCHANGED <<stock, ledger, present, lock, op, rest, wrote, logged, inserted>>
          /\ pc[t] \in {"check", "write"} /\ pc' = [pc EXCEPT ![t] = pc'[t]]
          /\ pc'[t] \in {"write", "insert"} /\ (pc'[t] = "insert" => Change(t) > 0)
        => IndInv'
    <2> SUFFICES ASSUME UNCHANGED <<stock, ledger, present, lock, op, rest, wrote, logged, inserted>>,
                        pc[t] \in {"check", "write"}, pc' = [pc EXCEPT ![t] = pc'[t]],
                        pc'[t] \in {"write", "insert"}, pc'[t] = "insert" => Change(t) > 0
                 PROVE  IndInv'
      OBVIOUS
    <2>1. \A u \in Tx \ {t} : pc'[u] = pc[u]
      BY DEF IndInv, TypeOK
    <2>2. TypeOK'
      BY DEF IndInv, TypeOK, Running
    <2>3. WritesLocked' /\ Solvent' /\ NonNegative' /\ LedgerMatches'
      BY <2>1 DEF IndInv, WritesLocked, Solvent, NonNegative, LedgerMatches, Running
    <2>4. Progress'
      <3>1. pc[t] \in Running /\ Change(t)' = Change(t) /\ \A u \in Tx : Change(u)' = Change(u)
        BY DEF Running, Change, NextRow
      <3>2. pc'[t] \in {"check", "write", "insert"} => rest[t] # <<>>
        BY <3>1 DEF IndInv, Progress
      <3> QED
        BY <2>1, <3>1, <3>2 DEF IndInv, Progress
    <2> QED
      BY <2>2, <2>3, <2>4 DEF IndInv
  <1>2. pc[t] \in {"write", "insert"} => NextRow(t) \in Row /\ op[t].delta[NextRow(t)] \in Int
    BY TailFacts DEF IndInv, TypeOK, Progress, NextRow, OperationType, Running
  <1>3. pc[t] \in {"write", "insert"} /\ Change(t) > 0 => Visible(t, NextRow(t)) + Change(t) >= 0
    BY <1>2 DEF IndInv, Solvent, TypeOK, Visible, Change
  <1>4. CASE CheckStock(t)
    <2>1. CASE Rollback(t)
      BY <2>1, RollbackInv
    <2>2. CASE ~Rollback(t)
      BY <1>1, <1>4, <2>2 DEF CheckStock, IndInv, TypeOK
    <2> QED
      BY <2>1, <2>2
  <1>5. CASE Take(t)
    BY <1>5, WriteRowInv DEF Take, IsTake, Matches
  <1>6. CASE TakeRefused(t)
    BY <1>6, RollbackInv DEF TakeRefused
  <1>7. CASE Put(t)
    BY <1>3, <1>7, WriteRowInv DEF Put, IsPut
  <1>8. CASE GainUpdate(t)
    BY <1>3, <1>8, WriteRowInv DEF GainUpdate, IsGain
  <1>9. CASE GainMisses(t)
    BY <1>1, <1>9 DEF GainMisses, IsGain, IndInv, TypeOK
  <1>10. CASE GainInsert(t)
    <2>1. CASE Rollback(t)
      BY <2>1, RollbackInv
    <2>2. CASE WriteRow(t)
      BY <1>3, <1>10, <2>2, WriteRowInv DEF GainInsert, IndInv, Progress, Running
    <2> QED
      BY <1>10, <2>1, <2>2 DEF GainInsert
  <1>11. CASE Log(t)
    BY <1>11, LogInv
  <1>12. CASE Commit(t)
    BY <1>12, CommitInv
  <1> QED
    BY <1>4, <1>5, <1>6, <1>7, <1>8, <1>9, <1>10, <1>11, <1>12 DEF Statement

(* IndInv is inductive. *)
LEMMA StepInv == IndInv /\ [Next]_vars => IndInv'
  <1> SUFFICES ASSUME IndInv, [Next]_vars PROVE IndInv'
    OBVIOUS
  <1>1. CASE UNCHANGED vars
    BY <1>1 DEF vars, IndInv, TypeOK, WritesLocked, Solvent, Progress, NonNegative, LedgerMatches,
                Change, NextRow
  <1>2. ASSUME NEW t \in Tx, Begin(t) PROVE IndInv'
    BY <1>2, BeginInv
  <1>3. ASSUME NEW t \in Tx, Statement(t) PROVE IndInv'
    BY <1>3, StatementInv
  <1>4. ASSUME NEW t \in Tx, DeadlockVictim(t) \/ Expire(t) PROVE IndInv'
    BY <1>4, RollbackInv DEF DeadlockVictim, Expire
  <1> QED
    BY <1>1, <1>2, <1>3, <1>4 DEF Next, Quiet

-----------------------------------------------------------------------------
(* The state of every run is well typed, a row is written under its lock,  *)
(* and a transaction has written exactly what it no longer has to write.   *)
THEOREM Invariance == Spec => []IndInv
  <1> QED
    BY InitInv, StepInv, PTL DEF Spec

(***************************************************************************)
(* consumeInventoryWithLog and its siblings never drive inventories.quantity *)
(* below zero, whatever runs beside them and wherever it is cut short.     *)
(***************************************************************************)
THEOREM StockNeverNegative == Spec => []NonNegative
  <1>1. IndInv => NonNegative
    BY DEF IndInv
  <1> QED
    BY <1>1, Invariance, PTL

(***************************************************************************)
(* inventories.quantity is always the sum of the logged quantity changes:  *)
(* no interleaving, refusal, timeout or deadlock loses one or logs one     *)
(* that did not happen.                                                    *)
(***************************************************************************)
THEOREM QuantityIsLedger == Spec => []LedgerMatches
  <1>1. IndInv => LedgerMatches
    BY DEF IndInv
  <1> QED
    BY <1>1, Invariance, PTL

(* Only COMMIT changes the tables, and it applies one whole operation. *)
LEMMA StepRefines == IndInv /\ [Next]_vars => [LedgerNext]_ledgerVars
  <1> SUFFICES ASSUME IndInv, [Next]_vars PROVE [LedgerNext]_ledgerVars
    OBVIOUS
  <1>1. ASSUME NEW t \in Tx, Commit(t) PROVE LedgerNext
    <2>1. op[t] \in Workload
      BY <1>1 DEF Commit, IndInv, Progress, Running
    <2>2. \A r \in Row : wrote[t][r] = op[t].delta[r] /\ logged[t][r] = op[t].delta[r]
      BY <1>1, CommitWrites DEF Commit
    <2>3. Affordable(op[t])
      BY <2>2 DEF Affordable, IndInv, Solvent
    <2>4. Apply(op[t])
      BY <1>1, <2>2, <2>3 DEF Commit, Apply
    <2> QED
      BY <2>1, <2>4 DEF LedgerNext
  <1>2. ASSUME NEW t \in Tx, Begin(t) PROVE UNCHANGED ledgerVars
    BY <1>2 DEF Begin, ledgerVars
  <1>3. ASSUME NEW t \in Tx, Rollback(t) \/ WriteRow(t) PROVE UNCHANGED ledgerVars
    BY <1>3 DEF Rollback, WriteRow, ledgerVars
  <1>4. ASSUME NEW t \in Tx, Statement(t), ~Commit(t) PROVE UNCHANGED ledgerVars
    BY <1>3, <1>4 DEF Statement, CheckStock, Take, TakeRefused, Put, GainUpdate,
                      GainMisses, GainInsert, Log, ledgerVars
  <1>5. ASSUME NEW t \in Tx, DeadlockVictim(t) \/ Expire(t) PROVE UNCHANGED ledgerVars
    BY <1>3, <1>5 DEF DeadlockVictim, Expire
  <1> QED
    BY <1>1, <1>2, <1>4, <1>5 DEF Next, Quiet, vars, ledgerVars

(***************************************************************************)
(* Seen through the two tables, concurrent transactions are operations     *)
(* executed one at a time and whole: the services may be modelled, above   *)
(* this level, by atomic steps of InventoryLedger.                         *)
(***************************************************************************)
THEOREM TransactionsRefineLedger == Spec => LedgerSpec
  <1>1. Init => LedgerInit
    BY DEF Init
  <1> QED
    BY <1>1, Invariance, StepRefines, PTL DEF Spec, LedgerSpec
=============================================================================
