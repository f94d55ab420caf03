----------------------- MODULE InventoryTransactions -----------------------
(***************************************************************************)
(* How an inventory operation runs: as one interactive Prisma transaction, *)
(* statement by statement, against PostgreSQL at READ COMMITTED, while     *)
(* other transactions run theirs.                                          *)
(*                                                                         *)
(* A statement sees the committed rows and its own writes.  The first      *)
(* write of a row locks it until the transaction ends; a statement that    *)
(* finds its row locked waits, and then re-evaluates its WHERE clause on   *)
(* the row it was waiting for.  A transaction that ends without COMMIT     *)
(* leaves nothing behind.                                                  *)
(***************************************************************************)
EXTENDS InventoryLedger

CONSTANTS
  Tx,     \* the transactions: one per request or job step
  NoTx    \* the owner of a row nobody has locked

ASSUME TxAssumption == NoTx \notin Tx

VARIABLES
  present,   \* the rows of `inventories` that exist
  lock,      \* lock[r]: the transaction that has written row r and not ended
  pc,        \* pc[t]: the statement t executes next
  op,        \* op[t]: the operation t executes
  rest,      \* rest[t]: the rows t has still to write, in order
  wrote,     \* wrote[t][r]: t's uncommitted change of stock[r]
  logged,    \* logged[t][r]: t's uncommitted log entry for row r
  inserted   \* inserted[t]: the rows t has inserted and not committed

txVars == <<lock, pc, op, rest, wrote, logged, inserted>>
vars   == <<stock, ledger, present, lock, pc, op, rest, wrote, logged, inserted>>

Running == {"check", "write", "insert", "log", "commit"}
Ended   == {"committed", "aborted"}

Idle == [type |-> "MANUAL_IN", order |-> <<>>, delta |-> NoChange]

TypeOK ==
  /\ stock \in [Row -> Int]
  /\ ledger \in [Row -> Int]
  /\ present \subseteq Row
  /\ lock \in [Row -> Tx \cup {NoTx}]
  /\ pc \in [Tx -> {"idle"} \cup Running \cup Ended]
  /\ op \in [Tx -> OperationType]
  /\ rest \in [Tx -> Seq(Row)]
  /\ wrote \in [Tx -> [Row -> Int]]
  /\ logged \in [Tx -> [Row -> Int]]
  /\ inserted \in [Tx -> SUBSET Row]

Init ==
  /\ LedgerInit
  /\ present \in SUBSET Row
  /\ \A r \in Row \ present : stock[r] = 0
  /\ lock = [r \in Row |-> NoTx]
  /\ pc = [t \in Tx |-> "idle"]
  /\ op = [t \in Tx |-> Idle]
  /\ rest = [t \in Tx |-> <<>>]
  /\ wrote = [t \in Tx |-> NoChange]
  /\ logged = [t \in Tx |-> NoChange]
  /\ inserted = [t \in Tx |-> {}]

-----------------------------------------------------------------------------
(* What a statement of t sees of row r. *)
Exists(t, r)  == r \in present \cup inserted[t]
Visible(t, r) == stock[r] + wrote[t][r]
Free(t, r)    == lock[r] \in {NoTx, t}

NextRow(t) == Head(rest[t])
Change(t)  == op[t].delta[NextRow(t)]

(* Mutant of Matches: the decrement has lost its `quantity gte` clause. *)
MatchesAnyQuantity(t) == Exists(t, NextRow(t))

(* updateMany ... where quantity gte: does the row satisfy the clause? *)
Matches(t) == Exists(t, NextRow(t)) /\ Visible(t, NextRow(t)) + Change(t) >= 0

(* The three ways the services write an inventory row. *)
IsTake(t) == pc[t] = "write" /\ Change(t) < 0
IsGain(t) == pc[t] = "write" /\ Change(t) > 0 /\ op[t].type = "DAILY_GAIN"
IsPut(t)  == pc[t] = "write" /\ Change(t) > 0 /\ op[t].type # "DAILY_GAIN"

(* Mutant of Rollback: the failed transaction's connection keeps its locks. *)
RollbackLeaks(t) ==
  /\ pc' = [pc EXCEPT ![t] = "aborted"]
  /\ wrote' = [wrote EXCEPT ![t] = NoChange]
  /\ logged' = [logged EXCEPT ![t] = NoChange]
  /\ inserted' = [inserted EXCEPT ![t] = {}]
  /\ UNCHANGED <<stock, ledger, present, lock, op, rest>>

(* Leave the database as if t had never run. *)
Rollback(t) ==
  /\ pc' = [pc EXCEPT ![t] = "aborted"]
  /\ lock' = [r \in Row |-> IF lock[r] = t THEN NoTx ELSE lock[r]]
  /\ wrote' = [wrote EXCEPT ![t] = NoChange]
  /\ logged' = [logged EXCEPT ![t] = NoChange]
  /\ inserted' = [inserted EXCEPT ![t] = {}]
  /\ UNCHANGED <<stock, ledger, present, op, rest>>

(***************************************************************************)
(* Write the next row.  A transfer collects its log entries and writes     *)
(* them after its last row; every other operation logs row by row.         *)
(***************************************************************************)
WriteRow(t) ==
  LET r == NextRow(t) IN
  /\ lock' = [lock EXCEPT ![r] = t]
  /\ wrote' = [wrote EXCEPT ![t][r] = @ + Change(t)]
  /\ inserted' = [inserted EXCEPT ![t] = IF Exists(t, r) THEN @ ELSE @ \cup {r}]
  /\ rest' = [rest EXCEPT ![t] = Tail(@)]
  /\ pc' = [pc EXCEPT ![t] = IF op[t].type = "TRANSFER" /\ Tail(rest[t]) # <<>>
                             THEN "write" ELSE "log"]
  /\ UNCHANGED <<stock, ledger, present, op, logged>>

-----------------------------------------------------------------------------
(* A request or a job opens a transaction for one operation. *)
Begin(t) ==
  /\ pc[t] = "idle"
  /\ \E o \in Workload :
       /\ op' = [op EXCEPT ![t] = o]
       /\ rest' = [rest EXCEPT ![t] = o.order]
       /\ pc' = [pc EXCEPT ![t] = IF o.type = "EXPEDITION_OUT" THEN "check" ELSE "write"]
  /\ UNCHANGED <<stock, ledger, present, lock, wrote, logged, inserted>>

(* handleResourceOutflow reads all its rows first and refuses early. *)
CheckStock(t) ==
  /\ pc[t] = "check"
  /\ IF \A r \in Range(rest[t]) : r \in present /\ stock[r] + op[t].delta[r] >= 0
     THEN /\ pc' = [pc EXCEPT ![t] = "write"]
          /\ UNCHANGED <<stock, ledger, present, lock, op, rest, wrote, logged, inserted>>
     ELSE Rollback(t)

(* The guarded decrement finds the row and its quantity sufficient. *)
Take(t) ==
  /\ IsTake(t)
  /\ Matches(t)
  /\ Free(t, NextRow(t))
  /\ WriteRow(t)

(* Mutant of TakeRefused: nobody looks at the count, the next row follows. *)
TakeSkipped(t) ==
  /\ IsTake(t)
  /\ ~Matches(t)
  /\ rest' = [rest EXCEPT ![t] = Tail(@)]
  /\ pc' = [pc EXCEPT ![t] = IF Tail(rest[t]) = <<>> THEN "log" ELSE "write"]
  /\ UNCHANGED <<stock, ledger, present, lock, op, wrote, logged, inserted>>

(***************************************************************************)
(* The guarded decrement updates no row: "Insufficient inventory".  A row  *)
(* whose committed quantity is already too small is not even waited for.   *)
(***************************************************************************)
TakeRefused(t) ==
  /\ IsTake(t)
  /\ ~Matches(t)
  /\ Rollback(t)

(* upsert: one INSERT ... ON CONFLICT DO UPDATE, which never misses. *)
Put(t) ==
  /\ IsPut(t)
  /\ Free(t, NextRow(t))
  /\ WriteRow(t)

(* increaseInventoryWithLog: updateMany on a row that exists ... *)
GainUpdate(t) ==
  /\ IsGain(t)
  /\ Exists(t, NextRow(t))
  /\ Free(t, NextRow(t))
  /\ WriteRow(t)

(* ... or, when it updated none, a create of the row ... *)
GainMisses(t) ==
  /\ IsGain(t)
  /\ ~Exists(t, NextRow(t))
  /\ pc' = [pc EXCEPT ![t] = "insert"]
  /\ UNCHANGED <<stock, ledger, present, lock, op, rest, wrote, logged, inserted>>

(* ... which fails on uq_camp_resource if another has created it since. *)
GainInsert(t) ==
  /\ pc[t] = "insert"
  /\ Free(t, NextRow(t))
  /\ IF Exists(t, NextRow(t)) THEN Rollback(t) ELSE WriteRow(t)

(* Mutant of Log: only what leaves a camp is logged. *)
LogTakes(t) ==
  /\ pc[t] = "log"
  /\ logged' = [logged EXCEPT ![t] = [r \in Row |-> IF wrote[t][r] < 0
                                                    THEN op[t].delta[r] ELSE 0]]
  /\ pc' = [pc EXCEPT ![t] = IF rest[t] = <<>> THEN "commit" ELSE "write"]
  /\ UNCHANGED <<stock, ledger, present, lock, op, rest, wrote, inserted>>

(* Mutant of Log: the rows written so far are committed on their own. *)
LogAndCommit(t) ==
  /\ pc[t] = "log"
  /\ logged' = [logged EXCEPT ![t] = wrote[t]]
  /\ pc' = [pc EXCEPT ![t] = "commit"]
  /\ UNCHANGED <<stock, ledger, present, lock, op, rest, wrote, inserted>>

(* inventory_logs.create / createMany for the rows written since. *)
Log(t) ==
  /\ pc[t] = "log"
  /\ logged' = [logged EXCEPT ![t] = [r \in Row |-> IF wrote[t][r] # 0
                                                    THEN op[t].delta[r] ELSE 0]]
  /\ pc' = [pc EXCEPT ![t] = IF rest[t] = <<>> THEN "commit" ELSE "write"]
  /\ UNCHANGED <<stock, ledger, present, lock, op, rest, wrote, inserted>>

Commit(t) ==
  /\ pc[t] = "commit"
  /\ stock' = [r \in Row |-> stock[r] + wrote[t][r]]
  /\ ledger' = [r \in Row |-> ledger[r] + logged[t][r]]
  /\ present' = present \cup inserted[t]
  /\ pc' = [pc EXCEPT ![t] = "committed"]
  /\ lock' = [r \in Row |-> IF lock[r] = t THEN NoTx ELSE lock[r]]
  /\ wrote' = [wrote EXCEPT ![t] = NoChange]
  /\ logged' = [logged EXCEPT ![t] = NoChange]
  /\ inserted' = [inserted EXCEPT ![t] = {}]
  /\ UNCHANGED <<op, rest>>

-----------------------------------------------------------------------------
(* The transaction t waits for, if its next statement waits at all. *)
Waits(t) ==
  /\ \/ IsTake(t) /\ Matches(t)
     \/ IsPut(t)
     \/ IsGain(t) /\ Exists(t, NextRow(t))
     \/ pc[t] = "insert"
  /\ ~Free(t, NextRow(t))

Blocker(t) == lock[NextRow(t)]

(* t is on a cycle of transactions that wait for one another. *)
Deadlocked(t) ==
  \E cycle \in SUBSET Tx : /\ t \in cycle
                           /\ \A u \in cycle : Waits(u)
                           /\ {Blocker(u) : u \in cycle} = cycle

(* PostgreSQL's deadlock detector cancels one transaction of a cycle. *)
DeadlockVictim(t) == Deadlocked(t) /\ Rollback(t)

(***************************************************************************)
(* The transaction outlives Prisma's timeout, loses its connection, or the *)
(* process dies: possible before every statement, COMMIT included.         *)
(***************************************************************************)
Expire(t) == pc[t] \in Running /\ Rollback(t)

Statement(t) ==
  \/ CheckStock(t)
  \/ Take(t)
  \/ TakeRefused(t)
  \/ Put(t)
  \/ GainUpdate(t)
  \/ GainMisses(t)
  \/ GainInsert(t)
  \/ Log(t)
  \/ Commit(t)

(* Every transaction has ended: the model's requests are used up. *)
Quiet == (\A t \in Tx : pc[t] \in Ended) /\ UNCHANGED vars

Next ==
  \/ \E t \in Tx : Begin(t) \/ Statement(t) \/ DeadlockVictim(t) \/ Expire(t)
  \/ Quiet

Spec == Init /\ [][Next]_vars

(***************************************************************************)
(* An open transaction goes on to its next statement when that statement   *)
(* does not wait (the handlers await nothing else in between), and the     *)
(* deadlock detector runs.  Nothing obliges a request to arrive, nor a     *)
(* transaction to expire.                                                  *)
(***************************************************************************)
Fairness == \A t \in Tx : WF_vars(Statement(t)) /\ WF_vars(DeadlockVictim(t))

FairSpec == Spec /\ Fairness

-----------------------------------------------------------------------------
(* Uncommitted writes belong to whoever holds the row's lock, and a lock   *)
(* belongs to a transaction that is still running.                         *)
WritesLocked ==
  \A t \in Tx, r \in Row :
    /\ wrote[t][r] # 0 => lock[r] = t
    /\ r \in inserted[t] => lock[r] = t /\ r \notin present
    /\ lock[r] = t => pc[t] \in Running

(* Committing now would leave no row below zero. *)
Solvent == \A t \in Tx, r \in Row : stock[r] + wrote[t][r] >= 0

(***************************************************************************)
(* A running transaction has written exactly the rows it no longer has to  *)
(* write, each by its operation's change, and commits only when every one  *)
(* of them is written and logged.                                          *)
(***************************************************************************)
Progress ==
  \A t \in Tx : pc[t] \in Running =>
    /\ op[t] \in Workload
    /\ IsInjective(rest[t])
    /\ \A r \in Row : wrote[t][r] = IF r \in Range(rest[t]) THEN 0 ELSE op[t].delta[r]
    /\ pc[t] \in {"check", "write", "insert"} => rest[t] # <<>>
    /\ pc[t] = "insert" => Change(t) > 0
    /\ pc[t] = "commit" => rest[t] = <<>> /\ logged[t] = wrote[t]

(* The inductive invariant behind NonNegative, LedgerMatches and LedgerSpec. *)
IndInv == TypeOK /\ WritesLocked /\ Solvent /\ Progress /\ NonNegative /\ LedgerMatches

(***************************************************************************)
(* Every transaction that begins ends: statements wait only for other      *)
(* transactions, and a cycle of waits is broken.                           *)
(***************************************************************************)
EveryTransactionEnds == \A t \in Tx : pc[t] \in Running ~> pc[t] \in Ended
=============================================================================
