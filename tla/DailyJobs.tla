----------------------------- MODULE DailyJobs ------------------------------
(***************************************************************************)
(* What a run of the daily jobs does to the stocks: daily-rations.job.ts   *)
(* and daily-production.job.ts, which the API runs itself when it has no   *)
(* queue, and their counterparts in worker-go/main.go.  (JobQueue is about *)
(* how jobs reach the worker and are tried again; here a run is one try.)  *)
(*                                                                         *)
(* A run goes through the camps in order.  What it reads of a camp, who is *)
(* there and how much is left, is used by transactions of its own later,   *)
(* one for each resource, between which other runs, and the API's other    *)
(* transactions, change the stocks and the people.                         *)
(*                                                                         *)
(* Quantities are exact, in hundredths, where the database keeps them.     *)
(* Both engines compute with doubles.  Where that shows, in the number of  *)
(* portions and in what the worker asks for, the constants Short and       *)
(* Excess say for which numbers it does.                                   *)
(***************************************************************************)
EXTENDS Integers, Sequences, FiniteSets, Functions, FiniteSetsExt

CONSTANTS
  Camps,      \* the active camps, in the order of their ids (without any, no run does anything)
  Resource,   \* the resource types, all of them auto_daily
  Need,       \* Need[r]: daily_ration
  Short,      \* Short[r]: the whole portions that, divided by Need[r], fall below their number
  Excess,     \* Excess[r]: the numbers whose product with Need[r] is too large by a rounding error
  Person,     \* the ids of the people
  Home,       \* Home[p]: the camp of p
  Grade,      \* Grade[p]: 1 a child, 2 a doctor, 3 an explorer, 4 anyone else
  Yield,      \* Yield[r][p]: what the profession of p produces in a day
  Override,   \* Override[r][p]: the sum of p's active contribution overrides
  Run,        \* the runs that are started
  Opening,    \* the stocks a deployment may open with
  MaxStock,   \* bound: what a row of the inventory holds at most
  MaxChanges  \* bound: how often anything else changes a stock or a person

Row == Range(Camps) \X Resource

ASSUME DailyAssumption ==
  /\ Camps \in Seq(Range(Camps)) /\ Camps # <<>> /\ IsInjective(Camps)
  /\ Need \in [Resource -> Nat]
  /\ Short \in [Resource -> SUBSET Nat] /\ Excess \in [Resource -> SUBSET Nat]
  /\ \A r \in Resource : \A q \in Short[r] : \E k \in 1 .. q : q = k * Need[r]
  /\ Person \subseteq Nat /\ IsFiniteSet(Person) /\ IsFiniteSet(Run)
  /\ Home \in [Person -> Range(Camps)]
  /\ Grade \in [Person -> 1 .. 4]
  /\ Yield \in [Resource -> [Person -> Nat]]
  /\ Override \in [Resource -> [Person -> Int]]
  /\ MaxStock \in Nat /\ MaxChanges \in Nat
  /\ Opening \subseteq [Row -> 0 .. MaxStock]

VARIABLES
  stock,   \* stock[x]: inventories.quantity of row x
  logged,  \* logged[x][t]: the sum of quantity_change over the logs of x of type t
  status,  \* status[p]: people.status
  run,     \* run[j]: what run j is, has read and does next
  served,  \* served[j][x]: to whom run j gave a portion of row x (history)
  refused, \* the runs and rows of which a consumption was refused (history)
  taken,   \* the rows other transactions have taken from (history)
  changes, \* how often anything else has changed a stock or a person
  failed   \* runs in which a query or a transaction failed (history)

dailyVars == <<stock, logged, status, run, served, refused, taken, changes, failed>>

LogType == {"DAILY_RATION", "DAILY_GAIN", "OPENING", "OTHER"}
Engine  == {"api", "worker"}

DailyTypeOK ==
  /\ stock \in [Row -> 0 .. MaxStock]
  /\ logged \in [Row -> [LogType -> Int]]
  /\ status \in [Person -> {"HEALTHY", "AWAY", "DEAD"}]
  /\ run \in [Run -> [kind : {"rations", "production"}, engine : Engine,
                      step : {"idle", "people", "stock", "apply", "done", "failed"},
                      camp : DOMAIN Camps, people : SUBSET Person,
                      amount : [Resource -> Int], todo : SUBSET Resource]]
  /\ served \in [Run -> [Row -> SUBSET Person]]
  /\ refused \subseteq Run \X Row
  /\ taken \subseteq Row
  /\ changes \in 0 .. MaxChanges
  /\ failed \subseteq Run

(* Nothing is read yet. *)
Unread == [r \in Resource |-> 0]

DailyInit ==
  /\ stock \in Opening
  /\ logged = [x \in Row |-> [t \in LogType |-> IF t = "OPENING" THEN stock[x] ELSE 0]]
  /\ status = [p \in Person |-> "HEALTHY"]
  /\ run \in [Run -> [kind : {"rations", "production"}, engine : Engine, step : {"idle"},
                      camp : {1}, people : {{}}, amount : {Unread}, todo : {{}}]]
  /\ served = [j \in Run |-> [x \in Row |-> {}]]
  /\ refused = {}
  /\ taken = {}
  /\ changes = 0
  /\ failed = {}

-----------------------------------------------------------------------------
(* getActivePeopleWithProfessionsByCamp of the API, and of the worker. *)
Active(engine, c) ==
  {p \in Person : Home[p] = c /\ status[p] \notin (IF engine = "api" THEN {"DEAD", "AWAY"}
                                                                      ELSE {"DEAD"})}

(* getActiveContributionOverridesByCamp: of everyone, whatever the status. *)
Overrides(c, r) == SumFunctionOnSet(Override[r], {p \in Person : Home[p] = c})

(* buildProfessionTotals, and the overrides. *)
Totals(c, people) ==
  [r \in Resource |-> SumFunctionOnSet(Yield[r], people) + Overrides(c, r)]

(***************************************************************************)
(* The floor of a quotient of doubles.  The error is too small to reach a  *)
(* whole number from below, and may fall short of the one it should be.    *)
(***************************************************************************)
Quotient(quantity, r) ==
  IF quantity \in Short[r] THEN quantity \div Need[r] - 1 ELSE quantity \div Need[r]

(* Mutant of Portions: the last one is kept back. *)
PortionsButOne(quantity, r, people) ==
  IF Need[r] = 0 THEN 0 ELSE Min({Quotient(quantity - 1, r), Cardinality(people)})

(* Mutant of Portions: a portion that is not whole counts. *)
PortionsRoundedUp(quantity, r, people) ==
  IF Need[r] = 0 \/ quantity = 0 THEN 0
  ELSE Min({(quantity + Need[r] - 1) \div Need[r], Cardinality(people)})

(* How many of these people get a portion of r, out of a quantity. *)
Portions(quantity, r, people) ==
  IF Need[r] = 0 THEN 0 ELSE Min({Quotient(quantity, r), Cardinality(people)})

(***************************************************************************)
(* The recipients: buildPriorityPeople orders them by their grades, but    *)
(* both engines then keep them by id, and give in the order of the ids.    *)
(***************************************************************************)
Recipients(n, people) == {p \in people : Cardinality({q \in people : q <= p}) <= n}

Here(j)   == Camps[run[j].camp]
Cell(j, r) == <<Here(j), r>>

(***************************************************************************)
(* The condition of the update that takes n portions.  The API rounds what *)
(* it asks for; of the worker's, only the quantity that is left and the    *)
(* log are rounded, by the columns they are stored in.                     *)
(***************************************************************************)
Enough(j, r, n) ==
  IF run[j].engine = "worker" /\ n \in Excess[r]
  THEN stock[Cell(j, r)] > n * Need[r]
  ELSE stock[Cell(j, r)] >= n * Need[r]

(* A transaction has changed a row by d and logged it. *)
Movement(x, type, d) ==
  /\ stock' = [stock EXCEPT ![x] = @ + d]
  /\ logged' = [logged EXCEPT ![x][type] = @ + d]

(* The state of run j after a camp. *)
NextCamp(state) ==
  IF state.camp = Len(Camps) THEN [state EXCEPT !.step = "done", !.todo = {}]
  ELSE [state EXCEPT !.step = "people", !.camp = @ + 1, !.people = {}, !.amount = Unread,
                     !.todo = {}]

(* ... and after resource r of a camp. *)
After(state, r) ==
  LET next == [state EXCEPT !.todo = @ \ {r}] IN
  IF next.todo = {} THEN NextCamp(next) ELSE next

RunBecomes(j, state) == run' = [run EXCEPT ![j] = state]
Stops(j)          == RunBecomes(j, [run[j] EXCEPT !.step = "failed", !.todo = {}])

-----------------------------------------------------------------------------
(* execute, processDailyRations and processDailyProduction read the camps. *)
Start(j) ==
  /\ run[j].step = "idle"
  /\ RunBecomes(j, [run[j] EXCEPT !.step = "people"])
  /\ UNCHANGED <<stock, logged, status, served, refused, taken, changes, failed>>

(***************************************************************************)
(* The people of the next camp; a camp without any is passed over.  For    *)
(* the production this fixes the totals, of which only gains are applied.  *)
(***************************************************************************)
ReadPeople(j) ==
  LET people == Active(run[j].engine, Here(j))
      totals == Totals(Here(j), people)
      gains  == {r \in Resource : totals[r] > 0} IN
  /\ run[j].step = "people"
  /\ RunBecomes(j, IF people = {} \/ (run[j].kind = "production" /\ gains = {})
                THEN NextCamp(run[j])
                ELSE IF run[j].kind = "rations"
                THEN [run[j] EXCEPT !.step = "stock", !.people = people]
                ELSE [run[j] EXCEPT !.step = "apply", !.people = people,
                                    !.amount = totals, !.todo = gains])
  /\ UNCHANGED <<stock, logged, status, served, refused, taken, changes, failed>>

(* getDailyRationResources, with the quantities of the camp. *)
ReadStock(j) ==
  /\ run[j].step = "stock"
  /\ RunBecomes(j, [run[j] EXCEPT !.step = "apply", !.todo = Resource,
                               !.amount = [r \in Resource |-> stock[Cell(j, r)]]])
  /\ UNCHANGED <<stock, logged, status, served, refused, taken, changes, failed>>

(* distributeResource has nothing to give. *)
Withhold(j, r) ==
  /\ run[j].kind = "rations" /\ r \in run[j].todo
  /\ Portions(run[j].amount[r], r, run[j].people) = 0
  /\ RunBecomes(j, After(run[j], r))
  /\ UNCHANGED <<stock, logged, status, served, refused, taken, changes, failed>>

(* Mutant of Give: the quantity that was read is written back, less the portions. *)
GiveFromRead(j, r) ==
  LET n == Portions(run[j].amount[r], r, run[j].people)
      x == Cell(j, r) IN
  /\ run[j].kind = "rations" /\ r \in run[j].todo /\ n > 0
  /\ stock' = [stock EXCEPT ![x] = run[j].amount[r] - n * Need[r]]
  /\ logged' = [logged EXCEPT ![x]["DAILY_RATION"] = @ - n * Need[r]]
  /\ served' = [served EXCEPT ![j][x] = Recipients(n, run[j].people)]
  /\ RunBecomes(j, After(run[j], r))
  /\ UNCHANGED <<status, refused, taken, changes, failed>>

(* consumeInventoryWithLog, and its counterpart in the worker's distributeResource. *)
Give(j, r) ==
  LET n == Portions(run[j].amount[r], r, run[j].people)
      x == Cell(j, r) IN
  /\ run[j].kind = "rations" /\ r \in run[j].todo /\ n > 0
  /\ Enough(j, r, n)
  /\ Movement(x, "DAILY_RATION", -n * Need[r])
  /\ served' = [served EXCEPT ![j][x] = Recipients(n, run[j].people)]
  /\ RunBecomes(j, After(run[j], r))
  /\ UNCHANGED <<status, refused, taken, changes, failed>>

(* Mutant of Refuse: the worker gives up like the API. *)
RefuseAll(j, r) ==
  LET n == Portions(run[j].amount[r], r, run[j].people) IN
  /\ run[j].kind = "rations" /\ r \in run[j].todo
  /\ ~Enough(j, r, n)
  /\ refused' = refused \cup {<<j, Cell(j, r)>>}
  /\ Stops(j)
  /\ UNCHANGED <<stock, logged, status, served, taken, changes, failed>>

(***************************************************************************)
(* The conditional update finds no row: the stock has shrunk since it was  *)
(* read, or the worker asks for more than it read.  The API's job throws,  *)
(* out of the loop over the camps; the worker logs the error and goes on.  *)
(***************************************************************************)
Refuse(j, r) ==
  LET n == Portions(run[j].amount[r], r, run[j].people) IN
  /\ run[j].kind = "rations" /\ r \in run[j].todo
  /\ ~Enough(j, r, n)
  /\ refused' = refused \cup {<<j, Cell(j, r)>>}
  /\ IF run[j].engine = "api" THEN Stops(j) ELSE RunBecomes(j, After(run[j], r))
  /\ UNCHANGED <<stock, logged, status, served, taken, changes, failed>>

(* increaseInventoryWithLog; the bound leaves no room for more than MaxStock. *)
Gain(j, r) ==
  /\ run[j].kind = "production" /\ r \in run[j].todo
  /\ stock[Cell(j, r)] + run[j].amount[r] <= MaxStock
  /\ Movement(Cell(j, r), "DAILY_GAIN", run[j].amount[r])
  /\ RunBecomes(j, After(run[j], r))
  /\ UNCHANGED <<status, served, refused, taken, changes, failed>>

(***************************************************************************)
(* A query or a transaction fails.  Only the worker that distributes goes  *)
(* on with the next resource.                                              *)
(***************************************************************************)
FailRun(j) ==
  /\ run[j].step \in {"people", "stock", "apply"}
  /\ failed' = failed \cup {j}
  /\ IF run[j].engine = "worker" /\ run[j].kind = "rations" /\ run[j].step = "apply"
     THEN \E r \in run[j].todo : RunBecomes(j, After(run[j], r))
     ELSE Stops(j)
  /\ UNCHANGED <<stock, logged, status, served, refused, taken, changes>>

-----------------------------------------------------------------------------
(* The other transactions on the inventory: by one unit at a time. *)
Other(x, d) ==
  /\ changes < MaxChanges
  /\ stock[x] + d \in 0 .. MaxStock
  /\ Movement(x, "OTHER", d)
  /\ taken' = IF d < 0 THEN taken \cup {x} ELSE taken
  /\ changes' = changes + 1
  /\ UNCHANGED <<status, run, served, refused, failed>>

(* Expeditions and transfers leave and return, people die. *)
Change(p, s) ==
  /\ changes < MaxChanges
  /\ status[p] \notin {s, "DEAD"}
  /\ status' = [status EXCEPT ![p] = s]
  /\ changes' = changes + 1
  /\ UNCHANGED <<stock, logged, run, served, refused, taken, failed>>

ProceedRun(j) ==
  \/ Start(j)
  \/ ReadPeople(j)
  \/ ReadStock(j)
  \/ \E r \in Resource : Withhold(j, r) \/ Give(j, r) \/ Refuse(j, r) \/ Gain(j, r)

DailyNext ==
  \/ \E j \in Run : ProceedRun(j) \/ FailRun(j)
  \/ \E x \in Row, d \in {-1, 1} : Other(x, d)
  \/ \E p \in Person, s \in {"HEALTHY", "AWAY", "DEAD"} : Change(p, s)

DailySpec == DailyInit /\ [][DailyNext]_dailyVars

-----------------------------------------------------------------------------
(***************************************************************************)
(* The rations that are logged are the portions people got, each of them   *)
(* once per run and resource, and a run gives up only after a failure or,  *)
(* in the API, a refusal.                                                  *)
(***************************************************************************)
PortionsLogged ==
  \A x \in Row :
    -logged[x]["DAILY_RATION"]
      = Need[x[2]] * SumFunction([j \in Run |-> Cardinality(served[j][x])])

StopsForAReason ==
  \A j \in Run : run[j].step = "failed" =>
    j \in failed \/ (run[j].engine = "api" /\ \E x \in Row : <<j, x>> \in refused)

(* What a run has read suits where it stands. *)
ReadingSuits(state) ==
  /\ state.todo # {} => state.step = "apply"
  /\ state.step \in {"stock", "apply"} => state.people # {}
  /\ state.step = "stock" => state.kind = "rations"
  /\ state.step = "apply" /\ state.kind = "rations" => \A r \in Resource : state.amount[r] >= 0
  /\ state.kind = "production" => \A r \in state.todo : state.amount[r] > 0

(* A run in this state has not come to resource r of the k-th camp. *)
Ahead(state, k, r) ==
  \/ k > state.camp
  \/ k = state.camp /\ (state.step \in {"idle", "people", "stock"} \/ r \in state.todo)

(* Every row is served once by a run. *)
OncePerCamp ==
  \A j \in Run, k \in DOMAIN Camps, r \in Resource :
    Ahead(run[j], k, r) => served[j][<<Camps[k], r>>] = {}

(* Run j is not the only one that has taken from row x. *)
TakenByOthers(j, x) == x \in taken \/ \E i \in Run \ {j} : served[i][x] # {}

(* What a run is about to give was there when it read, and goes by others. *)
ThereUnlessTaken ==
  \A j \in Run : \A r \in run[j].todo :
    run[j].kind = "rations" =>
      stock[Cell(j, r)] >= run[j].amount[r] \/ TakenByOthers(j, Cell(j, r))

DailyInv ==
  /\ DailyTypeOK
  /\ PortionsLogged
  /\ StopsForAReason
  /\ \A j \in Run : ReadingSuits(run[j])
  /\ OncePerCamp
  /\ ThereUnlessTaken

(***************************************************************************)
(* Runs that overlap, each with what it read before the others, do not     *)
(* make one another fail in vain: a consumption is refused only after      *)
(* another run has served the camp or another transaction has taken from   *)
(* the same row; or by the worker, if its portions are all there is and    *)
(* their product exceeds that by a rounding error.                         *)
(***************************************************************************)
RefusedForAnother ==
  [][\A j \in Run, r \in Resource :
       LET n == Portions(run[j].amount[r], r, run[j].people) IN
       Refuse(j, r) =>
         \/ TakenByOthers(j, Cell(j, r))
         \/ /\ run[j].engine = "worker" /\ n \in Excess[r]
            /\ stock[Cell(j, r)] = n * Need[r]]_dailyVars

(***************************************************************************)
(* Nobody goes without while there is a portion: unless the stock has      *)
(* grown since it was read, a resource that was handled has served all who *)
(* were there, or less than one portion of it is left.  Division costs at  *)
(* most the one portion by which it falls short.                           *)
(***************************************************************************)
Handles(j, r) == Withhold(j, r) \/ Give(j, r)

FedAsFarAsItGoes ==
  [][\A j \in Run, r \in Resource :
       Handles(j, r) /\ Need[r] > 0 /\ stock[Cell(j, r)] <= run[j].amount[r] =>
         \/ served'[j][Cell(j, r)] = run[j].people
         \/ stock'[Cell(j, r)] < Need[r]
         \/ run[j].amount[r] \in Short[r] /\ stock'[Cell(j, r)] = Need[r]]_dailyVars

(***************************************************************************)
(* The jobs are clients of the inventory like any other: whatever they     *)
(* read before, each step of theirs is one affordable operation of the     *)
(* ledger or none, the sum of all logs being the ledger.                   *)
(***************************************************************************)
Operations == INSTANCE InventoryOperations
  WITH Camp <- Range(Camps), MaxQty <- MaxStock, MaxItems <- 1

DailyWorkload ==
  Operations!Consumptions \cup Operations!Gains
    \cup {o \in Operations!Adjustments : \A x \in Row : o.delta[x] \in -1 .. 1}

Ledger == INSTANCE InventoryLedger
  WITH Camp <- Range(Camps), MaxQty <- MaxStock, MaxItems <- 1,
       Workload <- DailyWorkload,
       ledger <- [x \in Row |-> SumFunction(logged[x])]

ImplementsLedger == Ledger!LedgerSpec

(***************************************************************************)
(* "Priority: children -> doctors -> explorers -> everyone" is how the     *)
(* rations are documented: nobody is served while someone of a better      *)
(* grade, who was there, goes without.                                     *)
(***************************************************************************)
PriorityServed ==
  [][\A j \in Run, r \in Resource :
       Give(j, r) =>
         \A p \in served'[j][Cell(j, r)], q \in run[j].people \ served'[j][Cell(j, r)] :
           Grade[p] <= Grade[q]]_dailyVars
=============================================================================
