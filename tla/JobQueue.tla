------------------------------ MODULE JobQueue ------------------------------
(***************************************************************************)
(* The daily jobs: the API's scheduler pushes them to Valkey               *)
(* (job-queue.ts), the Go worker (worker-go/main.go) pops and runs them.   *)
(*                                                                         *)
(* A job is a payload on a list.  The worker pops from the end the API     *)
(* pushes to, looks at the rations' list first, and keeps the payload only *)
(* in memory.  A failed job waits in a sorted set, with one attempt more,  *)
(* until it is due, and goes to the dead letter queue after the last       *)
(* attempt.  A run goes through the camps in order and commits one         *)
(* transaction per resource; it starts from the first camp every time.     *)
(***************************************************************************)
EXTENDS Integers, Sequences, FiniteSets

CONSTANTS
  Job,         \* the jobs the scheduler enqueues
  KindOf,      \* KindOf[j]: the type of job j
  Worker,      \* the worker processes in daemon mode
  Camps,       \* the active camps, in the order of their ids
  Resource,    \* the resources a job writes in every camp
  MaxRetries,  \* MAX_RETRIES
  NoJob        \* no job in hand

Kind == {"daily_rations", "daily_production"}

ASSUME JobsAssumption ==
  /\ KindOf \in [Job -> Kind]
  /\ NoJob \notin Job
  /\ MaxRetries \in Nat
  /\ Len(Camps) \in Nat \ {0} /\ DOMAIN Camps = 1 .. Len(Camps)
  /\ Resource # {}

VARIABLES
  list,     \* list[k]: the payloads waiting in the list of kind k
  delayed,  \* the members of jobs:delayed
  due,      \* the members whose score is no longer ahead
  dlq,      \* the jobs in jobs:dlq, in order
  worker,   \* worker[w]: what worker w is doing
  applied,  \* applied[j][p]: the transactions for p, a camp and resource, j has committed
  runs,     \* runs[j]: how often job j was started (history)
  ended     \* jobs that ended: "done", or "lost" with a process or a connection (history)

vars == <<list, delayed, due, dlq, worker, applied, runs, ended>>

Part    == {<<k, r>> : k \in DOMAIN Camps, r \in Resource}
Payload == [job : Job, attempts : 0 .. MaxRetries]

Ready == [phase |-> "poll", job |-> NoJob, attempts |-> 0, camp |-> 0,
          todo |-> {}, moving |-> {}]

TypeOK ==
  /\ list \in [Kind -> Seq(Payload)]
  /\ delayed \subseteq Payload
  /\ due \subseteq delayed
  /\ dlq \in Seq(Job)
  /\ worker \in [Worker -> [phase : {"poll", "move", "read", "write", "failed"},
                            job : Job \cup {NoJob}, attempts : 0 .. MaxRetries,
                            camp : 0 .. Len(Camps), todo : SUBSET Resource,
                            moving : SUBSET Payload]]
  /\ applied \in [Job -> [Part -> Nat]]
  /\ runs \in [Job -> Nat]
  /\ ended \in [Job -> {"no", "done", "lost"}]

Init ==
  /\ list = [k \in Kind |-> <<>>]
  /\ delayed = {}
  /\ due = {}
  /\ dlq = <<>>
  /\ worker = [w \in Worker |-> Ready]
  /\ applied = [j \in Job |-> [p \in Part |-> 0]]
  /\ runs = [j \in Job |-> 0]
  /\ ended = [j \in Job |-> "no"]

-----------------------------------------------------------------------------
Waiting(j) == \E k \in Kind : \E i \in DOMAIN list[k] : list[k][i].job = j
Delayed(j) == \E m \in delayed : m.job = j
InHand(j)  == \E w \in Worker : worker[w].job = j
Dead(j)    == \E i \in DOMAIN dlq : dlq[i] = j
Over(j)    == ended[j] # "no" \/ Dead(j)
New(j)     == ~(Waiting(j) \/ Delayed(j) \/ InHand(j) \/ Over(j))

Push(m) == list' = [list EXCEPT ![KindOf[m.job]] = Append(@, m)]

Becomes(w, state) == worker' = [worker EXCEPT ![w] = state]

Loses(j) == ended' = [ended EXCEPT ![j] = "lost"]

-----------------------------------------------------------------------------
(* enqueueJob, when its cron expression fires. *)
Enqueue(j) ==
  /\ New(j) /\ runs[j] = 0
  /\ Push([job |-> j, attempts |-> 0])
  /\ UNCHANGED <<delayed, due, dlq, worker, applied, runs, ended>>

(* Time passes the score of a delayed payload. *)
Elapse(m) ==
  /\ m \in delayed \ due
  /\ due' = due \cup {m}
  /\ UNCHANGED <<list, delayed, dlq, worker, applied, runs, ended>>

(* Mutant of ReadDue: the bounds of ZRANGEBYSCORE are swapped. *)
ReadEarly(w) ==
  /\ worker[w].phase = "poll"
  /\ Becomes(w, [worker[w] EXCEPT !.phase = "move", !.moving = delayed \ due])
  /\ UNCHANGED <<list, delayed, due, dlq, applied, runs, ended>>

(* moveDueDelayedJobs reads what is due ... *)
ReadDue(w) ==
  /\ worker[w].phase = "poll"
  /\ Becomes(w, [worker[w] EXCEPT !.phase = "move", !.moving = due])
  /\ UNCHANGED <<list, delayed, due, dlq, applied, runs, ended>>

(* Mutant of Moved: the payload is copied, not moved. *)
Copied(w, m) ==
  /\ worker[w].phase = "move"
  /\ m \in worker[w].moving
  /\ Becomes(w, [worker[w] EXCEPT !.moving = @ \ {m}])
  /\ UNCHANGED <<delayed, due, dlq, applied, runs>>

(***************************************************************************)
(* ... and moves each: ZREM, whatever it answers, and RPUSH, which may     *)
(* fail, or never be reached.  A payload whose ZREM fails stays.           *)
(***************************************************************************)
Moved(w, m) ==
  /\ worker[w].phase = "move"
  /\ m \in worker[w].moving
  /\ delayed' = delayed \ {m}
  /\ due' = due \ {m}
  /\ Becomes(w, [worker[w] EXCEPT !.moving = @ \ {m}])
  /\ UNCHANGED <<dlq, applied, runs>>

MoveDue(w, m)  == Moved(w, m) /\ Push(m) /\ UNCHANGED ended
MoveLost(w, m) == Moved(w, m) /\ Loses(m.job) /\ UNCHANGED list

MoveFails(w, m) ==
  /\ worker[w].phase = "move"
  /\ m \in worker[w].moving
  /\ Becomes(w, [worker[w] EXCEPT !.moving = @ \ {m}])
  /\ UNCHANGED <<list, delayed, due, dlq, applied, runs, ended>>

(* Mutant of Pop: the attempts of the payload are not decoded. *)
PopAnew(w) ==
  LET k == IF list["daily_rations"] # <<>> THEN "daily_rations" ELSE "daily_production"
      m == list[k][Len(list[k])] IN
  /\ worker[w].phase = "move" /\ worker[w].moving = {}
  /\ list[k] # <<>>
  /\ list' = [list EXCEPT ![k] = SubSeq(@, 1, Len(@) - 1)]
  /\ runs' = [runs EXCEPT ![m.job] = @ + 1]
  /\ Becomes(w, [Ready EXCEPT !.phase = "read", !.job = m.job, !.camp = 1])
  /\ UNCHANGED <<delayed, due, dlq, applied, ended>>

(* BRPOP: the newest payload of the first list that is not empty. *)
Pop(w) ==
  LET k == IF list["daily_rations"] # <<>> THEN "daily_rations" ELSE "daily_production"
      m == list[k][Len(list[k])] IN
  /\ worker[w].phase = "move" /\ worker[w].moving = {}
  /\ list[k] # <<>>
  /\ list' = [list EXCEPT ![k] = SubSeq(@, 1, Len(@) - 1)]
  /\ runs' = [runs EXCEPT ![m.job] = @ + 1]
  /\ Becomes(w, [Ready EXCEPT !.phase = "read", !.job = m.job, !.attempts = m.attempts,
                              !.camp = 1])
  /\ UNCHANGED <<delayed, due, dlq, applied, ended>>

(* BRPOP's five seconds are over, or it fails: look for due payloads again. *)
PopFails(w) ==
  /\ worker[w].phase = "move" /\ worker[w].moving = {}
  /\ Becomes(w, Ready)
  /\ UNCHANGED <<list, delayed, due, dlq, applied, runs, ended>>

(* The people, the resources and the stock of the next camp. *)
ReadCamp(w) ==
  /\ worker[w].phase = "read"
  /\ worker[w].camp <= Len(Camps)
  /\ Becomes(w, [worker[w] EXCEPT !.phase = "write", !.todo = Resource])
  /\ UNCHANGED <<list, delayed, due, dlq, applied, runs, ended>>

(* A query fails: processCampRations and processCampProduction return it. *)
ReadFails(w) ==
  /\ worker[w].phase = "read"
  /\ Becomes(w, [worker[w] EXCEPT !.phase = "failed"])
  /\ UNCHANGED <<list, delayed, due, dlq, applied, runs, ended>>

(* The state of w after a resource, the job's last one included. *)
After(w, r) ==
  LET left == worker[w].todo \ {r} IN
  IF left # {} THEN [worker[w] EXCEPT !.todo = left]
  ELSE IF worker[w].camp < Len(Camps)
       THEN [worker[w] EXCEPT !.phase = "read", !.todo = {}, !.camp = @ + 1]
       ELSE Ready

Applies(w, r) ==
  applied' = [applied EXCEPT ![worker[w].job][<<worker[w].camp, r>>] = @ + 1]

Continues(w, r) ==
  /\ Becomes(w, After(w, r))
  /\ ended' = [ended EXCEPT ![worker[w].job] = IF After(w, r) = Ready THEN "done" ELSE @]

(* increaseInventoryWithLog and distributeResource commit. *)
Write(w, r) ==
  /\ worker[w].phase = "write"
  /\ r \in worker[w].todo
  /\ Applies(w, r)
  /\ Continues(w, r)
  /\ UNCHANGED <<list, delayed, due, dlq, runs>>

(***************************************************************************)
(* A transaction returns an error, perhaps of a COMMIT that was executed   *)
(* but not acknowledged.  Production gives the job up, rations log the     *)
(* error and go on.                                                        *)
(***************************************************************************)
WriteFails(w, r) ==
  /\ worker[w].phase = "write"
  /\ r \in worker[w].todo
  /\ Applies(w, r) \/ UNCHANGED applied
  /\ IF KindOf[worker[w].job] = "daily_production"
     THEN Becomes(w, [worker[w] EXCEPT !.phase = "failed", !.todo = {}]) /\ UNCHANGED ended
     ELSE Continues(w, r)
  /\ UNCHANGED <<list, delayed, due, dlq, runs>>

(* Mutant of Retry: the payload goes back as it was. *)
RetryForever(w) ==
  /\ worker[w].phase = "failed"
  /\ worker[w].attempts < MaxRetries
  /\ delayed' = delayed \cup {[job |-> worker[w].job, attempts |-> worker[w].attempts]}
  /\ Becomes(w, Ready)
  /\ UNCHANGED <<list, due, dlq, applied, runs, ended>>

(* Mutant of Retry: one attempt too many. *)
RetryOnceMore(w) ==
  /\ worker[w].phase = "failed"
  /\ worker[w].attempts <= MaxRetries
  /\ delayed' = delayed \cup {[job |-> worker[w].job, attempts |-> worker[w].attempts + 1]}
  /\ Becomes(w, Ready)
  /\ UNCHANGED <<list, due, dlq, applied, runs, ended>>

(* The job has failed: once more later, or to the dead letter queue. *)
Retry(w) ==
  /\ worker[w].phase = "failed"
  /\ worker[w].attempts < MaxRetries
  /\ delayed' = delayed \cup {[job |-> worker[w].job, attempts |-> worker[w].attempts + 1]}
  /\ Becomes(w, Ready)
  /\ UNCHANGED <<list, due, dlq, applied, runs, ended>>

Bury(w) ==
  /\ worker[w].phase = "failed"
  /\ worker[w].attempts >= MaxRetries
  /\ dlq' = Append(dlq, worker[w].job)
  /\ Becomes(w, Ready)
  /\ UNCHANGED <<list, delayed, due, applied, runs, ended>>

(* Valkey refuses the failed job. *)
SettleLost(w) ==
  /\ worker[w].phase = "failed"
  /\ Becomes(w, Ready)
  /\ Loses(worker[w].job)
  /\ UNCHANGED <<list, delayed, due, dlq, applied, runs>>

(* The process dies with what it has in hand, and is started again. *)
Crash(w) ==
  /\ worker[w] # Ready
  /\ Becomes(w, Ready)
  /\ IF worker[w].job = NoJob THEN UNCHANGED ended ELSE Loses(worker[w].job)
  /\ UNCHANGED <<list, delayed, due, dlq, applied, runs>>

Move(w) == \E m \in worker[w].moving : MoveDue(w, m) \/ MoveLost(w, m)

Poll(w) ==
  \/ ReadDue(w)
  \/ Move(w)
  \/ \E m \in worker[w].moving : MoveFails(w, m)
  \/ Pop(w)
  \/ PopFails(w)

Work(w) ==
  \/ ReadCamp(w)
  \/ ReadFails(w)
  \/ \E r \in Resource : Write(w, r) \/ WriteFails(w, r)
  \/ Retry(w)
  \/ Bury(w)
  \/ SettleLost(w)

Next ==
  \/ \E j \in Job : Enqueue(j)
  \/ \E m \in delayed : Elapse(m)
  \/ \E w \in Worker : Poll(w) \/ Work(w) \/ Crash(w)

Spec == Init /\ [][Next]_vars

(***************************************************************************)
(* The clock runs, and so does the worker.  A worker may die any number of *)
(* times, and Valkey fail it, but not every time it would move or pop a    *)
(* payload.  Nothing must be enqueued or fail.                             *)
(***************************************************************************)
Fairness ==
  /\ \A m \in Payload : WF_vars(Elapse(m))
  /\ \A w \in Worker : /\ WF_vars(Poll(w)) /\ WF_vars(Work(w))
                        /\ SF_vars(Move(w)) /\ SF_vars(Pop(w))

FairSpec == Spec /\ Fairness

-----------------------------------------------------------------------------
Slots == UNION {{<<k, i>> : i \in DOMAIN list[k]} : k \in Kind}

Copies(j) ==
  Cardinality({s \in Slots : list[s[1]][s[2]].job = j})
    + Cardinality({m \in delayed : m.job = j})
    + Cardinality({w \in Worker : worker[w].job = j})
    + Cardinality({i \in DOMAIN dlq : dlq[i] = j})
    + (IF ended[j] = "no" THEN 0 ELSE 1)

(***************************************************************************)
(* With one worker, a job that was enqueued is in exactly one place: a     *)
(* list, the delayed set, the worker's hand, the dead letter queue, or     *)
(* over.  No retry, move or crash makes two of it or none.                 *)
(***************************************************************************)
InOnePlace == \A j \in Job : Copies(j) <= 1 /\ (runs[j] > 0 => Copies(j) = 1)

(***************************************************************************)
(* With one worker, a job runs at most once per attempt, whatever it has   *)
(* been moved through; it commits a part at most once per run; and a       *)
(* production that is done has committed every part.                       *)
(***************************************************************************)
RunsBounded ==
  \A j \in Job :
    /\ runs[j] <= MaxRetries + 1
    /\ \A p \in Part : applied[j][p] <= runs[j]
    /\ ended[j] = "done" /\ KindOf[j] = "daily_production" =>
         \A p \in Part : applied[j][p] > 0

(***************************************************************************)
(* What the two invariants rest on, with one worker.  A worker holds a job *)
(* exactly while it works on one, and moves only payloads that are due.    *)
(***************************************************************************)
HandFits ==
  \A w \in Worker :
    /\ worker[w].job = NoJob <=> worker[w].phase \in {"poll", "move"}
    /\ worker[w].phase # "move" => worker[w].moving = {}
    /\ worker[w].moving \subseteq due
    /\ worker[w].phase \in {"read", "write"} => worker[w].camp > 0

(* Job j is not in two places at once, and in one if it has run. *)
OnePlace(j) ==
  /\ Waiting(j) => ~(Delayed(j) \/ InHand(j) \/ Over(j))
  /\ Delayed(j) => ~(InHand(j) \/ Over(j))
  /\ InHand(j) => ~Over(j)
  /\ Dead(j) => ended[j] = "no"
  /\ runs[j] > 0 => ~New(j)

(* No two payloads are of one job, and no place holds what another one does. *)
PayloadsApart ==
  /\ \A k, l \in Kind : \A i \in DOMAIN list[k] : \A x \in DOMAIN list[l] :
       list[k][i].job = list[l][x].job => k = l /\ i = x
  /\ \A m, n \in delayed : m.job = n.job => m = n
  /\ \A i, x \in DOMAIN dlq : dlq[i] = dlq[x] => i = x
  /\ \A j \in Job : OnePlace(j)

(* A payload carries the number of the runs before the next one. *)
AttemptsCounted ==
  /\ \A k \in Kind : \A i \in DOMAIN list[k] : runs[list[k][i].job] = list[k][i].attempts
  /\ \A m \in delayed : runs[m.job] = m.attempts
  /\ \A w \in Worker : worker[w].job # NoJob =>
       runs[worker[w].job] = worker[w].attempts + 1
  /\ \A j \in Job : runs[j] <= MaxRetries + 1

(* The parts of its job that worker w has been through, in this run. *)
Behind(w, p) ==
  \/ p[1] < worker[w].camp
  \/ p[1] = worker[w].camp /\ worker[w].phase = "write" /\ p[2] \notin worker[w].todo

(* What a run is still to write it has not written, and production nothing less. *)
PartsCounted ==
  /\ \A j \in Job : \A p \in Part :
       /\ applied[j][p] <= runs[j]
       /\ ended[j] = "done" /\ KindOf[j] = "daily_production" => applied[j][p] > 0
  /\ \A w \in Worker : \A p \in Part :
       worker[w].phase \in {"read", "write"} =>
         IF Behind(w, p)
         THEN KindOf[worker[w].job] = "daily_production" => applied[worker[w].job][p] > 0
         ELSE applied[worker[w].job][p] < runs[worker[w].job]

QueueInv == TypeOK /\ HandFits /\ PayloadsApart /\ AttemptsCounted /\ PartsCounted

(* Every job that was enqueued ends: done, lost, or in the dead letter queue. *)
EveryJobEnds == \A j \in Job : Waiting(j) ~> Over(j)

(***************************************************************************)
(* With one worker, lists, delayed set, hand and dead letter queue carry a *)
(* job through the lifecycle of JobLifecycle and no other: it is retried   *)
(* with one attempt more, only after it ran, and never once it is over.    *)
(***************************************************************************)
Place(j) ==
  CASE Over(j)                 -> "over"
    [] InHand(j)               -> "running"
    [] Waiting(j) \/ Delayed(j) -> "waiting"
    [] OTHER                   -> "new"

(* The payloads of job j, or what the worker keeps of one. *)
Carried(j) ==
  {m \in delayed \cup {worker[w] : w \in Worker}
           \cup UNION {{list[k][i] : i \in DOMAIN list[k]} : k \in Kind} : m.job = j}

Attempt(j) == IF Over(j) \/ Carried(j) = {} THEN 0 ELSE (CHOOSE m \in Carried(j) : TRUE).attempts

Life == INSTANCE JobLifecycle
          WITH place <- [j \in Job |-> Place(j)], attempt <- [j \in Job |-> Attempt(j)]

ImplementsLifecycle == Life!Lifecycle
=============================================================================
