---------------------------- MODULE JobLifecycle ----------------------------
(***************************************************************************)
(* What the queue, the delayed set and the dead letter queue promise of a  *)
(* job, whatever carries it: it waits, it runs, it waits again with one    *)
(* attempt more, and once it is over it never comes back.                  *)
(***************************************************************************)
EXTENDS Integers

CONSTANTS
  Job,        \* the jobs the scheduler enqueues
  MaxRetries  \* MAX_RETRIES

VARIABLES
  place,   \* place[j]: where job j is
  attempt  \* attempt[j]: how often j has failed, while it waits or runs

Init ==
  /\ place = [j \in Job |-> "new"]
  /\ attempt = [j \in Job |-> 0]

Goes(j, from, to, n) ==
  /\ place[j] = from
  /\ place' = [place EXCEPT ![j] = to]
  /\ attempt' = [attempt EXCEPT ![j] = n]

Enqueue(j) == Goes(j, "new", "waiting", 0)

Start(j) == Goes(j, "waiting", "running", attempt[j])

Retry(j) ==
  /\ attempt[j] < MaxRetries
  /\ Goes(j, "running", "waiting", attempt[j] + 1)

(* Done or given up, or lost: with the worker that ran it, or while it was moved. *)
End(j) == Goes(j, "running", "over", 0) \/ Goes(j, "waiting", "over", 0)

Next == \E j \in Job : Enqueue(j) \/ Start(j) \/ Retry(j) \/ End(j)

Lifecycle == Init /\ [][Next]_<<place, attempt>>
=============================================================================
