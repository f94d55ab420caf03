--------------------------- MODULE JobQueueProofs ---------------------------
(***************************************************************************)
(* Theorems about the two uses the system has for Valkey: JobQueue, for    *)
(* any number of jobs, camps, resources and retries, and after it          *)
(* Catalogue, the cache, for any number of calls and fills.                *)
(***************************************************************************)
EXTENDS JobQueue, Catalogue, FiniteSetTheorems, TLAPS

(* What TypeOK says of a worker, and of one job of a worker. *)
Hand == [phase : {"poll", "move", "read", "write", "failed"},
         job : Job \cup {NoJob}, attempts : 0 .. MaxRetries,
         camp : 0 .. Len(Camps), todo : SUBSET Resource, moving : SUBSET Payload]

(* A worker that is ready is well typed, and has nothing in hand. *)
LEMMA ReadyHand ==
  /\ Ready \in Hand /\ Ready.phase = "poll" /\ Ready.job = NoJob
  /\ Ready.moving = {} /\ Ready.todo = {} /\ Ready.camp = 0
  BY JobsAssumption DEF Ready, Hand

(* A payload that is pushed comes after those of its list. *)
LEMMA Pushes ==
  ASSUME list \in [Kind -> Seq(Payload)], NEW m \in Payload, Push(m)
  PROVE  /\ list' \in [Kind -> Seq(Payload)]
         /\ \E n \in Nat :
              /\ KindOf[m.job] \in Kind
              /\ n \notin DOMAIN list[KindOf[m.job]] /\ n \in DOMAIN list'[KindOf[m.job]]
              /\ list'[KindOf[m.job]][n] = m
              /\ \A k \in Kind :
                   /\ \A i \in DOMAIN list[k] : i \in DOMAIN list'[k] /\ list'[k][i] = list[k][i]
                   /\ \A i \in DOMAIN list'[k] :
                        i \in DOMAIN list[k] \/ (k = KindOf[m.job] /\ i = n)
  <1> DEFINE k0 == KindOf[m.job]
             n  == Len(list[k0]) + 1
  <1>1. k0 \in Kind
    BY JobsAssumption DEF Payload
  <1>2. list[k0] \in Seq(Payload) /\ n \in Nat
    BY <1>1
  <1>3. Append(list[k0], m) \in Seq(Payload)
    BY <1>2
  <1>4. /\ DOMAIN list[k0] = 1 .. Len(list[k0])
        /\ DOMAIN Append(list[k0], m) = 1 .. Len(list[k0]) + 1
        /\ Append(list[k0], m)[n] = m
        /\ \A i \in 1 .. Len(list[k0]) : Append(list[k0], m)[i] = list[k0][i]
    BY <1>2
  <1>5. list' = [list EXCEPT ![k0] = Append(list[k0], m)]
    BY DEF Push
  <1>6. list'[k0] = Append(list[k0], m) /\ \A k \in Kind \ {k0} : list'[k] = list[k]
    BY <1>1, <1>5
  <1>7. list' \in [Kind -> Seq(Payload)]
    BY <1>1, <1>3, <1>5
  <1> HIDE DEF k0
  <1>8. n \notin DOMAIN list[k0] /\ n \in DOMAIN list'[k0] /\ list'[k0][n] = m
    BY <1>2, <1>4, <1>6
  <1>9. ASSUME NEW k \in Kind
        PROVE  /\ \A i \in DOMAIN list[k] : i \in DOMAIN list'[k] /\ list'[k][i] = list[k][i]
               /\ \A i \in DOMAIN list'[k] : i \in DOMAIN list[k] \/ (k = k0 /\ i = n)
    BY <1>2, <1>4, <1>6
  <1> QED
    BY <1>1, <1>2, <1>7, <1>8, <1>9 DEF k0

(* The last payload of a list leaves it; the others keep their places. *)
LEMMA Pops ==
  ASSUME list \in [Kind -> Seq(Payload)], NEW k0 \in Kind, list[k0] # <<>>,
         list' = [list EXCEPT ![k0] = SubSeq(@, 1, Len(@) - 1)]
  PROVE  /\ list' \in [Kind -> Seq(Payload)]
         /\ Len(list[k0]) \in DOMAIN list[k0]
         /\ list[k0][Len(list[k0])] \in Payload
         /\ \A k \in Kind :
              /\ \A i \in DOMAIN list'[k] :
                   /\ i \in DOMAIN list[k] /\ list'[k][i] = list[k][i]
                   /\ ~(k = k0 /\ i = Len(list[k0]))
              /\ \A i \in DOMAIN list[k] :
                   i \in DOMAIN list'[k] \/ (k = k0 /\ i = Len(list[k0]))
  <1> DEFINE n == Len(list[k0])
  <1>1. list[k0] \in Seq(Payload) /\ n \in Nat /\ n > 0 /\ n - 1 \in 0 .. n
    OBVIOUS
  <1>2. DOMAIN list[k0] = 1 .. n /\ list[k0][n] \in Payload
    BY <1>1
  <1>3. /\ SubSeq(list[k0], 1, n - 1) \in Seq(Payload)
        /\ DOMAIN SubSeq(list[k0], 1, n - 1) = 1 .. n - 1
        /\ \A i \in 1 .. n - 1 : SubSeq(list[k0], 1, n - 1)[i] = list[k0][i]
    BY <1>1, <1>2
  <1>4. list'[k0] = SubSeq(list[k0], 1, n - 1) /\ \A k \in Kind \ {k0} : list'[k] = list[k]
    OBVIOUS
  <1>5. list' \in [Kind -> Seq(Payload)]
    BY <1>3, <1>4
  <1> HIDE DEF n
  <1>6. ASSUME NEW k \in Kind
        PROVE  /\ \A i \in DOMAIN list'[k] :
                    i \in DOMAIN list[k] /\ list'[k][i] = list[k][i] /\ ~(k = k0 /\ i = n)
               /\ \A i \in DOMAIN list[k] : i \in DOMAIN list'[k] \/ (k = k0 /\ i = n)
    BY <1>1, <1>2, <1>3, <1>4
  <1> QED
    BY <1>1, <1>2, <1>5, <1>6 DEF n

(* A worker that takes a state has it, and the others keep theirs. *)
LEMMA Takes ==
  ASSUME worker \in [Worker -> Hand], NEW w \in Worker, NEW state \in Hand, Becomes(w, state)
  PROVE  /\ worker' \in [Worker -> Hand]
         /\ worker'[w] = state
         /\ \A v \in Worker \ {w} : worker'[v] = worker[v]
  BY DEF Becomes

(* The states a worker takes on are well typed. *)
LEMMA HandsTyped ==
  ASSUME NEW hand \in Hand
  PROVE  /\ \A phase \in {"poll", "move", "read", "write", "failed"} :
              /\ [hand EXCEPT !.phase = phase] \in Hand
              /\ \A todo \in SUBSET Resource :
                   [hand EXCEPT !.phase = phase, !.todo = todo] \in Hand
              /\ \A moving \in SUBSET Payload :
                   [hand EXCEPT !.phase = phase, !.moving = moving] \in Hand
         /\ \A todo \in SUBSET Resource : [hand EXCEPT !.todo = todo] \in Hand
         /\ \A moving \in SUBSET Payload : [hand EXCEPT !.moving = moving] \in Hand
         /\ \A camp \in 0 .. Len(Camps) :
              [hand EXCEPT !.phase = "read", !.todo = {}, !.camp = camp] \in Hand
  BY DEF Hand

(* What is behind a resource of a camp: the next one, the next camp, or nothing. *)
LEMMA AfterTyped ==
  ASSUME NEW w \in Worker, worker[w] \in Hand, NEW r \in Resource
  PROVE  After(w, r) \in Hand
  <1>1. worker[w].todo \ {r} \in SUBSET Resource
    BY DEF Hand
  <1>2. worker[w].camp < Len(Camps) => worker[w].camp + 1 \in 0 .. Len(Camps)
    BY JobsAssumption DEF Hand
  <1>3. worker[w].todo \ {r} # {} => After(w, r) \in Hand
    BY <1>1, HandsTyped DEF After
  <1>4. worker[w].todo \ {r} = {} /\ worker[w].camp < Len(Camps) => After(w, r) \in Hand
    BY <1>2, HandsTyped DEF After
  <1>5. worker[w].todo \ {r} = {} /\ ~(worker[w].camp < Len(Camps)) => After(w, r) \in Hand
    BY ReadyHand DEF After
  <1> QED
    BY <1>3, <1>4, <1>5

(* Every transaction leaves the counts of the parts numbers. *)
LEMMA AppliesTyped ==
  ASSUME applied \in [Job -> [Part -> Nat]], NEW w \in Worker, NEW r \in Resource,
         worker[w].job \in Job, Applies(w, r)
  PROVE  applied' \in [Job -> [Part -> Nat]]
  <1> DEFINE j == worker[w].job
             p == <<worker[w].camp, r>>
             counts == [applied[j] EXCEPT ![p] = @ + 1]
  <1>1. applied' = [applied EXCEPT ![j] = counts]
    BY DEF Applies
  <1>2. applied[j] \in [Part -> Nat]
    OBVIOUS
  <1>3. counts \in [Part -> Nat]
    <2> DEFINE one == applied[j]
    <2>1. \A q \in Part : one[q] \in Nat /\ one[q] + 1 \in Nat
      BY <1>2
    <2>2. one \in [Part -> Nat] /\ counts = [one EXCEPT ![p] = one[p] + 1]
      BY <1>2
    <2> HIDE DEF one, p
    <2> QED
      BY <2>1, <2>2
  <1> QED
    BY <1>1, <1>3

LEMMA TypeInit == Init => TypeOK
  BY ReadyHand DEF Init, TypeOK, Hand

(* A step of a worker that polls keeps the types. *)
LEMMA TypePoll ==
  ASSUME TypeOK, NEW w \in Worker, Poll(w)
  PROVE  TypeOK'
  <1>1. worker \in [Worker -> Hand] /\ worker[w] \in Hand
    BY DEF TypeOK, Hand
  <1>2. CASE ReadDue(w)
    <2>1. [worker[w] EXCEPT !.phase = "move", !.moving = due] \in Hand
      BY <1>1, HandsTyped DEF TypeOK
    <2> QED
      BY <1>1, <1>2, <2>1, Takes DEF ReadDue, TypeOK, Hand
  <1>3. ASSUME NEW m \in worker[w].moving,
               MoveDue(w, m) \/ MoveLost(w, m) \/ MoveFails(w, m)
        PROVE  TypeOK'
    <2>1. m \in Payload /\ worker[w].moving \ {m} \in SUBSET Payload
      BY <1>1 DEF Hand
    <2>2. [worker[w] EXCEPT !.moving = worker[w].moving \ {m}] \in Hand
      BY <1>1, <2>1, HandsTyped
    <2>3. worker' \in [Worker -> Hand]
      BY <1>1, <1>3, <2>2, Takes DEF MoveDue, MoveLost, MoveFails, Moved
    <2>4. list' \in [Kind -> Seq(Payload)]
      BY <1>3, <2>1, Pushes DEF TypeOK, MoveDue, MoveLost, MoveFails
    <2>5. delayed' \subseteq Payload /\ due' \subseteq delayed'
      BY <1>3 DEF TypeOK, MoveDue, MoveLost, MoveFails, Moved
    <2>6. ended' \in [Job -> {"no", "done", "lost"}]
      BY <1>3, <2>1 DEF TypeOK, MoveDue, MoveLost, MoveFails, Loses
    <2>7. UNCHANGED <<dlq, applied, runs>>
      BY <1>3 DEF MoveDue, MoveLost, MoveFails, Moved
    <2> QED
      BY <2>3, <2>4, <2>5, <2>6, <2>7 DEF TypeOK, Hand
  <1>4. CASE Pop(w)
    <2> DEFINE k == IF list["daily_rations"] # <<>> THEN "daily_rations" ELSE "daily_production"
               m == list[k][Len(list[k])]
               hand == [Ready EXCEPT !.phase = "read", !.job = m.job, !.attempts = m.attempts,
                                     !.camp = 1]
    <2>1. k \in Kind /\ list[k] # <<>>
      BY <1>4 DEF Pop, Kind
    <2>2. list' = [list EXCEPT ![k] = SubSeq(@, 1, Len(@) - 1)]
      BY <1>4 DEF Pop
    <2>3. /\ runs' = [runs EXCEPT ![m.job] = @ + 1] /\ Becomes(w, hand)
          /\ UNCHANGED <<delayed, due, dlq, applied, ended>>
      BY <1>4 DEF Pop
    <2> HIDE DEF k
    <2>4. list' \in [Kind -> Seq(Payload)] /\ m \in Payload
      BY <2>1, <2>2, Pops DEF TypeOK
    <2> HIDE DEF m
    <2>5. hand \in Hand
      <3>1. m.job \in Job /\ m.attempts \in 0 .. MaxRetries /\ 1 \in 0 .. Len(Camps)
        BY <2>4, JobsAssumption DEF Payload
      <3> QED
        BY <3>1 DEF Hand, Ready
    <2>6. worker' \in [Worker -> Hand]
      BY <1>1, <2>3, <2>5, Takes
    <2>7. runs' \in [Job -> Nat]
      BY <2>3, <2>4 DEF TypeOK, Payload
    <2> QED
      BY <2>3, <2>4, <2>6, <2>7 DEF TypeOK, Hand
  <1>5. CASE PopFails(w)
    BY <1>1, <1>5, ReadyHand, Takes DEF PopFails, TypeOK, Hand
  <1> QED
    BY <1>2, <1>3, <1>4, <1>5 DEF Poll, Move

(* ... and so does a step of one that works. *)
LEMMA TypeWork ==
  ASSUME TypeOK, NEW w \in Worker, Work(w),
         worker[w].phase \in {"read", "write", "failed"} => worker[w].job \in Job
  PROVE  TypeOK'
  <1>1. worker \in [Worker -> Hand] /\ worker[w] \in Hand
    BY DEF TypeOK, Hand
  <1>2. CASE ReadCamp(w) \/ ReadFails(w)
    <2>1. /\ [worker[w] EXCEPT !.phase = "write", !.todo = Resource] \in Hand
          /\ [worker[w] EXCEPT !.phase = "failed"] \in Hand
      BY <1>1, HandsTyped
    <2> QED
      BY <1>1, <1>2, <2>1, Takes DEF ReadCamp, ReadFails, TypeOK, Hand
  <1>3. ASSUME NEW r \in Resource, Write(w, r) \/ WriteFails(w, r)
        PROVE  TypeOK'
    <2>1. worker[w].job \in Job
      BY <1>3 DEF Write, WriteFails
    <2>2. After(w, r) \in Hand /\ [worker[w] EXCEPT !.phase = "failed", !.todo = {}] \in Hand
      BY <1>1, HandsTyped, AfterTyped
    <2>3. /\ \/ Becomes(w, After(w, r))
             \/ Becomes(w, [worker[w] EXCEPT !.phase = "failed", !.todo = {}])
          /\ ended' \in [Job -> {"no", "done", "lost"}]
      BY <1>3, <2>1 DEF Write, WriteFails, Continues, TypeOK
    <2>4. worker' \in [Worker -> Hand]
      BY <1>1, <2>2, <2>3, Takes
    <2>5. applied' \in [Job -> [Part -> Nat]]
      BY <1>3, <2>1, AppliesTyped DEF Write, WriteFails, TypeOK
    <2>6. UNCHANGED <<list, delayed, due, dlq, runs>>
      BY <1>3 DEF Write, WriteFails
    <2> QED
      BY <2>3, <2>4, <2>5, <2>6 DEF TypeOK, Hand
  <1>4. CASE Retry(w) \/ Bury(w) \/ SettleLost(w)
    <2>1. worker' \in [Worker -> Hand]
      BY <1>1, <1>4, ReadyHand, Takes DEF Retry, Bury, SettleLost
    <2>2. worker[w].job \in Job
      BY <1>4 DEF Retry, Bury, SettleLost
    <2>3. delayed' \subseteq Payload /\ due' \subseteq delayed'
      <3>1. worker[w].attempts \in 0 .. MaxRetries
        BY <1>1 DEF Hand
      <3>2. Retry(w) => [job |-> worker[w].job, attempts |-> worker[w].attempts + 1] \in Payload
        BY <2>2, <3>1, JobsAssumption DEF Retry, Payload
      <3> QED
        BY <1>4, <3>2 DEF Retry, Bury, SettleLost, TypeOK
    <2>4. dlq' \in Seq(Job) /\ ended' \in [Job -> {"no", "done", "lost"}]
      <3>1. dlq \in Seq(Job) /\ Append(dlq, worker[w].job) \in Seq(Job)
        BY <2>2 DEF TypeOK
      <3>2. [ended EXCEPT ![worker[w].job] = "lost"] \in [Job -> {"no", "done", "lost"}]
        BY <2>2 DEF TypeOK
      <3> QED
        BY <1>4, <3>1, <3>2 DEF Retry, Bury, SettleLost, Loses, TypeOK
    <2>5. UNCHANGED <<list, applied, runs>>
      BY <1>4 DEF Retry, Bury, SettleLost
    <2> QED
      BY <2>1, <2>3, <2>4, <2>5 DEF TypeOK, Hand
  <1> QED
    BY <1>2, <1>3, <1>4 DEF Work

-----------------------------------------------------------------------------
(* From here on there is one worker, and what is in hand is in its hand. *)
LEMMA OneHand ==
  ASSUME NEW w, Worker = {w}
  PROVE  \A j : InHand(j) <=> worker[w].job = j
  BY DEF InHand

(* A step that leaves job i where it is, and starts no run of it. *)
Still(i) ==
  /\ (Waiting(i) \/ Delayed(i))' <=> Waiting(i) \/ Delayed(i)
  /\ (InHand(i)' <=> InHand(i)) /\ (Over(i)' <=> Over(i))
  /\ runs'[i] = runs[i]

(* A step that enqueues job i, starts it, puts it back, or ends it. *)
Enqueued(i) ==
  New(i) /\ Waiting(i)' /\ ~InHand(i)' /\ ~Over(i)' /\ runs[i] = 0 /\ runs'[i] = 0

Started(i) ==
  /\ Waiting(i) /\ ~InHand(i) /\ ~Over(i) /\ InHand(i)' /\ ~Over(i)'
  /\ runs'[i] = runs[i] + 1

Retried(i) ==
  /\ InHand(i) /\ ~Over(i) /\ Delayed(i)' /\ ~InHand(i)' /\ ~Over(i)'
  /\ runs'[i] = runs[i] /\ runs[i] <= MaxRetries

Ended(i) == (InHand(i) \/ Delayed(i)) /\ ~Over(i) /\ Over(i)'

OneMoves ==
  \/ \A i \in Job : Still(i)
  \/ \E j \in Job : /\ \A i \in Job : i # j => Still(i)
                    /\ Enqueued(j) \/ Started(j) \/ Retried(j) \/ Ended(j)

(* Where a job is depends on the list, the delayed set, the hand, and so on. *)
LEMMA PlacesStay ==
  ASSUME NEW w, Worker = {w}, worker'[w].job = worker[w].job,
         UNCHANGED <<list, delayed, dlq, runs, ended>>
  PROVE  \A j : /\ (Waiting(j)' <=> Waiting(j)) /\ (Delayed(j)' <=> Delayed(j))
                /\ (InHand(j)' <=> InHand(j)) /\ (Dead(j)' <=> Dead(j))
                /\ (Over(j)' <=> Over(j)) /\ (New(j)' <=> New(j))
  BY DEF Waiting, Delayed, InHand, Dead, Over, New

(* A step that neither moves nor starts nor ends a job leaves all of that. *)
LEMMA NothingMoves ==
  ASSUME QueueInv, NEW w, Worker = {w},
         worker'[w].job = worker[w].job,
         worker[w].job # NoJob => worker'[w].attempts = worker[w].attempts,
         UNCHANGED <<list, delayed, dlq, runs, ended>>
  PROVE  PayloadsApart' /\ AttemptsCounted' /\ \A i \in Job : Still(i)
  <1>1. PayloadsApart'
    BY PlacesStay DEF QueueInv, PayloadsApart, OnePlace
  <1>2. AttemptsCounted'
    BY DEF QueueInv, AttemptsCounted
  <1>3. \A i \in Job : Still(i)
    BY PlacesStay DEF Still
  <1> QED
    BY <1>1, <1>2, <1>3

(* The job in hand is over, wherever the step says so, and nothing else moves. *)
LEMMA HandEnds ==
  ASSUME QueueInv, NEW w, Worker = {w}, worker'[w].job = NoJob, worker[w].job \in Job,
         NEW e \in {"done", "lost"}, ended' = [ended EXCEPT ![worker[w].job] = e],
         UNCHANGED <<list, delayed, dlq, runs>>
  PROVE  /\ PayloadsApart' /\ AttemptsCounted'
         /\ \A i \in Job : IF i = worker[w].job THEN Ended(i) ELSE Still(i)
  <1> DEFINE j == worker[w].job
  <1>1. /\ InHand(j) /\ ~Waiting(j) /\ ~Delayed(j) /\ ~Over(j)
    BY OneHand DEF QueueInv, PayloadsApart, OnePlace
  <1>2. ended'[j] = e /\ \A i \in Job \ {j} : ended'[i] = ended[i]
    BY DEF QueueInv, TypeOK
  <1>3. \A i \in Job : /\ (Waiting(i)' <=> Waiting(i)) /\ (Delayed(i)' <=> Delayed(i))
                       /\ (Dead(i)' <=> Dead(i)) /\ ~InHand(i)'
    BY JobsAssumption DEF Waiting, Delayed, Dead, InHand
  <1>4. ASSUME NEW i \in Job
        PROVE  OnePlace(i)'
    <2>1. CASE i = j
      BY <1>1, <1>2, <1>3, <2>1 DEF Over, New, OnePlace
    <2>2. CASE i # j
      <3>1. InHand(i) = FALSE
        BY <2>2, OneHand
      <3>2. (Over(i)' <=> Over(i)) /\ (New(i)' <=> New(i))
        BY <1>2, <1>3, <2>2, <3>1 DEF Over, New, OnePlace
      <3> QED
        BY <1>2, <1>3, <2>2, <3>1, <3>2 DEF QueueInv, PayloadsApart, OnePlace
    <2> QED
      BY <2>1, <2>2
  <1>5. PayloadsApart'
    BY <1>4 DEF QueueInv, PayloadsApart, OnePlace
  <1>6. AttemptsCounted'
    BY DEF QueueInv, AttemptsCounted
  <1>7. \A i \in Job : i = j => Over(i)'
    BY <1>2 DEF Over
  <1>8. ASSUME NEW i \in Job, i # j
        PROVE  Still(i)
    <2>1. ~InHand(i) /\ ended'[i] = ended[i] /\ runs'[i] = runs[i]
      BY <1>2, <1>8, OneHand
    <2> QED
      BY <1>3, <2>1 DEF Over, Still
  <1> QED
    BY <1>1, <1>5, <1>6, <1>7, <1>8 DEF Ended

(* A payload of a job that no list has is pushed: the lists then have it once. *)
LEMMA PushedOnce ==
  ASSUME QueueInv, NEW m \in Payload, Push(m), ~Waiting(m.job)
  PROVE  /\ \A k, l \in Kind : \A i \in DOMAIN list'[k] : \A x \in DOMAIN list'[l] :
              list'[k][i].job = list'[l][x].job => k = l /\ i = x
         /\ \A j : Waiting(j)' <=> Waiting(j) \/ j = m.job
         /\ \A k \in Kind : \A i \in DOMAIN list'[k] :
              list'[k][i] = m \/ (i \in DOMAIN list[k] /\ list'[k][i] = list[k][i])
  <1> DEFINE k0 == KindOf[m.job]
  <1>1. PICK n \in Nat :
          /\ k0 \in Kind
          /\ n \notin DOMAIN list[k0] /\ n \in DOMAIN list'[k0]
          /\ list'[k0][n] = m
          /\ \A k \in Kind :
               /\ \A i \in DOMAIN list[k] : i \in DOMAIN list'[k] /\ list'[k][i] = list[k][i]
               /\ \A i \in DOMAIN list'[k] : i \in DOMAIN list[k] \/ (k = k0 /\ i = n)
    BY Pushes DEF QueueInv, TypeOK
  <1> HIDE DEF k0
  <1>2. \A k \in Kind : \A i \in DOMAIN list[k] : list[k][i].job # m.job
    BY DEF Waiting
  <1>3. ASSUME NEW k \in Kind, NEW l \in Kind, NEW i \in DOMAIN list'[k],
               NEW x \in DOMAIN list'[l], list'[k][i].job = list'[l][x].job
        PROVE  k = l /\ i = x
    <2>1. CASE i \in DOMAIN list[k] /\ x \in DOMAIN list[l]
      BY <1>1, <1>3, <2>1 DEF QueueInv, PayloadsApart, OnePlace
    <2>2. CASE ~(i \in DOMAIN list[k] /\ x \in DOMAIN list[l])
      BY <1>1, <1>2, <1>3, <2>2
    <2> QED
      BY <2>1, <2>2
  <1>4. \A j : Waiting(j)' <=> Waiting(j) \/ j = m.job
    BY <1>1 DEF Waiting
  <1>5. \A k \in Kind : \A i \in DOMAIN list'[k] :
          list'[k][i] = m \/ (i \in DOMAIN list[k] /\ list'[k][i] = list[k][i])
    BY <1>1
  <1> QED
    BY <1>3, <1>4, <1>5

(* The payload of a job that is new is pushed. *)
LEMMA EnqueueApart ==
  ASSUME QueueInv, NEW w, Worker = {w}, NEW j \in Job, Enqueue(j)
  PROVE  /\ PayloadsApart' /\ AttemptsCounted'
         /\ \A i \in Job : IF i = j THEN Enqueued(i) ELSE Still(i)
  <1> DEFINE m == [job |-> j, attempts |-> 0]
  <1>1. /\ New(j) /\ runs[j] = 0 /\ Push(m)
        /\ UNCHANGED <<delayed, due, dlq, worker, applied, runs, ended>>
    BY DEF Enqueue
  <1>2. m \in Payload /\ m.job = j /\ m.attempts = 0
    BY JobsAssumption DEF Payload
  <1> HIDE DEF m
  <1>3. ~Waiting(j) /\ ~Delayed(j) /\ ~InHand(j) /\ ~Over(j)
    BY <1>1 DEF New
  <1>4. \A i : Waiting(i)' <=> Waiting(i) \/ i = j
    BY <1>1, <1>2, <1>3, PushedOnce
  <1>5. \A i : /\ (Delayed(i)' <=> Delayed(i)) /\ (InHand(i)' <=> InHand(i))
               /\ (Dead(i)' <=> Dead(i)) /\ (Over(i)' <=> Over(i))
    BY <1>1 DEF Delayed, InHand, Dead, Over
  <1>6. \A i : New(i)' => New(i) /\ i # j
    BY <1>4, <1>5 DEF New
  <1>7. PayloadsApart'
    <2>1. \A i \in Job : OnePlace(i)'
      BY <1>1, <1>3, <1>4, <1>5, <1>6 DEF QueueInv, PayloadsApart, OnePlace
    <2> QED
      BY <1>1, <1>2, <1>3, <2>1, PushedOnce DEF QueueInv, PayloadsApart, OnePlace
  <1>8. AttemptsCounted'
    <2>1. \A k \in Kind : \A i \in DOMAIN list'[k] :
            runs'[list'[k][i].job] = list'[k][i].attempts
      BY <1>1, <1>2, <1>3, PushedOnce DEF QueueInv, AttemptsCounted
    <2> QED
      BY <1>1, <2>1 DEF QueueInv, AttemptsCounted
  <1>9. \A i \in Job : IF i = j THEN Enqueued(i) ELSE Still(i)
    BY <1>1, <1>3, <1>4, <1>5 DEF Still, Enqueued
  <1> QED
    BY <1>7, <1>8, <1>9

(* A due payload is moved to its list, or lost on the way. *)
LEMMA MoveApart ==
  ASSUME QueueInv, NEW w, Worker = {w}, NEW m \in worker[w].moving,
         MoveDue(w, m) \/ MoveLost(w, m)
  PROVE  /\ PayloadsApart' /\ AttemptsCounted'
         /\ MoveDue(w, m) => \A i \in Job : Still(i)
         /\ MoveLost(w, m) =>
              \A i \in Job : IF i = m.job THEN Ended(i) ELSE Still(i)
  <1> DEFINE j == m.job
  <1>1. /\ delayed' = delayed \ {m} /\ UNCHANGED <<dlq, applied, runs>>
        /\ worker' = [worker EXCEPT ![w] = [worker[w] EXCEPT !.moving = @ \ {m}]]
    BY DEF MoveDue, MoveLost, Moved, Becomes
  <1>2. m \in delayed /\ m \in Payload /\ j \in Job
    BY DEF QueueInv, HandFits, TypeOK, Payload
  <1>3. worker'[w].job = worker[w].job /\ worker'[w].attempts = worker[w].attempts
    BY <1>1 DEF QueueInv, TypeOK
  <1>4. Delayed(j) /\ ~Waiting(j) /\ ~InHand(j) /\ ~Over(j)
    BY <1>2 DEF Delayed, QueueInv, PayloadsApart, OnePlace
  <1>5. \A i \in Job : Delayed(i)' <=> Delayed(i) /\ i # j
    BY <1>1, <1>2 DEF Delayed, QueueInv, PayloadsApart, OnePlace
  <1>6. \A i : (InHand(i)' <=> InHand(i)) /\ (Dead(i)' <=> Dead(i))
    BY <1>1, <1>3 DEF InHand, Dead
  <1> HIDE DEF j
  <1>7. ASSUME MoveDue(w, m)
        PROVE  PayloadsApart' /\ AttemptsCounted' /\ \A i \in Job : Still(i)
    <2>1. Push(m) /\ UNCHANGED ended
      BY <1>7 DEF MoveDue
    <2>2. \A i : Waiting(i)' <=> Waiting(i) \/ i = j
      BY <1>2, <1>4, <2>1, PushedOnce DEF j
    <2>3. \A i \in Job : (Over(i)' <=> Over(i)) /\ (New(i)' <=> New(i))
      BY <1>4, <1>5, <1>6, <2>1, <2>2 DEF Over, New, OnePlace
    <2>4. \A i \in Job : OnePlace(i)'
      BY <1>1, <1>4, <1>5, <1>6, <2>1, <2>2, <2>3 DEF QueueInv, PayloadsApart, OnePlace
    <2>5. PayloadsApart'
      BY <1>1, <1>2, <1>4, <2>1, <2>4, PushedOnce DEF QueueInv, PayloadsApart, OnePlace, j
    <2>6. \A k \in Kind : \A i \in DOMAIN list'[k] :
            runs'[list'[k][i].job] = list'[k][i].attempts
      BY <1>1, <1>2, <1>4, <2>1, PushedOnce DEF QueueInv, AttemptsCounted, j
    <2>7. AttemptsCounted'
      BY <1>1, <1>3, <2>6 DEF QueueInv, AttemptsCounted
    <2>8. \A i \in Job : Still(i)
      BY <1>1, <1>4, <1>5, <1>6, <2>2, <2>3 DEF Still
    <2> QED
      BY <2>5, <2>7, <2>8
  <1>8. ASSUME MoveLost(w, m)
        PROVE  /\ PayloadsApart' /\ AttemptsCounted'
               /\ \A i \in Job : IF i = j THEN Ended(i) ELSE Still(i)
    <2>1. ended' = [ended EXCEPT ![j] = "lost"] /\ UNCHANGED list
      BY <1>8 DEF MoveLost, Loses, j
    <2>2. ended'[j] = "lost" /\ \A i \in Job \ {j} : ended'[i] = ended[i]
      BY <1>2, <2>1 DEF QueueInv, TypeOK
    <2>3. \A i : (Waiting(i)' <=> Waiting(i))
      BY <2>1 DEF Waiting
    <2>4. ASSUME NEW i \in Job
          PROVE  OnePlace(i)'
      <3>1. CASE i = j
        BY <1>4, <1>5, <1>6, <2>2, <2>3, <3>1 DEF Over, New, OnePlace
      <3>2. CASE i # j
        <4>1. (Over(i)' <=> Over(i)) /\ (New(i)' <=> New(i)) /\ (Delayed(i)' <=> Delayed(i))
          BY <1>5, <1>6, <2>2, <2>3, <3>2 DEF Over, New, OnePlace
        <4>2. /\ (InHand(i)' <=> InHand(i)) /\ (Dead(i)' <=> Dead(i)) /\ (Waiting(i)' <=> Waiting(i))
              /\ ended'[i] = ended[i] /\ runs'[i] = runs[i]
          BY <1>1, <1>6, <2>2, <2>3, <3>2
        <4> QED
          BY <4>1, <4>2 DEF QueueInv, PayloadsApart, OnePlace
      <3> QED
        BY <3>1, <3>2
    <2>5. PayloadsApart'
      BY <1>1, <2>1, <2>4 DEF QueueInv, PayloadsApart, OnePlace
    <2>6. AttemptsCounted'
      BY <1>1, <1>3, <2>1 DEF QueueInv, AttemptsCounted
    <2>7. Ended(j)
      BY <1>4, <2>2 DEF Ended, Over
    <2>8. ASSUME NEW i \in Job, i # j
          PROVE  Still(i)
      BY <1>1, <1>5, <1>6, <2>2, <2>3, <2>8 DEF Over, Still
    <2> QED
      BY <2>5, <2>6, <2>7, <2>8
  <1> QED
    BY <1>7, <1>8 DEF j

(* A payload leaves its list for the worker's hand, and a run begins. *)
LEMMA PopApart ==
  ASSUME QueueInv, NEW w, Worker = {w}, Pop(w)
  PROVE  /\ PayloadsApart' /\ AttemptsCounted'
         /\ \E j \in Job : \A i \in Job : IF i = j THEN Started(i) ELSE Still(i)
  <1> DEFINE k0 == IF list["daily_rations"] # <<>> THEN "daily_rations" ELSE "daily_production"
             n  == Len(list[k0])
             m  == list[k0][n]
             j  == m.job
             hand == [Ready EXCEPT !.phase = "read", !.job = m.job, !.attempts = m.attempts,
                                   !.camp = 1]
  <1>1. k0 \in Kind /\ list[k0] # <<>> /\ worker[w].phase = "move"
    BY DEF Pop, Kind
  <1>2. list' = [list EXCEPT ![k0] = SubSeq(@, 1, Len(@) - 1)]
    BY DEF Pop
  <1>3. /\ runs' = [runs EXCEPT ![j] = @ + 1] /\ worker' = [worker EXCEPT ![w] = hand]
        /\ UNCHANGED <<delayed, due, dlq, applied, ended>>
    BY DEF Pop, Becomes
  <1>4. hand.job = j /\ hand.attempts = m.attempts
    BY DEF Ready
  <1> HIDE DEF k0, hand
  <1>5. /\ n \in DOMAIN list[k0] /\ m \in Payload
        /\ \A k \in Kind :
             /\ \A i \in DOMAIN list'[k] :
                  i \in DOMAIN list[k] /\ list'[k][i] = list[k][i] /\ ~(k = k0 /\ i = n)
             /\ \A i \in DOMAIN list[k] : i \in DOMAIN list'[k] \/ (k = k0 /\ i = n)
    BY <1>1, <1>2, Pops DEF QueueInv, TypeOK
  <1>6. j \in Job /\ Waiting(j) /\ worker[w].job = NoJob /\ worker'[w] = hand
    BY <1>1, <1>3, <1>5 DEF Waiting, Payload, QueueInv, HandFits, TypeOK
  <1>7. ~Delayed(j) /\ ~Over(j)
    BY <1>6 DEF QueueInv, PayloadsApart, OnePlace
  <1>8. runs[j] = m.attempts /\ m.attempts \in 0 .. MaxRetries
    BY <1>1, <1>5 DEF QueueInv, AttemptsCounted, Payload
  <1> HIDE DEF n, m
  <1>9. \A i \in Job : (Waiting(i)' <=> Waiting(i) /\ i # j)
    <2>1. ASSUME NEW i \in Job, Waiting(i)'
          PROVE  Waiting(i) /\ i # j
      <3>1. PICK k \in Kind : \E x \in DOMAIN list'[k] : list'[k][x].job = i
        BY <2>1 DEF Waiting
      <3>2. PICK x \in DOMAIN list'[k] : list'[k][x].job = i
        BY <3>1
      <3>3. x \in DOMAIN list[k] /\ list[k][x].job = i /\ ~(k = k0 /\ x = n)
        BY <1>5, <3>2
      <3>4. i # j
        BY <1>1, <1>5, <3>3 DEF QueueInv, PayloadsApart, m
      <3> QED
        BY <3>3, <3>4 DEF Waiting
    <2>2. ASSUME NEW i \in Job, Waiting(i), i # j
          PROVE  Waiting(i)'
      <3>1. PICK k \in Kind : \E x \in DOMAIN list[k] : list[k][x].job = i
        BY <2>2 DEF Waiting
      <3>2. PICK x \in DOMAIN list[k] : list[k][x].job = i
        BY <3>1
      <3>3. x \in DOMAIN list'[k] /\ list'[k][x] = list[k][x]
        BY <1>5, <2>2, <3>2 DEF m
      <3> QED
        BY <3>2, <3>3 DEF Waiting
    <2> QED
      BY <2>1, <2>2
  <1>10. \A i \in Job : (InHand(i)' <=> i = j) /\ ~InHand(i)
    BY <1>4, <1>6, JobsAssumption DEF InHand
  <1>11. \A i : (Delayed(i)' <=> Delayed(i)) /\ (Dead(i)' <=> Dead(i)) /\ (Over(i)' <=> Over(i))
    BY <1>3 DEF Delayed, Dead, Over
  <1>12. runs'[j] = runs[j] + 1 /\ \A i \in Job \ {j} : runs'[i] = runs[i]
    BY <1>3, <1>6 DEF QueueInv, TypeOK
  <1> HIDE DEF j
  <1>13. ASSUME NEW i \in Job PROVE OnePlace(i)'
    <2>1. CASE i = j
      BY <1>3, <1>6, <1>7, <1>9, <1>10, <1>11, <2>1 DEF OnePlace, New, Over
    <2>2. CASE i # j
      <3>1. New(i)' <=> New(i)
        BY <1>9, <1>10, <1>11, <2>2 DEF New
      <3>2. OnePlace(i)
        BY DEF QueueInv, PayloadsApart
      <3> QED
        BY <1>3, <1>9, <1>10, <1>11, <1>12, <2>2, <3>1, <3>2 DEF OnePlace
    <2> QED
      BY <2>1, <2>2
  <1>14. PayloadsApart'
    <2>1. \A k, l \in Kind : \A i \in DOMAIN list'[k] : \A x \in DOMAIN list'[l] :
            list'[k][i].job = list'[l][x].job => k = l /\ i = x
      BY <1>5 DEF QueueInv, PayloadsApart
    <2> QED
      BY <1>3, <1>13, <2>1 DEF QueueInv, PayloadsApart
  <1>15. AttemptsCounted'
    <2>1. \A k \in Kind : \A i \in DOMAIN list'[k] :
            runs'[list'[k][i].job] = list'[k][i].attempts
      <3>1. ASSUME NEW k \in Kind, NEW i \in DOMAIN list'[k]
            PROVE  runs'[list'[k][i].job] = list'[k][i].attempts
        <4>1. /\ list'[k][i] = list[k][i] /\ i \in DOMAIN list[k]
              /\ list[k][i] \in Payload
          BY <1>5, <3>1 DEF QueueInv, TypeOK
        <4>2. list[k][i].job # j /\ list[k][i].job \in Job
          BY <1>1, <1>5, <3>1, <4>1 DEF QueueInv, PayloadsApart, Payload, j, m
        <4> QED
          BY <1>12, <4>1, <4>2 DEF QueueInv, AttemptsCounted
      <3> QED
        BY <3>1
    <2>2. \A x \in delayed' : runs'[x.job] = x.attempts
      <3>1. \A x \in delayed : x.job \in Job /\ x.job # j
        BY <1>7 DEF Delayed, QueueInv, TypeOK, Payload
      <3> QED
        BY <1>3, <1>12, <3>1 DEF QueueInv, AttemptsCounted
    <2>3. runs'[worker'[w].job] = worker'[w].attempts + 1
      BY <1>4, <1>6, <1>8, <1>12
    <2>4. \A i \in Job : runs'[i] <= MaxRetries + 1
      BY <1>8, <1>12, JobsAssumption DEF QueueInv, AttemptsCounted
    <2> QED
      BY <2>1, <2>2, <2>3, <2>4 DEF AttemptsCounted
  <1>16. \A i \in Job : IF i = j THEN Started(i) ELSE Still(i)
    BY <1>6, <1>7, <1>9, <1>10, <1>11, <1>12 DEF Still, Started
  <1> QED
    BY <1>6, <1>14, <1>15, <1>16

(* The failed job waits for another attempt, or is buried. *)
LEMMA SettleApart ==
  ASSUME QueueInv, NEW w, Worker = {w}, Retry(w) \/ Bury(w)
  PROVE  /\ PayloadsApart' /\ AttemptsCounted'
         /\ \A i \in Job : IF i = worker[w].job THEN Retried(i) \/ Ended(i) ELSE Still(i)
  <1> DEFINE j == worker[w].job
             m == [job |-> j, attempts |-> worker[w].attempts + 1]
  <1>1. /\ worker[w].phase = "failed" /\ worker' = [worker EXCEPT ![w] = Ready]
        /\ UNCHANGED <<list, runs, ended>>
    BY DEF Retry, Bury, Becomes
  <1>2. j \in Job /\ worker'[w].job = NoJob
    BY <1>1, ReadyHand DEF QueueInv, HandFits, TypeOK
  <1>3. InHand(j) /\ ~Waiting(j) /\ ~Delayed(j) /\ ~Over(j)
    BY <1>2, OneHand DEF QueueInv, PayloadsApart, OnePlace
  <1>4. \A i : Waiting(i)' <=> Waiting(i)
    BY <1>1 DEF Waiting
  <1>5. \A i \in Job : ~InHand(i)' /\ (InHand(i) <=> i = j)
    BY <1>2, OneHand, JobsAssumption DEF InHand
  <1>6. runs[j] = worker[w].attempts + 1 /\ worker[w].attempts \in Nat
    BY <1>2, JobsAssumption DEF QueueInv, AttemptsCounted, TypeOK
  <1> DEFINE Settled == \A i \in Job : IF i = j THEN Retried(i) \/ Ended(i) ELSE Still(i)
  <1>7. ASSUME Retry(w)
        PROVE  PayloadsApart' /\ AttemptsCounted' /\ Settled
    <2>1. delayed' = delayed \cup {m} /\ UNCHANGED dlq
      BY <1>7 DEF Retry
    <2>2. m.job = j /\ m.attempts = worker[w].attempts + 1
      OBVIOUS
    <2> HIDE DEF j, m
    <2>3. \A i : (Delayed(i)' <=> Delayed(i) \/ i = j) /\ (Over(i)' <=> Over(i)) /\ (Dead(i)' <=> Dead(i))
      BY <1>1, <2>1, <2>2 DEF Delayed, Over, Dead
    <2>4. ASSUME NEW i \in Job PROVE OnePlace(i)'
      <3>1. OnePlace(i)
        BY DEF QueueInv, PayloadsApart
      <3>2. New(i)' <=> New(i)
        BY <1>3, <1>4, <1>5, <2>3 DEF New
      <3> QED
        BY <1>1, <1>3, <1>4, <1>5, <2>3, <3>1, <3>2 DEF OnePlace
    <2>5. \A x, y \in delayed' : x.job = y.job => x = y
      BY <1>3, <2>1, <2>2 DEF QueueInv, PayloadsApart, Delayed
    <2>6. PayloadsApart'
      BY <1>1, <2>1, <2>4, <2>5 DEF QueueInv, PayloadsApart
    <2>7. AttemptsCounted'
      BY <1>1, <1>2, <1>6, <2>1, <2>2 DEF QueueInv, AttemptsCounted
    <2>8. runs[j] <= MaxRetries
      BY <1>6, <1>7, JobsAssumption DEF Retry, j
    <2>9. ASSUME NEW i \in Job, i # j
          PROVE  Still(i)
      BY <1>1, <1>4, <1>5, <2>3, <2>9 DEF Still
    <2>10. \A i \in Job : i = j => Retried(i)
      BY <1>1, <1>3, <1>5, <2>3, <2>8 DEF Retried
    <2> QED
      BY <2>6, <2>7, <2>9, <2>10
  <1>8. ASSUME Bury(w)
        PROVE  PayloadsApart' /\ AttemptsCounted' /\ Settled
    <2>1. dlq' = Append(dlq, j) /\ UNCHANGED delayed /\ dlq \in Seq(Job)
      BY <1>8 DEF Bury, QueueInv, TypeOK
    <2> HIDE DEF j
    <2>2. /\ DOMAIN dlq = 1 .. Len(dlq) /\ DOMAIN dlq' = 1 .. Len(dlq) + 1 /\ Len(dlq) \in Nat
          /\ dlq'[Len(dlq) + 1] = j /\ \A i \in DOMAIN dlq : dlq'[i] = dlq[i]
      BY <1>2, <2>1
    <2>3. \A i : (Dead(i)' <=> Dead(i) \/ i = j) /\ (Delayed(i)' <=> Delayed(i))
      BY <2>1, <2>2 DEF Dead, Delayed
    <2>4. \A i : Over(i)' <=> Over(i) \/ i = j
      BY <1>1, <2>3 DEF Over
    <2>5. ASSUME NEW i \in Job PROVE OnePlace(i)'
      <3>1. OnePlace(i)
        BY DEF QueueInv, PayloadsApart
      <3>2. New(i)' <=> New(i)
        BY <1>3, <1>4, <1>5, <2>3, <2>4 DEF New
      <3>3. ended'[i] = ended[i] /\ runs'[i] = runs[i] /\ ended[j] = "no"
        BY <1>1, <1>3 DEF Over
      <3> QED
        BY <1>3, <1>4, <1>5, <2>3, <2>4, <3>1, <3>2, <3>3 DEF OnePlace
    <2>6. \A i, x \in DOMAIN dlq' : dlq'[i] = dlq'[x] => i = x
      <3>1. \A i \in DOMAIN dlq : dlq[i] # j
        BY <1>3 DEF Over, Dead
      <3> QED
        BY <2>2, <3>1 DEF QueueInv, PayloadsApart
    <2>7. PayloadsApart'
      BY <1>1, <2>1, <2>5, <2>6 DEF QueueInv, PayloadsApart
    <2>8. AttemptsCounted'
      BY <1>1, <1>2, <2>1 DEF QueueInv, AttemptsCounted
    <2>9. ASSUME NEW i \in Job, i # j
          PROVE  Still(i)
      BY <1>1, <1>4, <1>5, <2>3, <2>4, <2>9 DEF Still
    <2>10. \A i \in Job : i = j => Ended(i)
      BY <1>3, <2>4 DEF Ended
    <2> QED
      BY <2>7, <2>8, <2>9, <2>10
  <1> QED
    BY <1>7, <1>8

-----------------------------------------------------------------------------
(* What comes after a resource: another one, ... *)
LEMMA AfterResource ==
  ASSUME NEW w, NEW c \in Hand, worker[w] = c, NEW r \in Resource, ~(c.todo \subseteq {r})
  PROVE  /\ After(w, r) \in Hand
         /\ After(w, r).phase = c.phase /\ After(w, r).job = c.job
         /\ After(w, r).attempts = c.attempts
         /\ After(w, r).camp = c.camp /\ After(w, r).moving = c.moving
         /\ After(w, r).todo = c.todo \ {r}
  <1>1. c.todo \ {r} \in SUBSET Resource /\ c.todo \ {r} # {}
    BY DEF Hand
  <1>2. After(w, r) = [c EXCEPT !.todo = c.todo \ {r}]
    BY <1>1 DEF After
  <1> QED
    BY <1>1, <1>2 DEF Hand

(* ... another camp, ... *)
LEMMA AfterCamp ==
  ASSUME NEW w, NEW c \in Hand, worker[w] = c, NEW r \in Resource,
         c.todo \subseteq {r}, c.camp < Len(Camps)
  PROVE  /\ After(w, r) \in Hand
         /\ After(w, r).phase = "read" /\ After(w, r).job = c.job
         /\ After(w, r).attempts = c.attempts
         /\ After(w, r).camp = c.camp + 1 /\ After(w, r).moving = c.moving
  <1>1. c.todo \ {r} = {} /\ c.camp + 1 \in 0 .. Len(Camps)
    BY JobsAssumption DEF Hand
  <1>2. After(w, r) = [c EXCEPT !.phase = "read", !.todo = {}, !.camp = c.camp + 1]
    BY <1>1 DEF After
  <1> QED
    BY <1>1, <1>2 DEF Hand

(* ... or nothing. *)
LEMMA AfterRun ==
  ASSUME NEW w, NEW c \in Hand, worker[w] = c, NEW r \in Resource,
         c.todo \subseteq {r}, ~(c.camp < Len(Camps))
  PROVE  After(w, r) = Ready
  <1>1. c.todo \ {r} = {}
    OBVIOUS
  <1> QED
    BY <1>1 DEF After

(* A worker that polls fits what it holds. *)
LEMMA FitsPoll ==
  ASSUME QueueInv, NEW w, Worker = {w}, Poll(w), TypeOK'
  PROVE  HandFits'
  <1> DEFINE c == worker[w]
             d == worker'[w]
  <1>1. c \in Hand /\ worker \in [Worker -> Hand] /\ HandFits
    BY DEF QueueInv, TypeOK, Hand
  <1>2. SUFFICES /\ d.job = NoJob <=> d.phase \in {"poll", "move"}
                 /\ d.phase # "move" => d.moving = {}
                 /\ d.moving \subseteq due'
                 /\ d.phase \in {"read", "write"} => d.camp > 0
    BY DEF HandFits
  <1>3. CASE ReadDue(w)
    <2>1. d = [c EXCEPT !.phase = "move", !.moving = due] /\ due' = due /\ c.phase = "poll"
      BY <1>1, <1>3 DEF ReadDue, Becomes
    <2> QED
      BY <1>1, <2>1 DEF HandFits, Hand
  <1>4. ASSUME NEW m \in c.moving, MoveDue(w, m) \/ MoveLost(w, m) \/ MoveFails(w, m)
        PROVE  /\ d.job = NoJob <=> d.phase \in {"poll", "move"}
               /\ d.phase # "move" => d.moving = {}
               /\ d.moving \subseteq due'
               /\ d.phase \in {"read", "write"} => d.camp > 0
    <2>1. /\ d = [c EXCEPT !.moving = c.moving \ {m}] /\ due \ {m} \subseteq due'
          /\ c.phase = "move"
      BY <1>1, <1>4 DEF MoveDue, MoveLost, MoveFails, Moved, Becomes
    <2> QED
      BY <1>1, <2>1 DEF HandFits, Hand
  <1>5. CASE Pop(w)
    <2> DEFINE k == IF list["daily_rations"] # <<>> THEN "daily_rations" ELSE "daily_production"
               m == list[k][Len(list[k])]
    <2>1. k \in Kind /\ list[k] # <<>> /\ list' = [list EXCEPT ![k] = SubSeq(@, 1, Len(@) - 1)]
      BY <1>5 DEF Pop, Kind
    <2>2. d = [Ready EXCEPT !.phase = "read", !.job = m.job, !.attempts = m.attempts, !.camp = 1]
      BY <1>1, <1>5 DEF Pop, Becomes
    <2> HIDE DEF k
    <2>3. m \in Payload
      BY <2>1, Pops DEF QueueInv, TypeOK
    <2> HIDE DEF m
    <2>4. d.phase = "read" /\ d.job = m.job /\ d.moving = {} /\ d.camp = 1
      BY <2>2 DEF Ready
    <2> QED
      BY <2>3, <2>4, JobsAssumption DEF Payload
  <1>6. CASE PopFails(w)
    <2>1. d = Ready
      BY <1>1, <1>6 DEF PopFails, Becomes
    <2> QED
      BY <2>1, ReadyHand
  <1> QED
    BY <1>3, <1>4, <1>5, <1>6 DEF Poll, Move

(* ... and so does one that works. *)
LEMMA FitsWork ==
  ASSUME QueueInv, NEW w, Worker = {w}, Work(w)
  PROVE  HandFits'
  <1> DEFINE c == worker[w]
             d == worker'[w]
  <1>1. c \in Hand /\ worker \in [Worker -> Hand] /\ HandFits
    BY DEF QueueInv, TypeOK, Hand
  <1>2. SUFFICES /\ d.job = NoJob <=> d.phase \in {"poll", "move"}
                 /\ d.phase # "move" => d.moving = {}
                 /\ d.moving \subseteq due'
                 /\ d.phase \in {"read", "write"} => d.camp > 0
    BY DEF HandFits
  <1>3. CASE ReadCamp(w) \/ ReadFails(w)
    <2>1. /\ c.phase = "read"
          /\ \/ d = [c EXCEPT !.phase = "write", !.todo = Resource]
             \/ d = [c EXCEPT !.phase = "failed"]
      BY <1>1, <1>3 DEF ReadCamp, ReadFails, Becomes
    <2> QED
      BY <1>1, <2>1 DEF HandFits, Hand
  <1>4. ASSUME NEW r \in Resource, Write(w, r) \/ WriteFails(w, r)
        PROVE  /\ d.job = NoJob <=> d.phase \in {"poll", "move"}
               /\ d.phase # "move" => d.moving = {}
               /\ d.moving \subseteq due'
               /\ d.phase \in {"read", "write"} => d.camp > 0
    <2>1. /\ c.phase = "write"
          /\ \/ d = After(w, r)
             \/ d = [c EXCEPT !.phase = "failed", !.todo = {}]
      BY <1>1, <1>4 DEF Write, WriteFails, Continues, Becomes
    <2>2. c.job # NoJob /\ c.moving = {} /\ c.camp > 0 /\ c.camp \in Nat
      BY <1>1, <2>1 DEF HandFits, Hand
    <2>3. CASE d = After(w, r)
      <3>1. CASE ~(c.todo \subseteq {r})
        BY <1>1, <2>1, <2>2, <2>3, <3>1, AfterResource
      <3>2. CASE c.todo \subseteq {r} /\ c.camp < Len(Camps)
        BY <1>1, <2>2, <2>3, <3>2, AfterCamp
      <3>3. CASE c.todo \subseteq {r} /\ ~(c.camp < Len(Camps))
        BY <1>1, <2>3, <3>3, AfterRun, ReadyHand
      <3> QED
        BY <3>1, <3>2, <3>3
    <2>4. CASE d = [c EXCEPT !.phase = "failed", !.todo = {}]
      <3>1. d.phase = "failed" /\ d.job = c.job /\ d.moving = c.moving
        BY <1>1, <2>4 DEF Hand
      <3> QED
        BY <2>2, <3>1
    <2> QED
      BY <2>1, <2>3, <2>4
  <1>5. CASE Retry(w) \/ Bury(w) \/ SettleLost(w)
    <2>1. d = Ready
      BY <1>1, <1>5 DEF Retry, Bury, SettleLost, Becomes
    <2> QED
      BY <2>1, ReadyHand
  <1> QED
    BY <1>3, <1>4, <1>5 DEF Work

(* A part is a camp and a resource. *)
LEMMA PartShape ==
  \A p \in Part : /\ p[1] \in 1 .. Len(Camps) /\ p[1] \in Nat /\ p[1] > 0
                  /\ p[2] \in Resource /\ p = <<p[1], p[2]>>
  BY JobsAssumption DEF Part

(* Between runs, and where a run does not write, the counts stand. *)
LEMMA PartsStay ==
  ASSUME PartsCounted, NEW w, Worker = {w}, UNCHANGED <<applied, runs>>,
         \A j \in Job : ended'[j] = "done" => ended[j] = "done",
         UNCHANGED worker \/ worker'[w].phase \notin {"read", "write"}
  PROVE  PartsCounted'
  BY DEF PartsCounted, Behind

(* What is in hand while a run reads and writes, and where it is. *)
LEMMA RunInHand ==
  ASSUME QueueInv, NEW w, Worker = {w}, worker[w].phase \in {"read", "write"},
         NEW r \in Resource
  PROVE  /\ worker[w].job \in Job /\ worker[w].camp \in 1 .. Len(Camps)
         /\ \A p \in Part : p[1] \in 1 .. Len(Camps) /\ p[2] \in Resource /\ p = <<p[1], p[2]>>
         /\ worker[w].camp <= Len(Camps) => <<worker[w].camp, r>> \in Part
         /\ \A j \in Job : runs[j] \in Nat /\ \A p \in Part : applied[j][p] \in Nat
  <1>1. worker[w].job \in Job /\ worker[w].camp \in 1 .. Len(Camps)
    BY JobsAssumption DEF QueueInv, HandFits, TypeOK
  <1>2. \A p \in Part : p[1] \in 1 .. Len(Camps) /\ p[2] \in Resource /\ p = <<p[1], p[2]>>
    BY JobsAssumption DEF Part
  <1>3. <<worker[w].camp, r>> \in Part
    BY <1>1, JobsAssumption DEF Part
  <1>4. \A j \in Job : runs[j] \in Nat /\ \A p \in Part : applied[j][p] \in Nat
    BY DEF QueueInv, TypeOK
  <1> QED
    BY <1>1, <1>2, <1>3, <1>4

(* A transaction adds one to its part of the job, and to nothing else. *)
LEMMA AppliesOnce ==
  ASSUME QueueInv, NEW w, Worker = {w}, worker[w].phase = "write", NEW r \in Resource,
         Applies(w, r)
  PROVE  LET j == worker[w].job
             q == <<worker[w].camp, r>> IN
         /\ applied'[j][q] = applied[j][q] + 1
         /\ \A p \in Part \ {q} : applied'[j][p] = applied[j][p]
         /\ \A i \in Job \ {j} : applied'[i] = applied[i]
  <1> DEFINE j == worker[w].job
             q == <<worker[w].camp, r>>
             counts == [applied[j] EXCEPT ![q] = @ + 1]
  <1>1. j \in Job /\ q \in Part
    BY RunInHand
  <1>2. applied' = [applied EXCEPT ![j] = counts] /\ applied \in [Job -> [Part -> Nat]]
    BY DEF Applies, QueueInv, TypeOK
  <1> HIDE DEF q
  <1>3. applied'[j] = counts /\ \A i \in Job \ {j} : applied'[i] = applied[i]
    BY <1>1, <1>2
  <1>4. counts[q] = applied[j][q] + 1 /\ \A p \in Part \ {q} : counts[p] = applied[j][p]
    BY <1>1, <1>2
  <1> QED
    BY <1>3, <1>4 DEF q

(* A run that begins has the first camp before it, and one run more. *)
LEMMA PartsPop ==
  ASSUME QueueInv, NEW w, Worker = {w}, Pop(w)
  PROVE  PartsCounted'
  <1> DEFINE k0 == IF list["daily_rations"] # <<>> THEN "daily_rations" ELSE "daily_production"
             m  == list[k0][Len(list[k0])]
             j  == m.job
             hand == [Ready EXCEPT !.phase = "read", !.job = m.job, !.attempts = m.attempts,
                                   !.camp = 1]
  <1>1. k0 \in Kind /\ list[k0] # <<>> /\ list' = [list EXCEPT ![k0] = SubSeq(@, 1, Len(@) - 1)]
    BY DEF Pop, Kind
  <1>2. /\ runs' = [runs EXCEPT ![j] = @ + 1] /\ worker' = [worker EXCEPT ![w] = hand]
        /\ UNCHANGED <<applied, ended>>
    BY DEF Pop, Becomes
  <1>3. hand.job = j /\ hand.phase = "read" /\ hand.camp = 1
    BY DEF Ready
  <1> HIDE DEF k0, hand
  <1>4. j \in Job
    BY <1>1, Pops DEF QueueInv, TypeOK, Payload
  <1> HIDE DEF j
  <1>5. runs'[j] = runs[j] + 1 /\ (\A i \in Job \ {j} : runs'[i] = runs[i]) /\ worker'[w] = hand
    BY <1>2, <1>4 DEF QueueInv, TypeOK
  <1>6. /\ \A i \in Job : runs[i] \in Nat /\ \A p \in Part : applied[i][p] \in Nat
        /\ \A p \in Part : p[1] \in Nat /\ p[1] > 0
    BY PartShape DEF QueueInv, TypeOK
  <1>7. \A p \in Part : ~Behind(w, p)'
    BY <1>3, <1>5, <1>6 DEF Behind
  <1>8. \A i \in Job : \A p \in Part :
          /\ applied'[i][p] <= runs'[i]
          /\ ended'[i] = "done" /\ KindOf[i] = "daily_production" => applied'[i][p] > 0
    BY <1>2, <1>4, <1>5, <1>6 DEF QueueInv, PartsCounted
  <1>9. \A p \in Part : applied'[j][p] < runs'[j]
    BY <1>2, <1>4, <1>5, <1>6 DEF QueueInv, PartsCounted
  <1> QED
    BY <1>3, <1>5, <1>7, <1>8, <1>9 DEF PartsCounted

(* Before its transactions a camp is not behind the worker. *)
LEMMA PartsRead ==
  ASSUME QueueInv, NEW w, Worker = {w}, ReadCamp(w)
  PROVE  PartsCounted'
  <1> DEFINE c == worker[w]
  <1>1. /\ c.phase = "read" /\ worker'[w] = [c EXCEPT !.phase = "write", !.todo = Resource]
        /\ UNCHANGED <<applied, runs, ended>>
    BY DEF ReadCamp, Becomes, QueueInv, TypeOK
  <1>2. worker'[w].phase = "write" /\ worker'[w].camp = c.camp /\ worker'[w].job = c.job
        /\ worker'[w].todo = Resource
    BY <1>1 DEF QueueInv, TypeOK
  <1>3. \A p \in Part : p[1] \in Int /\ p[2] \in Resource
    BY JobsAssumption DEF Part
  <1>4. \A p \in Part : Behind(w, p)' <=> Behind(w, p)
    BY <1>1, <1>2, <1>3 DEF Behind
  <1> QED
    BY <1>1, <1>2, <1>4 DEF QueueInv, PartsCounted

(* A transaction that commits puts its part behind the worker. *)
LEMMA PartsWrite ==
  ASSUME QueueInv, NEW w, Worker = {w}, NEW r \in Resource, Write(w, r) \/ WriteFails(w, r)
  PROVE  PartsCounted'
  <1> DEFINE c == worker[w]
             d == worker'[w]
             j == c.job
             q == <<c.camp, r>>
  <1>1. c.phase = "write" /\ r \in c.todo /\ (Applies(w, r) \/ UNCHANGED applied) /\ UNCHANGED runs
    BY DEF Write, WriteFails
  <1>2. c \in Hand /\ worker \in [Worker -> Hand]
    BY DEF QueueInv, TypeOK, Hand
  <1>3. /\ j \in Job /\ c.camp \in 1 .. Len(Camps) /\ q \in Part
        /\ \A p \in Part : p[1] \in 1 .. Len(Camps) /\ p[2] \in Resource /\ p = <<p[1], p[2]>>
        /\ \A i \in Job : runs[i] \in Nat /\ \A p \in Part : applied[i][p] \in Nat
    BY <1>1, RunInHand
  <1>4. /\ Applies(w, r) => applied'[j][q] = applied[j][q] + 1
        /\ ~Applies(w, r) => applied'[j][q] = applied[j][q]
        /\ \A p \in Part \ {q} : applied'[j][p] = applied[j][p]
        /\ \A i \in Job \ {j} : applied'[i] = applied[i]
    BY <1>1, AppliesOnce
  <1>5. ~Behind(w, q) /\ applied[j][q] < runs[j]
    BY <1>1, <1>3 DEF Behind, QueueInv, PartsCounted
  <1> HIDE DEF q
  <1>6. \A i \in Job : \A p \in Part : applied'[i][p] \in Nat /\ applied'[i][p] <= runs'[i]
    <2>1. \A i \in Job : \A p \in Part : applied[i][p] <= runs[i]
      BY DEF QueueInv, PartsCounted
    <2>2. applied'[j][q] \in Nat /\ applied'[j][q] <= runs'[j]
      BY <1>1, <1>3, <1>4, <1>5, <2>1
    <2> QED
      BY <1>1, <1>3, <1>4, <2>1, <2>2
  <1>7. \A p \in Part : applied'[j][p] >= applied[j][p]
    BY <1>3, <1>4
  <1>8. CASE Becomes(w, [c EXCEPT !.phase = "failed", !.todo = {}]) /\ UNCHANGED ended
    <2>1. d.phase = "failed"
      BY <1>2, <1>8 DEF Becomes, Hand
    <2>2. \A i \in Job : \A p \in Part :
            ended'[i] = "done" /\ KindOf[i] = "daily_production" => applied'[i][p] > 0
      BY <1>3, <1>4, <1>7, <1>8 DEF QueueInv, PartsCounted
    <2> QED
      BY <1>6, <2>1, <2>2 DEF PartsCounted
  <1>9. CASE Continues(w, r) /\ (KindOf[j] = "daily_production" => Applies(w, r))
    <2>1. d = After(w, r)
      BY <1>2, <1>9 DEF Continues, Becomes
    <2>2. /\ ended'[j] = IF d = Ready THEN "done" ELSE ended[j]
          /\ \A i \in Job \ {j} : ended'[i] = ended[i]
      BY <1>3, <1>9, <2>1 DEF Continues, QueueInv, TypeOK
    <2>3. \A p \in Part : (Behind(w, p) \/ p = q) /\ KindOf[j] = "daily_production"
                            => applied'[j][p] > 0
      <3>1. KindOf[j] = "daily_production" => applied'[j][q] > 0
        BY <1>3, <1>4, <1>9
      <3>2. \A p \in Part : Behind(w, p) /\ KindOf[j] = "daily_production" => applied[j][p] > 0
        BY <1>1 DEF QueueInv, PartsCounted
      <3> QED
        BY <1>3, <1>6, <1>7, <3>1, <3>2
    <2>4. \A p \in Part : ~Behind(w, p) /\ p # q => applied'[j][p] < runs'[j]
      BY <1>1, <1>4 DEF QueueInv, PartsCounted
    <2>5. \/ d # Ready /\ d.job = j /\ \A p \in Part : Behind(w, p)' <=> Behind(w, p) \/ p = q
          \/ d = Ready /\ \A p \in Part : Behind(w, p) \/ p = q
      <3>1. CASE ~(c.todo \subseteq {r})
        <4>1. /\ d.phase = c.phase /\ d.job = c.job /\ d.camp = c.camp
              /\ d.todo = c.todo \ {r}
          BY <1>2, <2>1, <3>1, AfterResource
        <4> QED
          BY <1>1, <1>3, <4>1, ReadyHand DEF Behind, q
      <3>2. CASE c.todo \subseteq {r} /\ c.camp < Len(Camps)
        <4>1. d.phase = "read" /\ d.job = c.job /\ d.camp = c.camp + 1
          BY <1>2, <2>1, <3>2, AfterCamp
        <4> QED
          BY <1>1, <1>3, <3>2, <4>1, ReadyHand, JobsAssumption DEF Behind, q
      <3>3. CASE c.todo \subseteq {r} /\ ~(c.camp < Len(Camps))
        <4>1. d = Ready
          BY <1>2, <2>1, <3>3, AfterRun
        <4> QED
          BY <1>1, <1>3, <3>3, <4>1, JobsAssumption DEF Behind, q
      <3> QED
        BY <3>1, <3>2, <3>3
    <2>6. \A i \in Job : \A p \in Part :
            ended'[i] = "done" /\ KindOf[i] = "daily_production" => applied'[i][p] > 0
      <3>1. \A i \in Job : \A p \in Part :
              ended[i] = "done" /\ KindOf[i] = "daily_production" => applied[i][p] > 0
        BY DEF QueueInv, PartsCounted
      <3>2. \A p \in Part : applied[j][p] > 0 => applied'[j][p] > 0
        BY <1>3, <1>6, <1>7
      <3> QED
        BY <1>4, <2>2, <2>3, <2>5, <3>1, <3>2
    <2>7. d # Ready => \A p \in Part :
                        IF Behind(w, p)'
                        THEN KindOf[d.job] = "daily_production" => applied'[d.job][p] > 0
                        ELSE applied'[d.job][p] < runs'[d.job]
      BY <2>3, <2>4, <2>5
    <2> QED
      BY <1>6, <2>6, <2>7, ReadyHand DEF PartsCounted
  <1> QED
    BY <1>1, <1>8, <1>9 DEF Write, WriteFails

-----------------------------------------------------------------------------
LEMMA InvInit ==
  ASSUME NEW w, Worker = {w}, Init
  PROVE  QueueInv
  <1>1. TypeOK
    BY TypeInit
  <1>2. worker[w] = Ready /\ \A k \in Kind : list[k] = <<>> /\ DOMAIN list[k] = {}
    BY DEF Init
  <1>3. HandFits
    BY <1>2, ReadyHand DEF HandFits
  <1>4. \A j \in Job : ~Waiting(j) /\ ~Delayed(j) /\ ~InHand(j) /\ ~Dead(j) /\ runs[j] = 0
    BY <1>2, ReadyHand, JobsAssumption DEF Init, Waiting, Delayed, InHand, Dead
  <1>5. PayloadsApart
    BY <1>2, <1>4 DEF PayloadsApart, OnePlace, Init
  <1>6. AttemptsCounted
    BY <1>2, ReadyHand, JobsAssumption DEF AttemptsCounted, Init
  <1>7. PartsCounted
    BY <1>2, ReadyHand DEF PartsCounted, Init
  <1> QED
    BY <1>1, <1>3, <1>5, <1>6, <1>7 DEF QueueInv

(* A worker that has a job in hand has one of the jobs. *)
LEMMA HandHolds ==
  ASSUME QueueInv, NEW w, Worker = {w}
  PROVE  /\ worker[w].phase \in {"read", "write", "failed"} => worker[w].job \in Job
         /\ worker[w].job # NoJob => worker[w].job \in Job
  BY DEF QueueInv, HandFits, TypeOK

(* A step of the worker that polls keeps the invariant, and moves one job at most. *)
LEMMA InvPoll ==
  ASSUME QueueInv, NEW w, Worker = {w}, Poll(w)
  PROVE  QueueInv' /\ OneMoves
  <1>1. TypeOK'
    BY TypePoll DEF QueueInv
  <1>2. HandFits'
    BY <1>1, FitsPoll
  <1>3. worker \in [Worker -> Hand]
    BY DEF QueueInv, TypeOK, Hand
  <1>4. CASE ReadDue(w) \/ PopFails(w) \/ \E m \in worker[w].moving : MoveFails(w, m)
    <2>1. /\ UNCHANGED <<list, delayed, dlq, applied, runs, ended>>
          /\ worker'[w].job = worker[w].job
          /\ worker[w].job # NoJob => worker'[w].attempts = worker[w].attempts
          /\ worker'[w].phase \notin {"read", "write"}
      <3>1. CASE ReadDue(w)
        BY <1>3, <3>1 DEF ReadDue, Becomes, Hand
      <3>2. CASE PopFails(w)
        BY <1>3, <3>2, ReadyHand DEF PopFails, Becomes, Hand, QueueInv, HandFits
      <3>3. CASE \E m \in worker[w].moving : MoveFails(w, m)
        BY <1>3, <3>3 DEF MoveFails, Becomes, Hand
      <3> QED
        BY <1>4, <3>1, <3>2, <3>3
    <2> QED
      BY <1>1, <1>2, <2>1, NothingMoves, PartsStay DEF QueueInv, OneMoves
  <1>5. ASSUME NEW m \in worker[w].moving, MoveDue(w, m) \/ MoveLost(w, m)
        PROVE  QueueInv' /\ OneMoves
    <2>1. PayloadsApart' /\ AttemptsCounted' /\ OneMoves
      <3>1. m.job \in Job
        BY DEF QueueInv, TypeOK, Payload
      <3> QED
        BY <1>5, <3>1, MoveApart DEF OneMoves
    <2>2. UNCHANGED <<applied, runs>> /\ worker'[w].phase = worker[w].phase /\ worker[w].phase = "move"
      BY <1>3, <1>5 DEF MoveDue, MoveLost, Moved, Becomes, Hand
    <2>3. \A j \in Job : ended'[j] = "done" => ended[j] = "done"
      BY <1>5 DEF MoveDue, MoveLost, Loses, QueueInv, TypeOK
    <2> QED
      BY <1>1, <1>2, <2>1, <2>2, <2>3, PartsStay DEF QueueInv
  <1>6. CASE Pop(w)
    BY <1>1, <1>2, <1>6, PopApart, PartsPop DEF QueueInv, OneMoves
  <1> QED
    BY <1>4, <1>5, <1>6 DEF Poll, Move

(* ... and so does a step of one that works. *)
LEMMA InvWork ==
  ASSUME QueueInv, NEW w, Worker = {w}, Work(w)
  PROVE  QueueInv' /\ OneMoves
  <1>1. TypeOK'
    BY TypeWork, HandHolds DEF QueueInv
  <1>2. HandFits'
    BY FitsWork
  <1>3. worker \in [Worker -> Hand] /\ worker[w] \in Hand
    BY DEF QueueInv, TypeOK, Hand
  <1>4. CASE ReadCamp(w)
    <2>1. /\ UNCHANGED <<list, delayed, dlq, runs, ended>>
          /\ worker'[w].job = worker[w].job /\ worker'[w].attempts = worker[w].attempts
      BY <1>3, <1>4 DEF ReadCamp, Becomes, Hand
    <2> QED
      BY <1>1, <1>2, <1>4, <2>1, NothingMoves, PartsRead DEF QueueInv, OneMoves
  <1>5. CASE ReadFails(w)
    <2>1. /\ UNCHANGED <<list, delayed, dlq, applied, runs, ended>>
          /\ worker'[w].job = worker[w].job /\ worker'[w].attempts = worker[w].attempts
          /\ worker'[w].phase = "failed"
      BY <1>3, <1>5 DEF ReadFails, Becomes, Hand
    <2> QED
      BY <1>1, <1>2, <2>1, NothingMoves, PartsStay DEF QueueInv, OneMoves
  <1>6. ASSUME NEW r \in Resource, Write(w, r) \/ WriteFails(w, r)
        PROVE  QueueInv' /\ OneMoves
    <2>1. PartsCounted'
      BY <1>6, PartsWrite
    <2>2. UNCHANGED <<list, delayed, dlq, runs>> /\ worker[w].phase = "write"
      BY <1>6 DEF Write, WriteFails
    <2>3. CASE Becomes(w, [worker[w] EXCEPT !.phase = "failed", !.todo = {}]) /\ UNCHANGED ended
      <3>1. worker'[w].job = worker[w].job /\ worker'[w].attempts = worker[w].attempts
        BY <1>3, <2>3 DEF Becomes, Hand
      <3> QED
        BY <1>1, <1>2, <2>1, <2>2, <2>3, <3>1, NothingMoves DEF QueueInv, OneMoves
    <2>4. CASE Continues(w, r)
      <3>1. worker'[w] = After(w, r) /\ worker[w].job \in Job
        BY <1>3, <2>2, <2>4, HandHolds DEF Continues, Becomes
      <3>2. CASE After(w, r) = Ready
        <4>1. ended' = [ended EXCEPT ![worker[w].job] = "done"]
          BY <2>4, <3>2 DEF Continues
        <4> QED
          BY <1>1, <1>2, <2>1, <2>2, <3>1, <3>2, <4>1, ReadyHand, HandEnds DEF QueueInv, OneMoves
      <3>3. CASE After(w, r) # Ready
        <4>1. UNCHANGED ended
          BY <1>3, <2>4, <3>1, <3>3 DEF Continues, QueueInv, TypeOK
        <4>2. worker'[w].job = worker[w].job /\ worker'[w].attempts = worker[w].attempts
          <5>1. CASE ~(worker[w].todo \subseteq {r})
            BY <1>3, <3>1, <5>1, AfterResource
          <5>2. CASE worker[w].todo \subseteq {r} /\ worker[w].camp < Len(Camps)
            BY <1>3, <3>1, <5>2, AfterCamp
          <5>3. CASE worker[w].todo \subseteq {r} /\ ~(worker[w].camp < Len(Camps))
            BY <1>3, <3>3, <5>3, AfterRun
          <5> QED
            BY <5>1, <5>2, <5>3
        <4> QED
          BY <1>1, <1>2, <2>1, <2>2, <4>1, <4>2, NothingMoves DEF QueueInv, OneMoves
      <3> QED
        BY <3>2, <3>3
    <2> QED
      BY <1>6, <2>3, <2>4 DEF Write, WriteFails
  <1>7. CASE Retry(w) \/ Bury(w)
    <2>1. UNCHANGED <<applied, runs, ended>> /\ worker'[w].phase = "poll"
      BY <1>3, <1>7, ReadyHand DEF Retry, Bury, Becomes
    <2> QED
      BY <1>1, <1>2, <1>7, <2>1, SettleApart, PartsStay DEF QueueInv, OneMoves
  <1>8. CASE SettleLost(w)
    <2>1. /\ worker[w].job \in Job /\ UNCHANGED <<list, delayed, dlq, applied, runs>>
          /\ ended' = [ended EXCEPT ![worker[w].job] = "lost"]
          /\ worker'[w].phase = "poll" /\ worker'[w].job = NoJob
      BY <1>3, <1>8, ReadyHand, HandHolds DEF SettleLost, Becomes, Loses
    <2>2. \A j \in Job : ended'[j] = "done" => ended[j] = "done"
      BY <2>1 DEF QueueInv, TypeOK
    <2> QED
      BY <1>1, <1>2, <2>1, <2>2, HandEnds, PartsStay DEF QueueInv, OneMoves
  <1> QED
    BY <1>4, <1>5, <1>6, <1>7, <1>8 DEF Work

(* A worker that dies loses the job it had in hand. *)
LEMMA InvCrash ==
  ASSUME QueueInv, NEW w, Worker = {w}, Crash(w)
  PROVE  QueueInv' /\ OneMoves
  <1>1. worker' = [worker EXCEPT ![w] = Ready] /\ UNCHANGED <<list, delayed, due, dlq, applied, runs>>
    BY DEF Crash, Becomes
  <1>2. worker \in [Worker -> Hand] /\ worker' \in [Worker -> Hand] /\ worker'[w] = Ready
    BY <1>1, ReadyHand DEF QueueInv, TypeOK, Hand
  <1>3. HandFits'
    BY <1>2, ReadyHand DEF HandFits
  <1>4. CASE worker[w].job = NoJob
    <2>1. UNCHANGED ended
      BY <1>4 DEF Crash
    <2>2. TypeOK'
      BY <1>1, <1>2, <2>1 DEF QueueInv, TypeOK, Hand
    <2> QED
      BY <1>1, <1>2, <1>3, <1>4, <2>1, <2>2, ReadyHand, NothingMoves, PartsStay DEF QueueInv, OneMoves
  <1>5. CASE worker[w].job # NoJob
    <2>1. worker[w].job \in Job /\ ended' = [ended EXCEPT ![worker[w].job] = "lost"]
      BY <1>5, HandHolds DEF Crash, Loses
    <2>2. TypeOK' /\ \A j \in Job : ended'[j] = "done" => ended[j] = "done"
      BY <1>1, <1>2, <2>1 DEF QueueInv, TypeOK, Hand
    <2> QED
      BY <1>1, <1>2, <1>3, <2>1, <2>2, ReadyHand, HandEnds, PartsStay DEF QueueInv, OneMoves
  <1> QED
    BY <1>4, <1>5

(* Every step keeps the invariant, and moves one job at most. *)
LEMMA InvStep ==
  ASSUME QueueInv, NEW w, Worker = {w}, [Next]_vars
  PROVE  QueueInv' /\ OneMoves
  <1>1. ASSUME NEW j \in Job, Enqueue(j)
        PROVE  QueueInv' /\ OneMoves
    <2> DEFINE m == [job |-> j, attempts |-> 0]
    <2>1. Push(m) /\ UNCHANGED <<delayed, due, dlq, worker, applied, runs, ended>>
      BY <1>1 DEF Enqueue
    <2>2. m \in Payload
      BY JobsAssumption DEF Payload
    <2>3. list' \in [Kind -> Seq(Payload)]
      BY <2>1, <2>2, Pushes DEF QueueInv, TypeOK
    <2>4. TypeOK' /\ HandFits'
      BY <2>1, <2>3 DEF QueueInv, TypeOK, HandFits
    <2> QED
      BY <1>1, <2>1, <2>4, EnqueueApart, PartsStay DEF QueueInv, OneMoves
  <1>2. ASSUME NEW m \in delayed, Elapse(m)
        PROVE  QueueInv' /\ OneMoves
    <2>1. due' = due \cup {m} /\ UNCHANGED <<list, delayed, dlq, worker, applied, runs, ended>>
      BY <1>2 DEF Elapse
    <2>2. TypeOK' /\ HandFits'
      BY <2>1 DEF QueueInv, TypeOK, HandFits
    <2> QED
      BY <2>1, <2>2, NothingMoves, PartsStay DEF QueueInv, OneMoves
  <1>3. CASE UNCHANGED vars
    <2>1. UNCHANGED <<list, delayed, due, dlq, worker, applied, runs, ended>>
      BY <1>3 DEF vars
    <2>2. TypeOK' /\ HandFits'
      BY <2>1 DEF QueueInv, TypeOK, HandFits
    <2> QED
      BY <2>1, <2>2, NothingMoves, PartsStay DEF QueueInv, OneMoves
  <1> QED
    BY <1>1, <1>2, <1>3, InvPoll, InvWork, InvCrash DEF Next

(***************************************************************************)
(* With one worker, a payload carries the number of its runs, it is in one *)
(* place, and what a run has not come to it has not written.               *)
(***************************************************************************)
THEOREM OneWorkerKeepsTheQueue ==
  ASSUME NEW w, Worker = {w}
  PROVE  Spec => []QueueInv
  <1>1. Init => QueueInv
    BY InvInit
  <1>2. QueueInv /\ [Next]_vars => QueueInv'
    BY InvStep
  <1> QED
    BY <1>1, <1>2, PTL DEF Spec

(***************************************************************************)
(* With one worker, a job runs at most once per attempt, commits a part at *)
(* most once per run, and a production that is done committed every part.  *)
(***************************************************************************)
THEOREM RunsAreBounded ==
  ASSUME NEW w, Worker = {w}
  PROVE  Spec => []RunsBounded
  <1>1. QueueInv => RunsBounded
    BY DEF QueueInv, AttemptsCounted, PartsCounted, RunsBounded
  <1> QED
    BY <1>1, OneWorkerKeepsTheQueue, PTL

-----------------------------------------------------------------------------
(* A set without two elements has none, or one. *)
LEMMA AtMostOne ==
  ASSUME NEW S, \A x, y \in S : x = y
  PROVE  /\ S = {} => Cardinality(S) = 0
         /\ S # {} => Cardinality(S) = 1
  <1>1. S = {} => Cardinality(S) = 0
    BY FS_EmptySet
  <1>2. ASSUME S # {}
        PROVE  Cardinality(S) = 1
    <2>1. PICK x \in S : TRUE
      BY <1>2
    <2>2. S = {x}
      BY <2>1
    <2> QED
      BY <2>2, FS_Singleton
  <1> QED
    BY <1>1, <1>2

(* A place counts a job once if it is there, and not at all if it is not. *)
LEMMA PlacesCount ==
  ASSUME QueueInv, NEW w, Worker = {w}, NEW j \in Job
  PROVE  /\ Cardinality({s \in Slots : list[s[1]][s[2]].job = j}) = IF Waiting(j) THEN 1 ELSE 0
         /\ Cardinality({m \in delayed : m.job = j}) = IF Delayed(j) THEN 1 ELSE 0
         /\ Cardinality({v \in Worker : worker[v].job = j}) = IF InHand(j) THEN 1 ELSE 0
         /\ Cardinality({i \in DOMAIN dlq : dlq[i] = j}) = IF Dead(j) THEN 1 ELSE 0
  <1>1. Cardinality({s \in Slots : list[s[1]][s[2]].job = j}) = IF Waiting(j) THEN 1 ELSE 0
    <2> DEFINE S == {s \in Slots : list[s[1]][s[2]].job = j}
    <2>1. \A s : s \in Slots <=> \E k \in Kind : \E i \in DOMAIN list[k] : s = <<k, i>>
      BY DEF Slots
    <2>2. ASSUME NEW s \in S, NEW t \in S
          PROVE  s = t
      <3>1. PICK k \in Kind : \E i \in DOMAIN list[k] : s = <<k, i>>
        BY <2>1
      <3>2. PICK i \in DOMAIN list[k] : s = <<k, i>>
        BY <3>1
      <3>3. PICK l \in Kind : \E x \in DOMAIN list[l] : t = <<l, x>>
        BY <2>1
      <3>4. PICK x \in DOMAIN list[l] : t = <<l, x>>
        BY <3>3
      <3>5. list[k][i].job = j /\ list[l][x].job = j
        BY <3>2, <3>4
      <3> QED
        BY <3>2, <3>4, <3>5 DEF QueueInv, PayloadsApart
    <2>3. S # {} <=> Waiting(j)
      <3>1. ASSUME NEW s \in S PROVE Waiting(j)
        <4>1. PICK k \in Kind : \E i \in DOMAIN list[k] : s = <<k, i>>
          BY <2>1
        <4>2. PICK i \in DOMAIN list[k] : s = <<k, i>>
          BY <4>1
        <4> QED
          BY <4>2 DEF Waiting
      <3>2. ASSUME NEW k \in Kind, NEW i \in DOMAIN list[k], list[k][i].job = j
            PROVE  <<k, i>> \in S
        BY <3>2, <2>1
      <3> QED
        BY <3>1, <3>2 DEF Waiting
    <2> QED
      BY <2>2, <2>3, AtMostOne
  <1>2. Cardinality({m \in delayed : m.job = j}) = IF Delayed(j) THEN 1 ELSE 0
    <2> DEFINE S == {m \in delayed : m.job = j}
    <2>1. \A m, n \in S : m = n
      BY DEF QueueInv, PayloadsApart
    <2>2. S # {} <=> Delayed(j)
      BY DEF Delayed
    <2> QED
      BY <2>1, <2>2, AtMostOne
  <1>3. Cardinality({v \in Worker : worker[v].job = j}) = IF InHand(j) THEN 1 ELSE 0
    <2> DEFINE S == {v \in Worker : worker[v].job = j}
    <2>1. (\A u, v \in S : u = v) /\ (S # {} <=> InHand(j))
      BY DEF InHand
    <2> QED
      BY <2>1, AtMostOne
  <1>4. Cardinality({i \in DOMAIN dlq : dlq[i] = j}) = IF Dead(j) THEN 1 ELSE 0
    <2> DEFINE S == {i \in DOMAIN dlq : dlq[i] = j}
    <2>1. \A i, x \in S : i = x
      BY DEF QueueInv, PayloadsApart
    <2>2. S # {} <=> Dead(j)
      BY DEF Dead
    <2> QED
      BY <2>1, <2>2, AtMostOne
  <1> QED
    BY <1>1, <1>2, <1>3, <1>4

(***************************************************************************)
(* With one worker, no retry, move, failure or crash makes two of a job    *)
(* that was enqueued, or none.                                             *)
(***************************************************************************)
THEOREM JobsStayInOnePlace ==
  ASSUME NEW w, Worker = {w}
  PROVE  Spec => []InOnePlace
  <1>1. ASSUME QueueInv
        PROVE  InOnePlace
    <2>1. ASSUME NEW j \in Job
          PROVE  Copies(j) <= 1 /\ (runs[j] > 0 => Copies(j) = 1)
      <3>1. Copies(j) = (IF Waiting(j) THEN 1 ELSE 0) + (IF Delayed(j) THEN 1 ELSE 0)
                          + (IF InHand(j) THEN 1 ELSE 0) + (IF Dead(j) THEN 1 ELSE 0)
                          + (IF ended[j] = "no" THEN 0 ELSE 1)
        BY <1>1, PlacesCount DEF Copies
      <3>2. OnePlace(j)
        BY <1>1 DEF QueueInv, PayloadsApart
      <3> QED
        BY <3>1, <3>2 DEF OnePlace, New, Over
    <2> QED
      BY <2>1 DEF InOnePlace
  <1> QED
    BY <1>1, OneWorkerKeepsTheQueue, PTL

-----------------------------------------------------------------------------
(* What carries a job is a payload of it, or the worker. *)
LEMMA CarriedIs ==
  ASSUME NEW w, Worker = {w}, NEW j
  PROVE  \A m : m \in Carried(j) <=>
           /\ m.job = j
           /\ \/ m \in delayed
              \/ \E k \in Kind : \E i \in DOMAIN list[k] : m = list[k][i]
              \/ m = worker[w]
  <1> DEFINE Lists == UNION {{list[k][i] : i \in DOMAIN list[k]} : k \in Kind}
             Hands == {worker[v] : v \in Worker}
  <1>1. \A m : m \in Lists <=> \E k \in Kind : \E i \in DOMAIN list[k] : m = list[k][i]
    OBVIOUS
  <1>2. \A m : m \in Hands <=> m = worker[w]
    OBVIOUS
  <1>3. Carried(j) = {m \in delayed \cup Hands \cup Lists : m.job = j}
    BY DEF Carried
  <1> HIDE DEF Lists, Hands
  <1> QED
    BY <1>1, <1>2, <1>3

(* The number a job carries is that of its runs, without the one in hand. *)
AttemptsAreRuns ==
  \A j \in Job :
    Attempt(j) = IF Over(j) THEN 0 ELSE IF InHand(j) THEN runs[j] - 1 ELSE runs[j]

LEMMA AttemptIsRuns ==
  ASSUME NEW w, Worker = {w}
  PROVE  QueueInv => AttemptsAreRuns
  <1> SUFFICES ASSUME QueueInv, NEW j \in Job
               PROVE  Attempt(j) = IF Over(j) THEN 0
                                   ELSE IF InHand(j) THEN runs[j] - 1 ELSE runs[j]
    BY DEF AttemptsAreRuns
  <1>1. OnePlace(j) /\ AttemptsCounted /\ runs[j] \in Nat /\ j # NoJob
    BY JobsAssumption DEF QueueInv, PayloadsApart, TypeOK
  <1>2. worker[w].attempts \in Nat
    BY JobsAssumption DEF QueueInv, TypeOK
  <1>3. ASSUME NEW m \in Carried(j)
        PROVE  /\ Waiting(j) \/ Delayed(j) \/ InHand(j)
               /\ m.attempts = IF InHand(j) THEN runs[j] - 1 ELSE runs[j]
    <2>1. /\ m.job = j
          /\ \/ m \in delayed
             \/ \E k \in Kind : \E i \in DOMAIN list[k] : m = list[k][i]
             \/ m = worker[w]
      BY CarriedIs
    <2>2. CASE m \in delayed
      BY <1>1, <2>1, <2>2 DEF Delayed, OnePlace, AttemptsCounted
    <2>3. CASE \E k \in Kind : \E i \in DOMAIN list[k] : m = list[k][i]
      <3>1. PICK k \in Kind : \E i \in DOMAIN list[k] : m = list[k][i]
        BY <2>3
      <3>2. PICK i \in DOMAIN list[k] : m = list[k][i]
        BY <3>1
      <3>3. Waiting(j) /\ runs[j] = m.attempts
        BY <1>1, <2>1, <3>2 DEF Waiting, AttemptsCounted
      <3> QED
        BY <1>1, <3>3 DEF OnePlace
    <2>4. CASE m = worker[w]
      BY <1>1, <1>2, <2>1, <2>4 DEF InHand, AttemptsCounted
    <2> QED
      BY <2>1, <2>2, <2>3, <2>4
  <1>4. CASE Over(j)
    BY <1>4 DEF Attempt
  <1>5. CASE ~Over(j) /\ Carried(j) # {}
    <2>1. (CHOOSE m \in Carried(j) : TRUE) \in Carried(j)
      BY <1>5
    <2> QED
      BY <1>3, <1>5, <2>1 DEF Attempt
  <1>6. CASE ~Over(j) /\ Carried(j) = {}
    <2>1. ~InHand(j) /\ ~Waiting(j) /\ ~Delayed(j)
      BY <1>6, CarriedIs DEF InHand, Waiting, Delayed
    <2>2. New(j) /\ runs[j] = 0
      BY <1>1, <1>6, <2>1 DEF New, OnePlace
    <2> QED
      BY <1>6, <2>1, <2>2 DEF Attempt
  <1> QED
    BY <1>4, <1>5, <1>6

(* A step that leaves every job but j still is a step of the lifecycle of j. *)
LEMMA LifeOfOne ==
  ASSUME QueueInv, QueueInv', NEW w, Worker = {w}, NEW j \in Job,
         \A i \in Job : i # j => Still(i)
  PROVE  /\ [i \in Job |-> Place(i)]' = [[i \in Job |-> Place(i)] EXCEPT ![j] = Place(j)']
         /\ [i \in Job |-> Attempt(i)]' = [[i \in Job |-> Attempt(i)] EXCEPT ![j] = Attempt(j)']
  <1>1. AttemptsAreRuns /\ AttemptsAreRuns'
    BY AttemptIsRuns, PTL
  <1>2. \A i \in Job : i # j => Place(i)' = Place(i) /\ Attempt(i)' = Attempt(i)
    BY <1>1 DEF Still, Place, AttemptsAreRuns
  <1> QED
    BY <1>2

(* ... and one that leaves all of them still is none. *)
LEMMA LifeOfNone ==
  ASSUME QueueInv, QueueInv', NEW w, Worker = {w}, \A i \in Job : Still(i)
  PROVE  /\ [i \in Job |-> Place(i)]' = [i \in Job |-> Place(i)]
         /\ [i \in Job |-> Attempt(i)]' = [i \in Job |-> Attempt(i)]
  <1>1. AttemptsAreRuns /\ AttemptsAreRuns'
    BY AttemptIsRuns, PTL
  <1>2. \A i \in Job : Place(i)' = Place(i) /\ Attempt(i)' = Attempt(i)
    BY <1>1 DEF Still, Place, AttemptsAreRuns
  <1> QED
    BY <1>2

(* The move of a job is a step of its lifecycle. *)
LEMMA LifeStep ==
  ASSUME QueueInv, QueueInv', NEW w, Worker = {w}, OneMoves
  PROVE  [Life!Next]_<<[j \in Job |-> Place(j)], [j \in Job |-> Attempt(j)]>>
  <1>1. CASE \A i \in Job : Still(i)
    BY <1>1, LifeOfNone
  <1>2. ASSUME NEW j \in Job, \A i \in Job : i # j => Still(i),
               Enqueued(j) \/ Started(j) \/ Retried(j) \/ Ended(j)
        PROVE  Life!Next
    <2> DEFINE place == [i \in Job |-> Place(i)]
               attempt == [i \in Job |-> Attempt(i)]
    <2>1. place' = [place EXCEPT ![j] = Place(j)'] /\ attempt' = [attempt EXCEPT ![j] = Attempt(j)']
      BY <1>2, LifeOfOne
    <2>2. place[j] = Place(j) /\ attempt[j] = Attempt(j)
      OBVIOUS
    <2>3. AttemptsAreRuns /\ AttemptsAreRuns'
      BY AttemptIsRuns, PTL
    <2>4. /\ Attempt(j) = IF Over(j) THEN 0 ELSE IF InHand(j) THEN runs[j] - 1 ELSE runs[j]
          /\ Attempt(j)' = IF Over(j)' THEN 0
                           ELSE IF InHand(j)' THEN runs'[j] - 1 ELSE runs'[j]
          /\ runs[j] \in Nat
          /\ OnePlace(j) /\ OnePlace(j)'
      BY <2>3 DEF AttemptsAreRuns, QueueInv, TypeOK, PayloadsApart
    <2> HIDE DEF place, attempt
    <2>5. CASE Enqueued(j)
      <3>1. /\ Place(j) = "new" /\ Place(j)' = "waiting" /\ Attempt(j)' = 0
        BY <2>4, <2>5 DEF Enqueued, Place, New
      <3>2. Life!Enqueue(j)
        BY <2>1, <2>2, <3>1 DEF Life!Enqueue, Life!Goes, place, attempt
      <3> QED
        BY <3>2 DEF Life!Next
    <2>6. CASE Started(j)
      <3>1. /\ Place(j) = "waiting" /\ Place(j)' = "running" /\ Attempt(j)' = Attempt(j)
        BY <2>4, <2>6 DEF Started, Place, OnePlace
      <3>2. Life!Start(j)
        BY <2>1, <2>2, <3>1 DEF Life!Start, Life!Goes, place, attempt
      <3> QED
        BY <3>2 DEF Life!Next
    <2>7. CASE Retried(j)
      <3>1. /\ Place(j) = "running" /\ Place(j)' = "waiting" /\ Attempt(j)' = Attempt(j) + 1
            /\ Attempt(j) < MaxRetries
        BY <2>4, <2>7, JobsAssumption DEF Retried, Place, OnePlace
      <3>2. Life!Retry(j)
        BY <2>1, <2>2, <3>1 DEF Life!Retry, Life!Goes, place, attempt
      <3> QED
        BY <3>2 DEF Life!Next
    <2>8. CASE Ended(j)
      <3>1. /\ Place(j) \in {"running", "waiting"} /\ Place(j)' = "over" /\ Attempt(j)' = 0
        BY <2>4, <2>8 DEF Ended, Place, OnePlace
      <3>2. Life!End(j)
        BY <2>1, <2>2, <3>1 DEF Life!End, Life!Goes, place, attempt
      <3> QED
        BY <3>2 DEF Life!Next
    <2> QED
      BY <1>2, <2>5, <2>6, <2>7, <2>8
  <1> QED
    BY <1>1, <1>2 DEF OneMoves

(***************************************************************************)
(* With one worker, lists, delayed set, hand and dead letter queue carry a *)
(* job through the lifecycle of JobLifecycle: no move, failure or crash    *)
(* brings back what is over, or retries what did not run.                  *)
(***************************************************************************)
THEOREM QueueImplementsLifecycle ==
  ASSUME NEW w, Worker = {w}
  PROVE  Spec => ImplementsLifecycle
  <1>1. Init => Life!Init
    <2> SUFFICES ASSUME Init
                 PROVE  Life!Init
      OBVIOUS
    <2>1. QueueInv /\ AttemptsAreRuns
      BY InvInit, AttemptIsRuns
    <2>2. worker[w] = Ready /\ \A k \in Kind : DOMAIN list[k] = {}
      BY DEF Init
    <2>3. \A j \in Job : ~Waiting(j) /\ ~Delayed(j) /\ ~InHand(j) /\ ~Over(j) /\ runs[j] = 0
      BY <2>2, ReadyHand, JobsAssumption DEF Init, Waiting, Delayed, InHand, Over, Dead
    <2>4. \A j \in Job : Place(j) = "new" /\ Attempt(j) = 0
      BY <2>1, <2>3 DEF Place, AttemptsAreRuns
    <2> QED
      BY <2>4 DEF Life!Init
  <1>2. QueueInv /\ QueueInv' /\ [Next]_vars
          => [Life!Next]_<<[j \in Job |-> Place(j)], [j \in Job |-> Attempt(j)]>>
    BY InvStep, LifeStep
  <1> QED
    BY <1>1, <1>2, OneWorkerKeepsTheQueue, PTL DEF Spec, ImplementsLifecycle, Life!Lifecycle

-----------------------------------------------------------------------------
(* The cache: theorems about Catalogue, for any number of calls and fills.  *)
(* The states of a call, and what a write to each table deletes. *)
LEMMA CacheCommands ==
  ASSUME NEW i \in Table
  PROVE  /\ Len(Invalidates(i)) \in 1 .. 4
         /\ DOMAIN Invalidates(i) = 1 .. Len(Invalidates(i))
  <1>1. CASE i = "role"
    BY <1>1 DEF Invalidates, RoleKeys
  <1>2. CASE i = "permission"
    BY <1>2 DEF Invalidates, PermissionKeys
  <1>3. CASE i = "profession"
    BY <1>3 DEF Invalidates, ProfessionKeys
  <1>4. CASE i = "resource"
    BY <1>4 DEF Invalidates, ResourceKeys
  <1>5. CASE i = "camp"
    BY <1>5 DEF Invalidates, CampKeys
  <1> QED
    BY <1>1, <1>2, <1>3, <1>4, <1>5 DEF Table

LEMMA ShownTables ==
  ASSUME NEW k \in Key
  PROVE  Shows(k) \subseteq Table
  BY DEF Key, Table, Shows, One, List, Amounts, Active

(* Every write deletes every key its row can be seen in. *)
LEMMA EveryKeyIsDeleted ==
  ASSUME NEW k \in Key, NEW i \in Shows(k)
  PROVE  \E n \in 1 .. Len(Invalidates(i)) : k \in Invalidates(i)[n]
  <1>1. i \in Table
    BY ShownTables
  <1>2. CASE i = "role"
    <2>1. k \in {One("role"), List("role")}
      BY <1>2 DEF Key, Table, Shows, One, List, Amounts, Active
    <2> QED
      BY <1>2, <2>1 DEF Invalidates, RoleKeys
  <1>3. CASE i = "permission"
    <2>1. k \in {One("role"), List("role"), One("permission"), List("permission")}
      BY <1>3 DEF Key, Table, Shows, One, List, Amounts, Active
    <2> QED
      BY <1>3, <2>1 DEF Invalidates, PermissionKeys
  <1>4. CASE i = "profession"
    <2>1. k \in {One("profession"), List("profession"), Amounts}
      BY <1>4 DEF Key, Table, Shows, One, List, Amounts, Active
    <2> QED
      BY <1>4, <2>1 DEF Invalidates, ProfessionKeys
  <1>5. CASE i = "resource"
    <2>1. k \in {One("resource"), List("resource"), Amounts}
      BY <1>5 DEF Key, Table, Shows, One, List, Amounts, Active
    <2> QED
      BY <1>5, <2>1 DEF Invalidates, ResourceKeys
  <1>6. CASE i = "camp"
    <2>1. k \in {One("camp"), List("camp"), Active}
      BY <1>6 DEF Key, Table, Shows, One, List, Amounts, Active
    <2> QED
      BY <1>6, <2>1 DEF Invalidates, CampKeys
  <1> QED
    BY <1>1, <1>2, <1>3, <1>4, <1>5, <1>6 DEF Table

(* What a call may be doing. *)
Doing(k) ==
  {Idle, Getting, Querying}
    \cup {Deletes(i, n) : i \in Shows(k), n \in 0 .. 3}

LEMMA CacheInit ==
  CatalogueInit => CatalogueInv
  <1> SUFFICES ASSUME CatalogueInit
               PROVE  CatalogueInv
    OBVIOUS
  <1>1. CatalogueTypeOK
    <2>1. call \in [Call -> {Idle}]
      BY DEF CatalogueInit
    <2>2. row \in [Shows(key) -> {"new", "there", "gone"}]
      BY DEF CatalogueInit
    <2>3. call \in [Call -> Doing(key)]
      BY <2>1 DEF Doing
    <2>4. /\ link = "connecting" /\ excused = FALSE
          /\ fills = {} /\ cache = {} /\ key \in Key
      BY DEF CatalogueInit
    <2>5. fills \subseteq SUBSET Shows(key) /\ excused \in BOOLEAN
      BY <2>4
    <2>6. cache \in {{}} \cup {{old} : old \in SUBSET Shows(key)}
      BY <2>4
    <2>7. link \in {"connecting", "ready", "lost"}
      BY <2>4
    <2> QED
      BY <2>2, <2>3, <2>4, <2>5, <2>6, <2>7 DEF CatalogueTypeOK, Doing
  <1>2. CommandLeft /\ StaleForAReason
    BY DEF CatalogueInit, CommandLeft, StaleForAReason, Idle
  <1> QED
    BY <1>1, <1>2 DEF CatalogueInv

(* A call that deletes nothing, or only begins to, disturbs nobody's deletions. *)
LEMMA CallMoves ==
  ASSUME CatalogueTypeOK, CommandLeft, NEW h \in Call, NEW s \in Doing(key),
         key' = key, call[h].step # "invalidate", CallBecomes(h, s),
         s.step = "invalidate" => s.done = 0 /\ s.kind \in Table
  PROVE  /\ call' \in [Call -> Doing(key)]
         /\ CommandLeft'
         /\ \A g \in Call, i \in Table : Awaits(g, i) => Awaits(g, i)'
  <1>1. call \in [Call -> Doing(key)]
    BY DEF CatalogueTypeOK, Doing
  <1>2. call' = [call EXCEPT ![h] = s]
    BY DEF CallBecomes
  <1>3. s.step = "invalidate" => s.done < Len(Invalidates(s.kind))
    <2> SUFFICES ASSUME s.step = "invalidate"
                 PROVE  s.done < Len(Invalidates(s.kind))
      OBVIOUS
    <2>1. PICK i \in Table : i = s.kind
      OBVIOUS
    <2>2. PICK m \in 1 .. 4 : m = Len(Invalidates(i))
      BY CacheCommands, Zenon
    <2>3. 0 < m /\ s.done = 0
      OBVIOUS
    <2> QED
      BY <2>1, <2>2, <2>3, Zenon
  <1>4. CommandLeft'
    BY <1>1, <1>2, <1>3 DEF CommandLeft
  <1>5. ASSUME NEW g \in Call, NEW i \in Table, Awaits(g, i)
        PROVE  Awaits(g, i)'
    BY <1>1, <1>2, <1>5 DEF Awaits
  <1> QED
    BY <1>1, <1>2, <1>4, <1>5

(* A call that has issued a command, which did not delete the key, still awaits it. *)
LEMMA CommandIssued ==
  ASSUME CatalogueTypeOK, CommandLeft, NEW h \in Call, key' = key,
         call[h].step = "invalidate", Issued(h)
  PROVE  /\ call' \in [Call -> Doing(key)]
         /\ CommandLeft'
         /\ ~Aimed(h) =>
              \A g \in Call, i \in Table : Awaits(g, i) => Awaits(g, i)'
         /\ \A g \in Call \ {h}, i \in Table : Awaits(g, i) => Awaits(g, i)'
  <1>1. call \in [Call -> Doing(key)]
    BY DEF CatalogueTypeOK, Doing
  <1>2. PICK k \in Shows(key), n \in 0 .. 3 : call[h] = Deletes(k, n)
    BY <1>1 DEF Doing, Idle, Getting, Querying
  <1>3. call[h].kind = k /\ call[h].done = n
    BY <1>2 DEF Deletes
  <1>4. k \in Table
    BY ShownTables DEF CatalogueTypeOK
  <1>a. PICK len \in 1 .. 4 : len = Len(Invalidates(k))
    BY <1>4, CacheCommands, Zenon
  <1> DEFINE s == IF n + 1 = len THEN Idle ELSE Deletes(k, n + 1)
  <1>5. n < len
    BY <1>3, <1>a DEF CommandLeft
  <1>6. [call[h] EXCEPT !.done = @ + 1] = Deletes(k, n + 1)
    BY <1>2 DEF Deletes
  <1>7. call' = [call EXCEPT ![h] = s]
    BY <1>3, <1>a, <1>6, Zenon DEF Issued, CallBecomes
  <1>8. s \in Doing(key)
    <2>1. CASE n + 1 = len
      BY <2>1 DEF Doing
    <2>2. CASE n + 1 # len
      <3>1. n + 1 \in 0 .. 3
        BY <1>5, <2>2
      <3>2. Deletes(k, n + 1) \in Doing(key)
        BY <3>1 DEF Doing
      <3> QED
        BY <2>2, <3>2
    <2> QED
      BY <2>1, <2>2
  <1>9. s.step = "invalidate" => n + 1 < len /\ s = Deletes(k, n + 1)
    BY <1>5 DEF Idle
  <1>10. s.step = "invalidate" => s.done < Len(Invalidates(s.kind))
    BY <1>9, <1>a DEF Deletes
  <1>11. CommandLeft'
    BY <1>1, <1>7, <1>10 DEF CommandLeft
  <1>12. ASSUME NEW g \in Call \ {h}, NEW i \in Table, Awaits(g, i)
         PROVE  Awaits(g, i)'
    BY <1>1, <1>7, <1>12 DEF Awaits
  <1>13. ASSUME ~Aimed(h), NEW i \in Table, Awaits(h, i)
         PROVE  Awaits(h, i)'
    <2>1. i = k
      BY <1>3, <1>13 DEF Awaits
    <2>2. PICK m \in n + 1 .. len : key \in Invalidates(k)[m]
      BY <1>3, <1>a, <1>13, <2>1 DEF Awaits
    <2>3. m # n + 1
      BY <1>3, <1>13, <2>2 DEF Aimed
    <2>4. n + 1 < len /\ m \in (n + 1) + 1 .. len
      BY <1>5, <2>2, <2>3
    <2>5. s = Deletes(k, n + 1) /\ s.step = "invalidate" /\ s.kind = k /\ s.done = n + 1
      BY <1>5, <2>4 DEF Deletes
    <2>6. call'[h] = s
      BY <1>1, <1>7
    <2> QED
      BY <2>1, <2>2, <2>4, <2>5, <2>6, <1>a DEF Awaits
  <1> QED
    BY <1>1, <1>7, <1>8, <1>11, <1>12, <1>13

(* Whoever awaits a deletion still does, or the key has left the cache. *)
LEMMA StaysExcused ==
  ASSUME CatalogueInv, key' = key,
         \/ cache' = {}
         \/ /\ cache' = cache /\ (excused => excused')
            /\ \A g \in Call, i \in Table : Awaits(g, i) => Awaits(g, i)'
  PROVE  StaleForAReason'
  <1>1. CASE cache' = {}
    BY <1>1 DEF StaleForAReason
  <1>2. CASE /\ cache' = cache /\ (excused => excused')
             /\ \A g \in Call, i \in Table : Awaits(g, i) => Awaits(g, i)'
    <2> SUFFICES ASSUME NEW old \in cache, NEW i \in old, ~excused'
                 PROVE  \E g \in Call : Awaits(g, i)'
      BY <1>2 DEF StaleForAReason
    <2>1. i \in Table
      BY ShownTables DEF CatalogueInv, CatalogueTypeOK
    <2>2. PICK g \in Call : Awaits(g, i)
      BY <1>2 DEF CatalogueInv, StaleForAReason
    <2> QED
      BY <1>2, <2>1, <2>2
  <1> QED
    BY <1>1, <1>2

(* If no call has moved, each awaits what it did. *)
LEMMA CallsWait ==
  ASSUME CatalogueInv, UNCHANGED <<key, call>>
  PROVE  /\ call' \in [Call -> Doing(key)]
         /\ CommandLeft'
         /\ \A g \in Call, i \in Table : Awaits(g, i) => Awaits(g, i)'
  BY DEF CatalogueInv, CatalogueTypeOK, CommandLeft, Awaits, Doing

(* What TypeOK says, except of the calls. *)
LEMMA CacheTypes ==
  ASSUME CatalogueTypeOK
  PROVE  /\ key \in Key /\ excused \in BOOLEAN
         /\ cache \in {{}} \cup {{o} : o \in SUBSET Shows(key)}
         /\ fills \subseteq SUBSET Shows(key)
         /\ row \in [Shows(key) -> {"new", "there", "gone"}]
         /\ link \in {"connecting", "ready", "lost"}
  BY DEF CatalogueTypeOK

(* What TypeOK asks of the next state. *)
LEMMA CacheTyped ==
  ASSUME CatalogueTypeOK, key' = key, call' \in [Call -> Doing(key)],
         row' \in [Shows(key) -> {"new", "there", "gone"}],
         cache' \in {{}} \cup {{old} : old \in SUBSET Shows(key)},
         link' \in {"connecting", "ready", "lost"},
         fills' \subseteq SUBSET Shows(key), excused' \in BOOLEAN
  PROVE  CatalogueTypeOK'
  BY DEF CatalogueTypeOK, Doing

LEMMA ReadStep ==
  ASSUME CatalogueInv, NEW h \in Call, NEW keys, Read(h, keys)
  PROVE  CatalogueInv'
  <1>1. /\ CatalogueTypeOK /\ CommandLeft
        /\ CallBecomes(h, Getting) /\ call[h] = Idle
        /\ UNCHANGED <<key, row, cache, link, fills, excused>>
    BY DEF CatalogueInv, Read, Free
  <1>2. Getting \in Doing(key) /\ Getting.step # "invalidate"
    BY DEF Doing, Getting
  <1>3. call[h].step # "invalidate"
    BY <1>1 DEF Idle
  <1>4. /\ call' \in [Call -> Doing(key)]
        /\ CommandLeft'
        /\ \A g \in Call, i \in Table : Awaits(g, i) => Awaits(g, i)'
    BY <1>1, <1>2, <1>3, CallMoves
  <1>5. CatalogueTypeOK'
    BY <1>1, <1>4, CacheTyped DEF CatalogueTypeOK
  <1> QED
    BY <1>1, <1>4, <1>5, StaysExcused DEF CatalogueInv

LEMMA AnswerStep ==
  ASSUME CatalogueInv, NEW h \in Call, Get(h) \/ Query(h)
  PROVE  CatalogueInv'
  <1>1. PICK s \in {Idle, Querying} : CallBecomes(h, s)
    BY DEF Get, Query
  <1>2. /\ CatalogueTypeOK /\ CommandLeft /\ call[h] \in {Getting, Querying}
        /\ UNCHANGED <<key, row, cache, link, excused>>
        /\ fills' \subseteq fills \cup {{}}
    BY DEF CatalogueInv, Get, Query
  <1>3. s \in Doing(key) /\ s.step # "invalidate" /\ call[h].step # "invalidate"
    BY <1>2 DEF Doing, Idle, Getting, Querying
  <1>4. /\ call' \in [Call -> Doing(key)]
        /\ CommandLeft'
        /\ \A g \in Call, i \in Table : Awaits(g, i) => Awaits(g, i)'
    BY <1>1, <1>2, <1>3, CallMoves
  <1>5. CatalogueTypeOK'
    BY <1>2, <1>4, CacheTyped DEF CatalogueTypeOK
  <1> QED
    BY <1>2, <1>4, <1>5, StaysExcused DEF CatalogueInv

(* Whatever a write makes old, the call that wrote has yet to delete. *)
LEMMA WriteStep ==
  ASSUME CatalogueInv, NEW h \in Call, NEW i \in Table,
         NEW state \in {"there", "gone"}, WriteRow(h, i, state)
  PROVE  CatalogueInv'
  <1>1. /\ CatalogueTypeOK /\ CommandLeft /\ StaleForAReason
        /\ CallBecomes(h, Deletes(i, 0)) /\ call[h] = Idle
        /\ UNCHANGED <<key, link, excused>> /\ i \in Shows(key)
        /\ row' = [row EXCEPT ![i] = state]
        /\ cache' = {old \cup {i} : old \in cache}
        /\ fills' = {old \cup {i} : old \in fills}
    BY DEF CatalogueInv, WriteRow, Free
  <1>a. /\ key \in Key /\ link \in {"connecting", "ready", "lost"} /\ excused \in BOOLEAN
        /\ cache = {} \/ \E old \in SUBSET Shows(key) : cache = {old}
    BY <1>1 DEF CatalogueTypeOK
  <1>2. Deletes(i, 0) \in Doing(key)
    BY <1>1 DEF Doing
  <1>3. Deletes(i, 0).step = "invalidate" /\ Deletes(i, 0).kind = i
          /\ Deletes(i, 0).done = 0
    BY DEF Deletes
  <1>4. call[h].step # "invalidate"
    BY <1>1 DEF Idle
  <1>5. /\ call' \in [Call -> Doing(key)]
        /\ CommandLeft'
        /\ \A g \in Call, k \in Table : Awaits(g, k) => Awaits(g, k)'
    BY <1>1, <1>2, <1>3, <1>4, CallMoves
  <1>6. /\ row' \in [Shows(key) -> {"new", "there", "gone"}]
        /\ cache' \in {{}} \cup {{old} : old \in SUBSET Shows(key)}
        /\ fills' \subseteq SUBSET Shows(key)
    <2>1. row' \in [Shows(key) -> {"new", "there", "gone"}]
      BY <1>1 DEF CatalogueTypeOK
    <2>2. fills' \subseteq SUBSET Shows(key)
      BY <1>1 DEF CatalogueTypeOK
    <2>3. CASE cache = {}
      <3>1. cache' = {}
        BY <1>1, <2>3
      <3> QED
        BY <3>1, <2>1, <2>2
    <2>4. ASSUME NEW old \in SUBSET Shows(key), cache = {old}
          PROVE  cache' \in {{}} \cup {{new} : new \in SUBSET Shows(key)}
      <3>1. cache' = {old \cup {i}} /\ old \cup {i} \in SUBSET Shows(key)
        BY <1>1, <2>4
      <3> QED
        BY <3>1
    <2> QED
      BY <1>a, <2>1, <2>2, <2>3, <2>4
  <1>7. CatalogueTypeOK'
    BY <1>1, <1>a, <1>5, <1>6, CacheTyped
  <1>8. Awaits(h, i)'
    <2>1. call'[h] = Deletes(i, 0)
      <3>1. call \in [Call -> Doing(key)]
        BY <1>1 DEF CatalogueTypeOK, Doing
      <3> QED
        BY <1>1, <3>1 DEF CallBecomes
    <2>2. \E n \in 1 .. Len(Invalidates(i)) : key \in Invalidates(i)[n]
      BY <1>1, <1>a, EveryKeyIsDeleted
    <2> QED
      BY <1>1, <1>3, <2>1, <2>2 DEF Awaits
  <1>9. StaleForAReason'
    <2> SUFFICES ASSUME NEW new \in cache', NEW k \in new, ~excused'
                 PROVE  \E g \in Call : Awaits(g, k)'
      BY DEF StaleForAReason
    <2>1. PICK old \in cache : new = old \cup {i}
      BY <1>1
    <2>2. CASE k = i
      BY <1>8, <2>2
    <2>3. CASE k \in old
      <3>1. k \in Table
        BY <1>a, <2>1, <2>3, ShownTables
      <3>2. PICK g \in Call : Awaits(g, k)
        BY <1>1, <2>1, <2>3 DEF StaleForAReason
      <3> QED
        BY <1>5, <3>1, <3>2
    <2> QED
      BY <2>1, <2>2, <2>3
  <1> QED
    BY <1>5, <1>7, <1>9 DEF CatalogueInv

(* A fill that comes late is excused only where nobody deletes any more. *)
LEMMA FillStep ==
  ASSUME CatalogueInv, NEW old \in fills, Store(old) \/ Discard(old)
  PROVE  CatalogueInv'
  <1>1. /\ CatalogueTypeOK /\ UNCHANGED <<key, row, link, call>> /\ fills' = fills \ {old}
    BY DEF CatalogueInv, Store, Discard
  <1>2. /\ call' \in [Call -> Doing(key)]
        /\ CommandLeft'
        /\ \A g \in Call, i \in Table : Awaits(g, i) => Awaits(g, i)'
    BY <1>1, CallsWait
  <1>3. /\ old \in SUBSET Shows(key) /\ key \in Key
        /\ fills' \subseteq SUBSET Shows(key)
        /\ row' \in [Shows(key) -> {"new", "there", "gone"}]
        /\ link' \in {"connecting", "ready", "lost"}
        /\ excused \in BOOLEAN /\ cache \in {{}} \cup {{o} : o \in SUBSET Shows(key)}
    BY <1>1 DEF CatalogueTypeOK
  <1>4. CASE Discard(old)
    <2>1. cache' = cache /\ excused' = excused
      BY <1>4 DEF Discard
    <2>2. CatalogueTypeOK'
      BY <1>1, <1>2, <1>3, <2>1, CacheTyped
    <2> QED
      BY <1>1, <1>2, <2>1, <2>2, StaysExcused DEF CatalogueInv
  <1>5. CASE Store(old)
    <2>1. /\ cache' = {old} /\ excused' \in BOOLEAN
          /\ ~excused' => \A i \in old : \E h \in Call : Awaits(h, i)
      BY <1>5 DEF Store
    <2>2. cache' \in {{}} \cup {{o} : o \in SUBSET Shows(key)}
      BY <1>3, <2>1
    <2>3. CatalogueTypeOK'
      BY <1>1, <1>2, <1>3, <2>1, <2>2, CacheTyped
    <2>4. StaleForAReason'
      <3> SUFFICES ASSUME NEW i \in old, ~excused'
                   PROVE  \E h \in Call : Awaits(h, i)'
        BY <2>1 DEF StaleForAReason
      <3>1. i \in Table
        BY <1>3, ShownTables
      <3>2. PICK h \in Call : Awaits(h, i)
        BY <2>1
      <3> QED
        BY <1>2, <3>1, <3>2
    <2> QED
      BY <1>2, <2>3, <2>4 DEF CatalogueInv
  <1> QED
    BY <1>4, <1>5

(* A deletion takes what was wrong along; one that is passed over is excused. *)
LEMMA CommandStep ==
  ASSUME CatalogueInv, NEW h \in Call, Invalidate(h) \/ PassOver(h)
  PROVE  CatalogueInv'
  <1>1. /\ CatalogueTypeOK /\ CommandLeft /\ UNCHANGED <<key, row, link, fills>>
        /\ call[h].step = "invalidate" /\ Issued(h)
    BY DEF CatalogueInv, Invalidate, PassOver
  <1>2. /\ call' \in [Call -> Doing(key)]
        /\ CommandLeft'
        /\ ~Aimed(h) =>
             \A g \in Call, i \in Table : Awaits(g, i) => Awaits(g, i)'
    BY <1>1, CommandIssued
  <1>3. /\ cache' = cache \/ (Aimed(h) /\ cache' = {})
        /\ excused' \in BOOLEAN
        /\ cache' = {} \/ (excused => excused')
        /\ cache' = {} \/ ~Aimed(h) \/ ~Stale \/ excused'
    <2>1. excused \in BOOLEAN
      BY <1>1, CacheTypes
    <2>2. CASE Invalidate(h) /\ Aimed(h)
      <3>1. cache' = {} /\ excused' = FALSE
        BY <2>2, Zenon DEF Invalidate, Drop
      <3> QED
        BY <2>2, <3>1
    <2>3. CASE Invalidate(h) /\ ~Aimed(h)
      <3>1. cache' = cache /\ excused' = excused
        BY <2>3, Zenon DEF Invalidate
      <3> QED
        BY <2>1, <2>3, <3>1
    <2>4. CASE PassOver(h)
      <3>1. cache' = cache /\ excused' = (excused \/ (Aimed(h) /\ Stale))
        BY <2>4, Zenon DEF PassOver
      <3>2. excused' \in BOOLEAN /\ (excused => excused')
              /\ (Aimed(h) /\ Stale => excused')
        BY <3>1, Zenon
      <3> QED
        BY <3>1, <3>2, Zenon
    <2> QED
      BY <2>2, <2>3, <2>4
  <1>4. /\ cache' \in {{}} \cup {{o} : o \in SUBSET Shows(key)}
        /\ fills' \subseteq SUBSET Shows(key)
        /\ row' \in [Shows(key) -> {"new", "there", "gone"}]
        /\ link' \in {"connecting", "ready", "lost"}
    BY <1>1, <1>3 DEF CatalogueTypeOK
  <1>5. CatalogueTypeOK'
    BY <1>1, <1>2, <1>3, <1>4, CacheTyped
  <1>6. StaleForAReason'
    <2>1. CASE cache' = {} \/ ~Aimed(h)
      BY <1>1, <1>2, <1>3, <2>1, StaysExcused
    <2>2. CASE cache' = cache /\ (~Stale \/ excused')
      BY <2>2 DEF StaleForAReason, Stale
    <2> QED
      BY <1>3, <2>1, <2>2
  <1> QED
    BY <1>2, <1>5, <1>6 DEF CatalogueInv

(* The end of a TTL, and the connection. *)
LEMMA ValkeyStep ==
  ASSUME CatalogueInv, Expire \/ Connect \/ Disconnect
  PROVE  CatalogueInv'
  <1>1. /\ CatalogueTypeOK /\ UNCHANGED <<key, row, call, fills>>
        /\ cache' = {} \/ (cache' = cache /\ excused' = excused)
        /\ link' \in {link, "ready", "lost"} /\ excused' \in BOOLEAN
    <2>1. excused \in BOOLEAN /\ CatalogueTypeOK
      BY CacheTypes DEF CatalogueInv
    <2>2. CASE Expire
      BY <2>1, <2>2 DEF Expire, Drop
    <2>3. CASE Connect
      BY <2>1, <2>3 DEF Connect, Drop
    <2>4. CASE Disconnect
      BY <2>1, <2>4 DEF Disconnect
    <2> QED
      BY <2>2, <2>3, <2>4
  <1>2. /\ call' \in [Call -> Doing(key)]
        /\ CommandLeft'
        /\ \A g \in Call, i \in Table : Awaits(g, i) => Awaits(g, i)'
    BY <1>1, CallsWait
  <1>a. /\ cache \in {{}} \cup {{o} : o \in SUBSET Shows(key)}
        /\ fills \subseteq SUBSET Shows(key)
        /\ row \in [Shows(key) -> {"new", "there", "gone"}]
        /\ link \in {"connecting", "ready", "lost"}
    BY <1>1, CacheTypes
  <1>3. /\ cache' \in {{}} \cup {{o} : o \in SUBSET Shows(key)}
        /\ fills' \subseteq SUBSET Shows(key)
        /\ row' \in [Shows(key) -> {"new", "there", "gone"}]
        /\ link' \in {"connecting", "ready", "lost"}
    BY <1>1, <1>a
  <1>4. CatalogueTypeOK'
    BY <1>1, <1>2, <1>3, CacheTyped
  <1> QED
    BY <1>1, <1>2, <1>4, StaysExcused DEF CatalogueInv

(* A crash forgets deletions, which is excused if the key was stale. *)
LEMMA CacheCrash ==
  ASSUME CatalogueInv, CacheRestart
  PROVE  CatalogueInv'
  <1>1. /\ CatalogueTypeOK /\ StaleForAReason /\ UNCHANGED <<key, row, cache>>
        /\ link' = "connecting" /\ call' = [h \in Call |-> Idle] /\ fills' = {}
        /\ excused' = (excused \/ (Stale /\ \E h \in Call, i \in Shows(key) :
                                                   Awaits(h, i)))
    BY DEF CatalogueInv, CacheRestart
  <1>2. call' \in [Call -> Doing(key)]
    BY <1>1 DEF Doing
  <1>3. CommandLeft'
    BY <1>1 DEF CommandLeft, Idle
  <1>a. /\ cache \in {{}} \cup {{o} : o \in SUBSET Shows(key)}
        /\ row \in [Shows(key) -> {"new", "there", "gone"}]
        /\ excused \in BOOLEAN
    BY <1>1, CacheTypes
  <1>b. excused' \in BOOLEAN
    BY <1>1, Zenon
  <1>4. \A old \in cache : old \subseteq Shows(key)
    BY <1>a
  <1>5. CatalogueTypeOK'
    BY <1>1, <1>2, <1>a, <1>b, CacheTyped
  <1>6. StaleForAReason'
    BY <1>1, <1>4 DEF StaleForAReason, Stale
  <1> QED
    BY <1>3, <1>5, <1>6 DEF CatalogueInv

LEMMA ServiceStep ==
  ASSUME CatalogueInv, NEW h \in Call, NEW i \in Table, NEW keys,
         Handles(h, i, keys)
  PROVE  CatalogueInv'
  <1>1. CASE Read(h, keys)
    BY <1>1, ReadStep
  <1>2. CASE Create(h, i) \/ Update(h, i) \/ Delete(h, i)
    BY <1>2, WriteStep DEF Create, Update, Delete
  <1> QED
    BY <1>1, <1>2 DEF Handles

LEMMA CacheStep ==
  CatalogueInv /\ [CatalogueNext]_catalogueVars => CatalogueInv'
  <1> SUFFICES ASSUME CatalogueInv, [CatalogueNext]_catalogueVars
               PROVE  CatalogueInv'
    OBVIOUS
  <1>1. ASSUME NEW h \in Call,
               \/ RoleService(h)
               \/ PermissionService(h)
               \/ ProfessionService(h)
               \/ ResourceService(h)
               \/ CampService(h)
        PROVE  CatalogueInv'
    BY <1>1, ServiceStep
       DEF RoleService, PermissionService, ProfessionService,
           ResourceService, CampService, Table
  <1>2. ASSUME NEW h \in Call, Continue(h)
        PROVE  CatalogueInv'
    BY <1>2, AnswerStep, CommandStep DEF Continue
  <1>3. CASE Fill
    BY <1>3, FillStep DEF Fill
  <1>4. CASE Expire \/ Connect \/ Disconnect
    BY <1>4, ValkeyStep
  <1>5. CASE CacheRestart
    BY <1>5, CacheCrash
  <1>6. CASE UNCHANGED catalogueVars
    BY <1>6 DEF catalogueVars, CatalogueInv, CatalogueTypeOK, CommandLeft,
                StaleForAReason, Awaits
  <1> QED
    BY <1>1, <1>2, <1>3, <1>4, <1>5, <1>6 DEF CatalogueNext

(***************************************************************************)
(* Of every key, for any number of calls and fills: it shows an old row    *)
(* only while the write of the row still deletes keys, after a deletion    *)
(* that failed, or after a fill that came late: each write deletes every   *)
(* key its row can be seen in, however other calls and crashes come        *)
(* between its commands.                                                   *)
(***************************************************************************)
THEOREM StaleOnlyForAReason == CatalogueSpec => []CatalogueInv
  BY CacheInit, CacheStep, PTL DEF CatalogueSpec
=============================================================================
