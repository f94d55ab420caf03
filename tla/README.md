# Verification of the camp management API

TLA+ models of the API in `src/src`, its Prisma schema and its Go worker; TLC
runs over small instances of them; and TLAPS proofs of what matters most for
instances of every size. Line numbers refer to the repository at the commit
the models were written from; `PROJECT.json` maps every definition to them.

## 1. The system

A Node.js/Express API keeps camps, their people and their stock in PostgreSQL
through Prisma. Camps send out expeditions and transfer people and resources
to one another. Daily jobs hand out rations and add production, either inside
the API or from a queue in Valkey that a Go worker reads. Every request is a
short async handler; what runs concurrently are requests, jobs and workers, and
what they share is the database (READ COMMITTED, Prisma's default on
PostgreSQL), the Valkey keys and a pool of five connections.

### Components

| component | state | operations | what makes it correct |
|---|---|---|---|
| inventory (`inventory.service.ts`) | `inventories`, `inventory_logs` | guarded decrement with log, gain (update or create), manual adjustment | no quantity below zero; the quantity is the sum of its log; an operation is all or nothing |
| adjustment requests | `inventory_adjustment_requests` | create, approve, reject | a request moves stock once if approved, otherwise never; a decision is final |
| transfers | `camp_transfers`, `person_transfer_logs`, people, stock | create, schedule, approve by source, by target, complete, reject | both approvals first; stock, people and status move together, once; a person leaves the camp the person is in |
| explorations (expeditions) | `expeditions`, members, resources given and returned | create, change status, delete | legal transitions; returned once, never more than was taken |
| people | `people`, status, transfer and profession logs | create, update, delete, log a status, reassign a profession | the logs account for the row; one active reassignment |
| job queue, scheduler, Go worker | Valkey lists, `jobs:delayed`, `jobs:dlq` | enqueue, pop, run, retry, bury, move what is due | a job is in one place, ends, and runs no more often than it has attempts |
| daily jobs | stock, logs | rations, production, alerts | everybody present gets a ration; one camp's failure does not starve the rest |
| admission (`admission.service.ts`, `lib/prisma.ts`) | `admission_requests`, codes of people, the pool's connections | create, evaluate, review, generate a code | an acceptance is all or nothing; one person each; codes in order; nobody waits for ever |
| auth, sessions, users | `users.session_version`, `last_activity`, `is_active`, `refresh_tokens` | login, refresh, logout, the middleware, deactivate, clean up | a session that has ended stays ended; a login has one live token |
| cache (`lib/cache.ts`) | Valkey keys with a TTL, the connection | read-through, fill, delete by key or prefix | what is old is cached for a reason, and not for ever; a Valkey that fails stops nobody |
| camps, professions, resources, roles, permissions | reference tables, and their cache keys | create, update, delete, cached reads | every write deletes every key that shows the row |
| achievements | unlocks, announcements, statistics | check after an event, unlock, notify, create | an unlock is deserved, is not missed when two checks overlap, and is counted and announced once |
| metrics, system, other middlewares, images, ML service | none of their own | reads, checks, calls to other services | stateless |

### How they interact

* Transfers, expeditions, adjustment requests and jobs write stock inside their
  own transaction, with the inventory's statements: a decrement is `updateMany
  ... where quantity >= n`, whose count is checked; a gain is an upsert, or an
  update and then a create.
* Transfers and expeditions write rows of people whom `people.service.ts`
  writes too.
* The scheduler pushes jobs to Valkey; the worker pops them and writes the same
  tables as the API. Without a queue the API runs the same jobs itself.
* Admission calls `createPerson` of the people service inside its transaction,
  which asks the same pool for a second connection.
* Every request passes the session middleware, which writes the row of `users`
  that login, refresh, logout and the users service write.
* The reference services share the cache: a role shows its permissions, the
  production amounts show professions and resources, so that the writes of one
  service delete the keys of another.

### What is hard

Nearly every handler has the same shape: read a row, check its status, then
update it *by id* without looking at the status again. Often the read is not
even in the transaction that writes. At READ COMMITTED, a second call can do
the same in between. The tests are sequential, so that none of the orders this
allows is exercised. Other hard places: rows locked in opposite orders; stock
that is checked and then taken; a transaction that fails half way; a retried
job that starts again from its first camp; two commands to Valkey where one
would be needed; a refresh in three statements that a logout overtakes; a
transaction that waits for a connection while it holds one; a fill that
overtakes a deletion. `PROJECT.json` lists each under `hazards`, with its line and
the properties that watch it, or the reason why none does yet.

## 2. The modules

    InventoryOperations   what one transaction may ask of the stock
      InventoryLedger     the promise: operations happen whole, one at a time
        InventoryTransactions   statements, locks, timeouts   (implements it)
        AdjustmentRequests      \
        Transfers                } move stock as the ledger says
        Expeditions             /
        DailyJobs               one run of a job                (implements it)
    Roster                the row of a person and its logs
    JobLifecycle          the promise: a job waits, runs, waits again, is over
      JobQueue                Valkey and the Go worker        (implements it)
    Sessions              tokens, versions and activity of an account
    Admission             acceptances, codes and the pool of connections
    Catalogue             cached reads and writes of the reference tables
    Achievements          checks, unlocks, announcements, the notification job

    OperationProofs       the operations    -> the four modules that need them:
      InventoryProofs     InventoryTransactions
      AdjustmentProofs    AdjustmentRequests, Achievements
      TransferProofs      Transfers
      ExpeditionProofs    Expeditions
    RosterProofs          Roster, Admission
    SessionProofs         Sessions, DailyJobs
    JobQueueProofs        JobQueue, Catalogue
    MC*                   the instances TLC checks

Three proof modules extend two components each, so the names of these two
differ: `Init`, `Next`, `Spec` and `TypeOK` of the second one carry its name
(`AdmissionSpec`, `DailyTypeOK`).  Nothing else joins them.

**InventoryOperations** lists what the services ask of the stock: rations, daily
gains, adjustments, outflow and return of an expedition, transfers. An operation
is the rows it writes, in the order of the code, and the change of each.

**InventoryLedger** is the abstract specification: an operation that every row
can afford changes `stock` (the quantity column) and `ledger` (the sum of the
logged changes) at once.

**InventoryTransactions** is the code: one action per SQL statement. `wrote`,
`logged` and `inserted` are what a transaction has not committed; `lock` are
the row locks it holds. `Take` is the guarded decrement, and `TakeRefused` a
count of zero; `Put` is the upsert; `GainUpdate`, `GainMisses` and `GainInsert`
are the three ways through `increaseInventoryWithLog`, the lost race for a new
row included; `CheckStock` is the read with which `handleResourceOutflow`
begins. `Expire` is Prisma's timeout, a lost connection or a crash, before any
statement. `DeadlockVictim` is PostgreSQL's detector.

**AdjustmentRequests**, **Transfers**, **Expeditions** and **Roster** split a call
where it has read what its later writes depend on: at the read with its checks,
and at the update that ends the call. Transfers keeps two more points inside
`completeTransfer`: where it takes the inventory rows (and holds them), and
where it reads the people. `contested` is a history variable: the rows that two
open calls have read at once. What the code promises of a row is stated for
rows that are not contested; what it still promises of contested ones is a
weaker property of its own.

In **Expeditions** a call goes through its members before it ends. `Look` is
`changeMemberStatus`, which reads all of them at once and passes over who is
AWAY; `LookAt` is the loop of a return, a cancellation or DELETE, which reads
one after the other; `WriteMember` is the update of one of them. None of this
is committed: `call[h].target` is what it has written or will write, `Locked` are the rows
that others have to wait for, and `CommitMembers` is part of the step that
writes the expedition's own status (`Create`, `Start`, `ReturnHome`, `Cancel`). So another
call may commit between the look at a member and the commit of the status.
`ChangeHealth` and `MovePerson` are the other writers of a person's status;
whom they change is `meddled`. `shared` are the expeditions that were created
when another one with the same people was planned, was in the hands of a call,
or was out but disturbed itself; `Undisturbed` are those neither shared nor
contested.

**Roster** has every writer of a row of `people`: `updatePerson`, which checks the
camp, then reads the status, then writes both; `deletePerson` with the
foreign keys that restrict or cascade; status logs; reassignments, and the
clock that ends them; a completed transfer; an expedition.

**JobQueue** has one action per Valkey command and per transaction of a run:
`ReadDue`, `MoveDue` and their failures are `moveDueDelayedJobs`; `Pop` takes the
newest payload of the first list that has one, as BRPOP does on lists filled by
RPUSH; `Write` commits one resource of one camp; `WriteFails` may have committed
before it fails. `Retry`, `Bury` and `SettleLost` end a failed run; `Crash`
loses what the worker had in hand. **JobLifecycle** knows nothing of keys and
commands: a job is new, waits, runs or is over, with an attempt number. The
mapping `Place` finds the job's payload in the lists, in `jobs:delayed`, in the
hands of the worker or nowhere.

**DailyJobs** is what one run of a job does: the camps in order, the people and
the quantities read of each, and then a transaction per resource. `engine` says
whether the API or the worker runs it, for they differ: whom they count as
present (`Active`), and what ends a run (`Refuse`, `FailRun`). `Recipients` keeps the
people by id, as both engines do after they have ordered them by grade. Both
compute with doubles. Quantities are exact in the database, so the model keeps
them exact, and two constants say where doubles show: `Short`, the multiples
of a ration which, divided by it, give less than the whole number (`Quotient`;
0.30 / 0.10 is 2.9999999999999996), and `Excess`, the numbers whose product with
a ration is more than it should be (`Enough`; 0.39 * 5 is 1.9500000000000002).
Nowhere else do they show: the columns are Decimal(12,2), so that a quotient
that is not whole is too far from the next whole number to be rounded up to
it, and one that is whole falls short by less than one; the API rounds its
product with `toFixed(2)`, while the worker's stands as it is in the condition of the
update, and only what is stored, the quantity and the log, is rounded by the
columns. The ledger it implements is InventoryLedger with the sum of all logs as `ledger`.

**Sessions** is one account, one action per statement that commits: `ReadUser`,
`Revoke`, `CreateToken` and `Touch` are a refresh; `Revoke` and `Bump` a logout;
`ReadForRequest` and `TouchRequest` the middleware, after which the handler runs
(`Respond`). `Fail` ends a call between any two of them. An access token is the
version it was signed for (`signed`); a refresh token is a row and the login it
continues.

**Admission** follows one prefix of identification codes. `Row`, `ReadLast`,
`CheckRelations`, `Create` and `Commit` are the statements of an acceptance;
`Free` is what is left of the pool, and `CheckRelations` the query that
`createPerson` sends outside the transaction. `Rank` is the order of the codes as
text, in which a longer number may come before a shorter one. `Expire` is the
timeout of the transaction, or of the pool.

**Catalogue** follows one key at a time, any of twelve, and of its value only
which rows have been written since it was read. The services differ in what
they read and in `Invalidates`, the commands that follow a write; `Invalidate`
and `PassOver` carry one of them out, or not; `Store` and `Discard` end a fill,
which the answer has not waited for.

**Achievements** starts a check when the event it is about has committed (`Login`,
`Adjust`, `ReturnExpedition`, `CompleteTransfer`). `Fetch` reads what the user does
not have, `Evaluate` counts for one achievement, `Unlock` inserts the row or loses
at the unique key; `Notify`, `AuditUnlock` and `CountUnlock` announce it, and
`ReadUnsent` and `Send` are the notification job. `CreateRow`, `LinkRoles` and
`CreateStats` are the three statements of `createAchievement`, between which checks
run. `due` is a history variable: what a check owes to its event.

## 3. The runs

| run | instance | what it shows |
|---|---|---|
| `inventory` | 3 transactions, 2 camps, 2 resources | no stock below zero; quantity = log; the statements implement `LedgerSpec`; every transaction ends |
| `adjustments` | 2 requests, 3 reviews | an uncontested request moves stock once if approved; a contested one at most once per review |
| `transfers` | 2 transfers of one person and one stock, 2 calls | what a call has read of an uncontested transfer is still so, and approvals and locks stand (`TransferInv`); completions are all or nothing and after both approvals; nobody leaves a camp the person is not in |
| `expeditions` | 2 expeditions, 1 person, 2 calls | an uncontested expedition returns once, within what it took, along legal transitions; a contested one within what it took *per return*; who is out with an undisturbed one is AWAY, whatever the other does (`MembersAreAway`) |
| `job_queue` | 3 jobs, 2 camps, 1 worker, 1 retry | a payload knows the number of its runs (`QueueInv`); a job is in one place, runs at most once per attempt, and ends; the queue implements `Lifecycle` |
| `roster` | 1 person, 3 calls, 2 camps, 3 statuses | the logs of a person whose calls never overlapped are complete; in any case no camp and no status is unaccounted for |
| `sessions` | 1 account, 2 calls, 2 refresh tokens, 2 ends of a session | no request is let through for a session that has ended, or for a deleted account; a login no two calls handle at once has one live token, and none after its logout (`RotationInv`) |
| `admission` | 2 admissions, 2 calls, a pool of 2 or 3 | an acceptance is all or nothing; codes without a gap; only the pool can make everyone wait, and not for ever |
| `daily_jobs` | 2 runs, 2 camps, 6 people, 1 other change | every step is an operation of the ledger; nothing but a failure or, in the API, a refusal ends a run; a refusal has another taker or, in the worker, a rounding error behind it; nobody goes without while a portion is left, but for the one that division may cost |
| `daily_jobs_priority` (violated) | the same | the finding below |
| `catalogue` | 12 keys, 2 calls, 2 fills | old values are cached only for a reason and not for ever; no call waits for a Valkey that was once connected |
| `achievements` | 1 user, 2 checks, 2 achievements, 2 events, 1 failure | nothing is unlocked undeserved, missed, or counted twice, and every unlock is sent |

Every property of a passing run has a mutant in `PROJECT.json`: a definition of
the model changed as a plausible bug would (a dropped guard, a check of the
wrong value, a write outside the transaction), under which TLC finds the
property violated. The mutated operators stand in the modules before what they
change.

### Bounds, and why they are enough

* *Two calls* (three for reviews and people) overlap in every way; a third
  shows what an earlier one leaves for later. Each call of Transfers,
  Expeditions and AdjustmentRequests is idle again after it is answered, so
  that a run has any number of calls, two (three) at a time.
* *Three transactions* are the least that wait in a cycle while another gets in
  between; the workload has a transfer in each direction, an outflow that
  takes the rows in the other order and two gains that race for a new row.
* *Quantities of one or two*: sufficient, just sufficient and not sufficient
  are all the guards tell apart. The unit is a hundredth.
* *Two camps* are source and target, *one person* is enough where the calls of
  different people touch different rows; two transfers and two expeditions
  share the person and the stock.
* `MAX_RETRIES` is 1 instead of 3: a job has a first, a last and no other
  attempt.
* People's three statuses are HEALTHY, one that is neither, and DEAD, the only
  ones the code treats apart in what is modelled.
* *Sessions*: two refresh tokens are a rotated one and its successor, or two
  logins; three versions are two sessions that end. Accounts share no row.
* *Admission*: one digit out of three puts the change of length, after which
  the order of the codes is not that of the numbers, within reach of two
  admissions and of people created by hand, one of them with a code that is not
  a number. A pool of two is exhausted by two acceptances; a pool of three not.
* *Expeditions*: `Finds`, what an expedition may find, is nothing or one unit; each
  takes one unit along and may claim back two. Both list the same person, who
  sets out with one, or with the other, or with both. Two calls at a time are
  enough for the look of one, a return by the other and a third call after it.
* *DailyJobs*: a unit is 0.39 and a portion two of them, so that a stock may be
  half a portion short; with a ration of 0.78, 6 and 12 units are `Short`, and 5
  portions are `Excess`, which the five people of the first camp ask for when it
  opens with 10 units. The two camps show what the end of a run means for the
  next one. One change from outside takes stock, adds some, or takes a person;
  a second run is the other taker.
* *Catalogue*: commands on one key change no other, so one key is enough; a
  fill that began before a write and one that began after it are two.
* *Achievements*: two checks of one user are what the unique key sets apart;
  of two achievements one needs a second event (`MaxEvents` is 2) and is created
  while checks run; `Batch`, the notifications of a run of the job, is 1 instead
  of 100, so that two of them need two runs; `MaxFaults` is 1.
* *Transfers*: the three proposals carry one person forth, back, and without
  rations; with stocks of 2 and 1 a second completion finds too little.

Symmetry is used for identifiers of calls, transfers, expeditions, camps and
professions, only in runs without liveness, whose properties treat all alike.
`MCRoster.cfg`, `MCAchievements.cfg` and the two of MCDailyJobs switch the deadlock
check off: their calls, events or runs can be used up, and then nothing is left
to do.

### Fairness

* `inventory`: weak fairness of every transaction's next statement and of the
  deadlock detector. Handlers await nothing else inside a transaction. Nobody
  is obliged to start a transaction, and none must time out.
* `job_queue`: weak fairness of the clock, of polling and of work; strong
  fairness of moving and popping. A worker may die, and Valkey fail it, any
  number of times, but not each time a payload could be moved or popped.
* `admission`: weak fairness of the timeouts alone. Prisma ends a transaction
  after five seconds and waits two for one to start, and the pool ten for a connection
  (`lib/prisma.ts:24`): nothing else need ever go on.
* `catalogue`: the API's own steps go on, a fill ends, and the TTL of a value runs
  out if it stays old. Nothing is assumed about the connection.
* `achievements`: what follows an unlock goes on, for nothing in it waits, and
  the notification job, which the scheduler starts every half hour, is run
  again and again. Nobody is obliged to act, and no check to go on.

## 4. What is proved

All for any number of camps, resources, quantities, calls, requests, tokens,
jobs, retries and people. The theorems of JobQueue have one hypothesis more,
`Worker = {w}`: see section 6 for what two workers may do.

* `InventoryProofs`: `Invariance` (`Spec => []IndInv`), and from it
  `StockNeverNegative`, `QuantityIsLedger` and `TransactionsRefineLedger` (`Spec
  => LedgerSpec`). That stock is non-negative is not inductive: a commit adds
  what was written before. `IndInv` therefore says that uncommitted changes
  belong to the holder of the row's lock (`WritesLocked`), that committing any of
  them now would leave no row negative (`Solvent`: the guard was evaluated
  under the lock and nobody else can have changed the row), and that what is
  written and what is still to be written make up the whole operation
  (`Progress`). At a commit nothing is left to write and everything is logged,
  so that the commit is one step of the ledger; every other statement is a
  stutter.
* `OperationProofs`: that each kind of operation writes no row twice, and every
  row it changes (`IsInjective`, `WellFormed`). Transfers interleave two camps,
  which is why this is not obvious.
* `AdjustmentProofs`: `UncontestedMovesOnce`. Inductive with
  `ReviewsOfRequests`: a request that is not contested has one open review at
  most, and is still pending while it has (`ReviewInvariance`, `Spec =>
  []ReviewInv`). `MovementsAreReviewed` (`Spec => []MovementsHaveReviews`) counts
  movements against the reviews that are not open, for which the set of reviews
  has to be finite. `RequestsRefineLedger` (`Spec => LedgerSpec`): an approval that
  finds enough is one operation of the ledger.
  The other component of the module is Achievements: `UnlocksAreDeserved`
  (`AchievementsSpec => []AchievementInv`) and, from it, `NothingIsMissed`. That a check
  which is open may still unlock what its user is owed does not say that it will:
  `Owed` says of one of them that it will find the count met, which stays so
  because counts grow and because whoever loses at the unique key loses to a row
  that is there. `InOrder` says that what a check is about to insert was met.
  `EveryUnlockCountsOnce` (`[]TotalsCount`) counts the announcements that are over:
  they are finitely many for each achievement, however many users there are, and
  `CountUnlock` and `CreateStats` find the same row in either order.
* `RosterProofs`: `RosterInvariance` (`Spec => []RosterInv`). The part that makes it
  inductive is `ReadStillTrue`: while a person is not contested, the one open
  call about the person has read what is still in the row. So what it logs as
  the old status, and as the camp of departure, is the end of the log so far.
  `RowsAreNamed` (`Spec => []LogsNameEverything`) has no such condition: calls
  overlap as they will, and write back camps and statuses that are old. It is
  inductive with what such a call may write: the camp and the status it has read,
  and the camps between which it moves the person, are already named by logs
  (`ReadNamed`), and logs are never taken away.
  The other component of the module is Admission: `AcceptanceIsAllOrNothing`
  (`AdmissionSpec => []AdmissionInv`). That every person of an acceptance is linked
  to one admission is inductive with what an open acceptance relies on
  (`OpenAcceptances`): it is the only one that holds its admission, has seen no
  person in it, and the code it has inserted is nobody else's, because the unique
  key makes the second insertion wait. `CodesWithoutAGap` (`[]NumberedInOrder`)
  holds of the codes only together with what calls have read: no call carries a
  number beyond the next one, and so none that commits leaves a gap.
* `TransferProofs`: `TransfersStayConsistent` (`Spec => []TransferInv`), and from
  the same induction `PeopleMoveWithResources` (`Spec => []MovesTogether`) and
  `NobodyMovesFromElsewhere` (`Spec => []JourneysConnect`). The status is compared
  with nothing when it is written, so that the argument is another one. For an
  uncontested transfer it is `ReadStillTrue`: only the call that read it can have
  changed it. For all transfers it is what cannot be undone, and what is locked:
  who approved stays written whatever becomes of the status (`ApprovalsStand`);
  two completions hold disjoint sets of rows (`HeldApart`), so that what each has
  taken under the guard stays affordable (`LockedAffordable`); and a completion
  that found its people in the source still has them there at its commit
  (`TravellersStay`), for whoever would move one of them away takes rations from
  the same row, and waits for it. So that stock and people move together and
  a journey starts where the last one ended, even when a transfer is completed
  twice. `CompletedOnce` alone needs the transfer to be uncontested.
* `ExpeditionProofs`: `ExpeditionsReturnOnce` (`Spec => []ExpeditionInv`),
  `ReturnsAreBounded`, `MembersStayAway` and the action property `TransitionsAreLegal`
  (`Spec => LegalUnlessContested`). For the uncontested expedition the argument is
  that of Transfers: its only open call has read what is still so. `MembersAreAway`
  is inductive only together with `RivalsShare`, and the other way round: two
  expeditions that may both still write a person's status were planned with the
  same people, because the second one read its members when the first had made
  them AWAY, which they still were, because no third one could have written them
  in between. A start that passes over a member relies on one more part,
  `PassedAreAway`: whom an undisturbed expedition has passed over is still AWAY when
  it commits, for whoever could change the member holds the expedition too (then it
  is contested) or a rival (then it is shared), or is one of the writers that
  make the person `meddled`. `WritesMembers` says that a call writes its own
  members only, and that a start writes nothing but AWAY. `CreditsBounded` holds of contested expeditions too, and needs what
  is recorded to be positive wherever something has been credited: a second
  return does not overwrite the row of the first.
* `JobQueueProofs`: `OneWorkerKeepsTheQueue` (`Spec => []QueueInv`) and, from it,
  `RunsAreBounded`, `JobsStayInOnePlace` and `QueueImplementsLifecycle`. `InOnePlace`
  counts, and is not inductive: a payload that is moved is for a moment where it
  was and where it goes. `QueueInv` says instead that no two payloads of a job
  are in different places of the structures (`PayloadsApart`), that the worker
  holds a job just while it works on one (`HandFits`), that a payload
  carries the number of the runs before (`AttemptsCounted`), and that a run has
  written nothing beyond where it stands (`PartsCounted`). Under the mapping `Place`
  every action is then one step of JobLifecycle or a stutter; one lemma per
  action says which.
  The other component of the module is the cache, with no hypothesis on workers:
  `StaleOnlyForAReason` (`CatalogueSpec => []CatalogueInv`). A value that shows an
  old row is in the cache only while the write of that row has a deletion of the
  key ahead of it, or else something excused it. A step could break this by
  using up the last such command, so the proof goes through every kind of write,
  and through the keys in which it can be seen (`Invalidates` against `Shows`).
  `CommandLeft` makes it inductive: a call that deletes keys has a command left.
* `SessionProofs`: `SessionInvariance` (`Spec => []SessionInv`) and, from it,
  `EndedSessionsStayEnded` (`Spec => EndedStaysEnded`). The part that makes the
  first inductive is `Suits`: no call holds a token of a version that the user
  has not reached, and none that passed the check holds the present version of a
  deleted account. A session that has ended could come back only by the update
  that lets a request through, and that step compares the version again.
  `RotationsStayApart` (`Spec => []RotationInv`) is about refresh tokens: of a
  login none of whose tokens was in the hands of two calls at once, one call at
  a time rotates the token, the one that found the live row; between its revoke
  and its create no row of that login is live (`RotationsApart`), and rows belong
  to the login they continue (`RowsOfLogins`). `OneLiveToken` follows.
  The other component of the module is DailyJobs, any number of runs of both
  engines over any list of camps. `PortionsAreLogged` (`DailySpec => []DailyInv`)
  equates what the log of rations says of a row with a portion for everyone whom
  any run has served there, and says that a run ends early only by a failure or,
  in the API, by a refusal. The sums over people and over runs are folds, of
  which nothing is known but their definition, so the module begins with what it needs of them: that a sum is
  there, and what one more summand does (`SumStep`, `SumDiffers`, `SumOfOne`).
  The action property `RefusedForAnother` (`NobodyIsRefusedInVain`) rests on
  `ThereUnlessTaken`: what a run is about to give was there when it read, and is
  there still unless somebody else has taken from the row; `OncePerCamp` says that the run
  itself has not. Since the portions fit what was read (`QuotientFits`), a
  refusal without another taker is one of the worker's, for which the product was
  too large. The action property `FedAsFarAsItGoes` (`NobodyGoesWithout`)
  needs that as many are served as portions were counted: the recipients are
  numbered by id (`RankGrows`, `RecipientsCounted`), that the portions fit the stock
  (`PortionsFit`), and that a quotient that falls short leaves one portion
  (`WholeQuotient`). `DailyJobsRefineLedger` (`DailySpec => ImplementsLedger`): each
  `Give` is one affordable consumption or gain of the ledger, whose log is the sum
  of all logs of the row; what others do to a row is an adjustment of it, and
  all else is a stutter.

The assumptions are the named ASSUMEs of the modules: bounds are naturals, the
workload is made of the operations of `InventoryOperations`, the set of reviews
is finite, an absent value is none of the values, a quantity in `Short` is a whole
number of portions (of `Excess` nothing is assumed). The lock and visibility rules of PostgreSQL are modelled,
not proved.

DailyJobs takes finitely many runs and people, and a list of camps that is not
empty and names none twice: the active rows of a table with a primary key, where
there are any (without one, a run does nothing). Achievements takes at least one
user, and identifiers of users and camps that are not confused. Neither assumption was stated before the
proofs asked for it: with a camp listed twice a run serves its people twice, and
the sum of the portions is not that of the people.

What the proofs changed in the models: `ReadingSuits` says that only rations read
the stock (a production run that did would add no gains, and `DailyInv` alone did
not exclude it); `NumberedInOrder` speaks of the numbers that calls carry, and
`Owed` of checks that will find the count met; `CommandLeft` is new.

Only model-checked: liveness (`EveryTransactionEnds`, `EveryCallAnswered`,
`EveryJobEnds`, `Settles`, `AnsweredOnceConnected`, `EveryUnlockIsSent`) and
`OnlyPoolBlocks`, which says ENABLED: TLAPS has neither fairness nor ENABLED. Every
other property of a passing run is a theorem, for every value of the constants.

## 5. Findings

*Rations are not given by priority.* `src/.planning/codebase/ARCHITECTURE.md:231`
promises "children → doctors → explorers → everyone". `buildPriorityPeople` makes
that order, and `distributeResource` loses it: the recipients are the keys of an
object with integer keys, which JavaScript lists in ascending order
(`daily-rations.job.ts:104`), and the Go worker sorts them. With one portion and
two people, the one with the lower id is served and the child is not
(`PriorityServed`, run `daily_jobs_priority`).

What follows are consequences of the models that contradict or surprise a text
of the repository, or that no text decides. They are steps of the models, and
the reason why properties speak of what is not contested, not shared, or not
overtaken; no run states them.

* *Two decisions on one row.* Approve and reject read the status of an
  adjustment request before the transaction that writes it: two approvals move
  the stock twice, and a rejection overwrites an approval that has moved it. In
  the same way a completed transfer can become REJECTED, a transfer of resources
  alone can be completed twice, and two calls that both found an expedition
  ONGOING both return its resources.
* *Who is no longer HEALTHY is moved* by a transfer: only its creation checks it.
* *A planned expedition departs with whoever is in it.* Two expeditions planned
  with one person both depart; the first to return makes HEALTHY who is still
  out with the other. A cancelled expedition gives nothing back. DELETE makes
  members HEALTHY whom it does not name, one who died meanwhile included.
* *A start that looked too early.* Two calls start one expedition; the second
  finds the members AWAY and passes over them (`explorations.service.ts:156`); before
  it writes ONGOING (:629) a third call returns the expedition. It is then out with
  members who are HEALTHY, and another expedition may take them. A cancellation
  that looked at a member before a start made the member AWAY leaves somebody
  AWAY with no expedition. Both need two calls that found the same status.
* *A transfer sets the status of who is away*: its completion does not check the
  status of the people it moves, and writes the one its request names
  (`transfers.service.ts:281`). A member of an expedition becomes HEALTHY elsewhere.
* *Doubles cost a portion.* Of 0.30 with a ration of 0.10 two people are served
  and a third is not, although 0.10 is left (`daily-rations.job.ts:105`,
  `main.go:825`). Of 1.95 with a ration of 0.39 the worker asks for
  1.9500000000000002 for five people, and is refused, so that all five go without
  (`main.go:838`); the API serves them.
* *A retried production job repeats the gains it had committed*: it starts from
  the first camp, and nothing marks the day as done.
* *The engines differ.* The worker feeds, and lets produce, those who are AWAY
  (`main.go:666`); the API does not. The API rounds what it asks for to two
  decimals, the worker does not. The API's run ends for all later camps when
  one consumption is refused; the worker goes on. Overrides count for everyone
  of a camp, the dead included.
* *Codes end at 999.* After 1000 the last code is, as text, still 999; the next
  is 1000 again, and every acceptance of that prefix fails on the unique key.
* *As many acceptances as there are connections* all wait for one more, and
  all fail after the timeout.
* *A refresh that a logout overtakes* signs for the version it read, which is
  refused, but its new refresh token is live, and was not revoked by the logout.
* *The cache is fail-open only after the first connection.* Until it is made
  every cached read and write waits for it (`cache.ts:52`), although `index.ts:110`
  does not, and `docs/cache.md` says that the API continues with the database.
* *A login unlocks one kind of achievement or the other.* The first login after
  `last_activity` was cleared looks only at the name (`achievements.evaluator.ts:38`),
  and every logout clears it (`auth.service.ts:219`): logins are counted only for
  who logs in again without having logged out, and "first" logins recur.
* *Achievements nobody triggers*: no service calls tryUnlock with CAMP_CREATE,
  EXPEDITION_FOUND_RESOURCES, HEALTH_DAYS or PERIODIC_CHECK. TRANSFER_COMPLETE
  counts the transfers *requested* by the camp of the user who completes one:
  a user of the target camp completes transfers that count for somebody else.
* *A return before the departure* passes: changing the status does not make the
  comparison (`explorations.service.ts:59`) that creation and update make.
* approve-source writes back the date it read and undoes a reschedule;
  `updatePerson` writes back the camp it checked and undoes a transfer that
  completed meanwhile; two overlapping reassignments both become active.

## 6. Assumptions and what is left out

* Quantities are whole hundredths. The DTOs accept more decimals, which the
  columns round. The rounding errors of doubles are modelled where they decide
  about rations (DailyJobs: portions and what the worker asks for); other
  services compare a number that JSON and Prisma carry unchanged. In DailyJobs
  it is assumed that the worker's driver passes the product to PostgreSQL as the
  double it is.
* One worker. With two, both can move the same due payload, for the answer to
  ZREM is not looked at.
* A transfer lists a person once. The code accepts a list that names one twice,
  and such a transfer can be approved but never completed
  (`transfers.service.ts:260` compares the number of rows with the number listed).
* In AdjustmentRequests, Transfers and Expeditions a stock movement is one step
  of the ledger: that is what InventoryTransactions is shown to implement. In
  Transfers the rows a completion holds are kept, because they decide in which
  order two completions read the people. In Expeditions a return locks its
  members and then the stock; that two calls may wait for one another there is a
  matter of InventoryTransactions' detector, and shows as `Fail`.
* Reads that are not cached, paging, wording, alerts and permissions are left
  out; who may call what is a guard where it depends on the camp.
* `updateExploration` (dates and notes). Contribution overrides are a constant of
  DailyJobs: they are read in one query, and nothing else looks at them.
* Passwords, signatures and hashes are sound: a token is what was signed.
* In Admission a code of the prefix is a number, or one that is none; codes with
  leading zeros that somebody types in are not told apart from the number.
* In Catalogue the two queries of a list, its records and its total, are one.
* The cache is modelled as enabled; without it every read is a query.
* In Achievements the counts of a user or camp only grow: a contested expedition
  that loses its status RETURNED again is left out, and so are changes of roles
  and the listings. One process; a notification job runs one at a time.
* Metrics and system only read. The ML service is a classifier, whose verdict
  Admission chooses freely; images are input and output alone; seeds and tests
  are data.

Components without a module are listed in `PROJECT.json` with the reason.

## 7. Plan

All components that keep state of their own have a module, and every safety
property that a run checks is a theorem. What would be next:

1. The rounding of Decimal(12,2): a quantity that is rounded against its log,
   which is rounded apart.
2. The composition of Roster with Transfers and Expeditions, of which it has the
   writes.
3. Two workers, for which the theorems of JobQueue do not hold: the payload that
   both move has to be counted twice.
