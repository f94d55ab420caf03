---------------------------- MODULE Achievements ----------------------------
(***************************************************************************)
(* achievements.service.ts, .evaluator.ts and .notifier.ts, with the       *)
(* calls that trigger them and the job that sends notifications.           *)
(*                                                                         *)
(* A check starts once the event it is about has committed, and nothing    *)
(* waits for it.  It fetches what its user has not unlocked yet, counts    *)
(* for one achievement after the other, and unlocks; each is a statement   *)
(* of its own, so checks of one user overlap and only the unique key on    *)
(* (user, achievement) tells who was first.  An unlock is announced by     *)
(* three more statements that the check does not wait for.  A failure is   *)
(* logged, and nothing is tried again before the next event.               *)
(***************************************************************************)
EXTENDS Integers, FiniteSets, Functions

CONSTANTS
  User,         \* the users that are logged in or act
  ActingCamp,   \* the camps in whose name they act
  Achievement,  \* the rows achievements may get
  Seeded,       \* those that are there from the start
  Rule,         \* Rule[a]: trigger_rule
  Required,     \* Required[a]: what getRequiredCount makes of the name
  Novice,       \* the achievements whose name includes "Novice"
  Offered,      \* Offered[a]: the users whose role the achievement is linked to
  Check,        \* the checks that may be open at once
  Batch,        \* bound: the notifications that are sent in one run
  MaxEvents,    \* bound: the events that are counted
  MaxFaults,    \* bound: failures and crashes
  None          \* no achievement

(* The rules some service triggers, and those that count by camp. *)
Rules     == {"LOGIN", "INVENTORY_ADJUST", "EXPEDITION_RETURN", "TRANSFER_COMPLETE"}
CampRules == {"EXPEDITION_RETURN", "TRANSFER_COMPLETE"}

ASSUME AchievementsAssumption ==
  /\ Seeded \subseteq Achievement /\ Novice \subseteq Achievement
  /\ Rule \in [Achievement -> Rules]
  /\ Required \in [Achievement -> Nat \ {0}]
  /\ \A a \in Novice : Rule[a] = "LOGIN" => Required[a] = 1
  /\ Offered \in [Achievement -> SUBSET User]
  /\ Batch \in Nat \ {0} /\ MaxEvents \in Nat /\ MaxFaults \in Nat
  /\ User # {} /\ User \cap ActingCamp = {}
  /\ None \notin Achievement \cup User \cup ActingCamp

VARIABLES
  fresh,    \* fresh[u]: users.last_activity is null
  tally,    \* tally[r, k]: the rows rule r counts for the user or camp k
  audits,   \* audits[u]: LOGIN rows of audit_logs that are being written
  stage,    \* stage[a]: how far createAchievement has come
  earned,   \* user_achievements
  total,    \* total[a]: achievement_stats.total_unlocks, -1 without the row
  notice,   \* notice[p]: how far notifyUnlock has come
  message,  \* message[p]: the row of achievement_notifications
  sending,  \* what the run of the notification job has read
  check,    \* check[x]: what check x has read and does next
  due,      \* what a check owes to the event it was started for (history)
  faults    \* the failures so far

progress == <<earned, notice, due>>
achievementVars == <<fresh, tally, audits, stage, total, message, sending, check, faults, progress>>

Pair   == User \X Achievement
Anyone == User \cup ActingCamp

IdleCheck ==
  [step |-> "idle", user |-> CHOOSE u \in User : TRUE, rule |-> "LOGIN",
   key |-> CHOOSE u \in User : TRUE, first |-> FALSE, todo |-> {}, at |-> None]

AchievementsTypeOK ==
  /\ fresh \in [User -> BOOLEAN]
  /\ tally \in [Rules \X Anyone -> Nat]
  /\ audits \in [User -> Nat]
  /\ stage \in [Achievement -> {"none", "row", "roles", "ready"}]
  /\ earned \subseteq Pair
  /\ total \in [Achievement -> Nat \cup {-1}]
  /\ notice \in [Pair -> {"none", "create", "audit", "stats", "done", "failed"}]
  /\ message \in [Pair -> {"none", "unsent", "sent"}]
  /\ sending \subseteq Pair
  /\ check \in [Check -> [step : {"idle", "login", "fetch", "next", "create"},
                          user : User, rule : Rules, key : Anyone, first : BOOLEAN,
                          todo : SUBSET Achievement, at : Achievement \cup {None}]]
  /\ due \subseteq Pair
  /\ faults \in 0 .. MaxFaults

AchievementsInit ==
  /\ fresh = [u \in User |-> TRUE]
  /\ tally = [k \in Rules \X Anyone |-> 0]
  /\ audits = [u \in User |-> 0]
  /\ stage = [a \in Achievement |-> IF a \in Seeded THEN "ready" ELSE "none"]
  /\ earned = {}
  /\ total = [a \in Achievement |-> IF a \in Seeded THEN 0 ELSE -1]
  /\ notice = [p \in Pair |-> "none"]
  /\ message = [p \in Pair |-> "none"]
  /\ sending = {}
  /\ check = [x \in Check |-> IdleCheck]
  /\ due = {}
  /\ faults = 0

-----------------------------------------------------------------------------
Becomes(x, c) == check' = [check EXCEPT ![x] = c]

(* What has been counted, or is about to be. *)
Events == FoldFunction(+, 0, tally) + FoldFunction(+, 0, audits)

(* achievement_roles has the links. *)
Linked(a) == stage[a] \in {"roles", "ready"}

(* What a check of rule r may unlock for user u. *)
Applicable(u, r) == {a \in Achievement : Rule[a] = r /\ Linked(a) /\ u \in Offered[a]}

(* What the evaluation of check c counts. *)
Count(c) == tally[<<c.rule, c.key>>]

(* Mutant of Met: one less is enough. *)
MetButOne(c, n, a) ==
  IF c.rule = "LOGIN" /\ c.first THEN a \in Novice ELSE n + 1 >= Required[a]

(* evaluate, when the count is n. *)
Met(c, n, a) ==
  IF c.rule = "LOGIN" /\ c.first THEN a \in Novice ELSE n >= Required[a]

(* The next achievement in the list, or the end of the check. *)
Rest(c) == IF c.todo = {} THEN IdleCheck ELSE [c EXCEPT !.step = "next", !.at = None]

(***************************************************************************)
(* An event of user u that rule r counts for `counted` has committed, and  *)
(* the check that starts counts for `key`.                                 *)
(***************************************************************************)
Trigger(x, c, counted) ==
  LET n == Count(c) + (IF counted = c.key THEN 1 ELSE 0) IN
  /\ IF counted = None THEN UNCHANGED tally
     ELSE /\ Events < MaxEvents
          /\ tally' = [tally EXCEPT ![<<c.rule, counted>>] = @ + 1]
  /\ Becomes(x, [c EXCEPT !.step = "fetch"])
  /\ due' = due \cup {<<c.user, a>> : a \in {b \in Applicable(c.user, c.rule) : Met(c, n, b)}}

-----------------------------------------------------------------------------
(* login has read the user, and with it whether last_activity is null. *)
ReadForLogin(x, u) ==
  /\ check[x] = IdleCheck
  /\ Becomes(x, [IdleCheck EXCEPT !.step = "login", !.user = u, !.key = u, !.first = fresh[u]])
  /\ UNCHANGED <<fresh, tally, audits, stage, total, message, sending, faults, progress>>

(* It writes last_activity, leaves the audit log to itself, and checks. *)
Login(x) ==
  LET u == check[x].user IN
  /\ check[x].step = "login"
  /\ Events < MaxEvents
  /\ fresh' = [fresh EXCEPT ![u] = FALSE]
  /\ audits' = [audits EXCEPT ![u] = @ + 1]
  /\ Trigger(x, check[x], None)
  /\ UNCHANGED <<stage, total, message, sending, faults, earned, notice>>

(* auditLog: the row is there, some time after the answer. *)
AuditLogin(u) ==
  /\ audits[u] > 0
  /\ audits' = [audits EXCEPT ![u] = @ - 1]
  /\ tally' = [tally EXCEPT ![<<"LOGIN", u>>] = @ + 1]
  /\ UNCHANGED <<fresh, stage, total, message, sending, check, faults, progress>>

(* logout, and whatever else clears last_activity. *)
Logout(u) ==
  /\ ~fresh[u]
  /\ fresh' = [fresh EXCEPT ![u] = TRUE]
  /\ UNCHANGED <<tally, audits, stage, total, message, sending, check, faults, progress>>

(* createManualAdjustment, or the approval of a request by u. *)
Adjust(x, u) ==
  /\ check[x] = IdleCheck
  /\ Trigger(x, [IdleCheck EXCEPT !.user = u, !.rule = "INVENTORY_ADJUST", !.key = u], u)
  /\ UNCHANGED <<fresh, audits, stage, total, message, sending, faults, earned, notice>>

(* Of two calls that return an expedition of camp c, one counts for nothing. *)
ReturnExpedition(x, u, c, counted) ==
  /\ check[x] = IdleCheck
  /\ counted \in {c, None}
  /\ Trigger(x, [IdleCheck EXCEPT !.user = u, !.rule = "EXPEDITION_RETURN", !.key = c], counted)
  /\ UNCHANGED <<fresh, audits, stage, total, message, sending, faults, earned, notice>>

(* A user of camp c completes a transfer that camp `from` has requested. *)
CompleteTransfer(x, u, c, from) ==
  /\ check[x] = IdleCheck
  /\ Trigger(x, [IdleCheck EXCEPT !.user = u, !.rule = "TRANSFER_COMPLETE", !.key = c], from)
  /\ UNCHANGED <<fresh, audits, stage, total, message, sending, faults, earned, notice>>

-----------------------------------------------------------------------------
(* tryUnlock reads the applicable achievements the user has not unlocked. *)
Fetch(x) ==
  LET c == check[x] IN
  /\ c.step = "fetch"
  /\ Becomes(x, Rest([c EXCEPT !.todo =
                        {a \in Applicable(c.user, c.rule) : <<c.user, a>> \notin earned}]))
  /\ UNCHANGED <<fresh, tally, audits, stage, total, message, sending, faults, progress>>

(* The list has no order. *)
Evaluate(x, a) ==
  LET c == check[x]
      left == [c EXCEPT !.todo = @ \ {a}] IN
  /\ c.step = "next"
  /\ a \in c.todo
  /\ Becomes(x, IF Met(c, Count(c), a)
                THEN [left EXCEPT !.step = "create", !.at = a] ELSE Rest(left))
  /\ UNCHANGED <<fresh, tally, audits, stage, total, message, sending, faults, progress>>

(* Mutant of Unlock: the error of the unique key ends the check. *)
UnlockOrStop(x) ==
  LET c == check[x]
      p == <<c.user, c.at>> IN
  /\ c.step = "create"
  /\ IF p \in earned THEN Becomes(x, IdleCheck) /\ UNCHANGED <<earned, notice>>
     ELSE /\ earned' = earned \cup {p}
          /\ notice' = [notice EXCEPT ![p] = "create"]
          /\ Becomes(x, Rest(c))
  /\ UNCHANGED <<fresh, tally, audits, stage, total, message, sending, faults, due>>

(* The row is created and announced; if it is there, the error is logged. *)
Unlock(x) ==
  LET c == check[x]
      p == <<c.user, c.at>> IN
  /\ c.step = "create"
  /\ IF p \in earned THEN UNCHANGED <<earned, notice>>
     ELSE /\ earned' = earned \cup {p}
          /\ notice' = [notice EXCEPT ![p] = "create"]
  /\ Becomes(x, Rest(c))
  /\ UNCHANGED <<fresh, tally, audits, stage, total, message, sending, faults, due>>

-----------------------------------------------------------------------------
(* notifyUnlock: the notification, the audit log, the statistics. *)
Notify(p) ==
  /\ notice[p] = "create"
  /\ message' = [message EXCEPT ![p] = "unsent"]
  /\ notice' = [notice EXCEPT ![p] = "audit"]
  /\ UNCHANGED <<fresh, tally, audits, stage, earned, total, sending, check, due, faults>>

AuditUnlock(p) ==
  /\ notice[p] = "audit"
  /\ notice' = [notice EXCEPT ![p] = "stats"]
  /\ UNCHANGED <<fresh, tally, audits, stage, earned, total, message, sending, check, due, faults>>

(* The upsert creates the row of the statistics if it is not there. *)
CountUnlock(p) ==
  /\ notice[p] = "stats"
  /\ total' = [total EXCEPT ![p[2]] = IF @ = -1 THEN 1 ELSE @ + 1]
  /\ notice' = [notice EXCEPT ![p] = "done"]
  /\ UNCHANGED <<fresh, tally, audits, stage, earned, message, sending, check, due, faults>>

(* Mutant of Unsent: sent notifications are read again. *)
AnyMessage == {p \in Pair : message[p] # "none"}

Unsent == {p \in Pair : message[p] = "unsent"}

(* sendPendingNotifications reads at most a batch, in any order. *)
ReadUnsent ==
  /\ sending = {} /\ Unsent # {}
  /\ sending' \in {s \in SUBSET Unsent :
                     Cardinality(s) = Batch \/ (s = Unsent /\ Cardinality(s) < Batch)}
  /\ UNCHANGED <<fresh, tally, audits, stage, total, message, check, faults, progress>>

Send(p) ==
  /\ p \in sending
  /\ message' = [message EXCEPT ![p] = "sent"]
  /\ sending' = sending \ {p}
  /\ UNCHANGED <<fresh, tally, audits, stage, total, check, faults, progress>>

-----------------------------------------------------------------------------
(* createAchievement: three statements and no transaction. *)
CreateRow(a) ==
  /\ stage[a] = "none"
  /\ stage' = [stage EXCEPT ![a] = "row"]
  /\ UNCHANGED <<fresh, tally, audits, total, message, sending, check, faults, progress>>

LinkRoles(a) ==
  /\ stage[a] = "row"
  /\ stage' = [stage EXCEPT ![a] = "roles"]
  /\ UNCHANGED <<fresh, tally, audits, total, message, sending, check, faults, progress>>

(* Mutant of CreateStats: the row is written whether it is there or not. *)
ResetStats(a) ==
  /\ stage[a] = "roles"
  /\ stage' = [stage EXCEPT ![a] = "ready"]
  /\ total' = [total EXCEPT ![a] = 0]
  /\ UNCHANGED <<fresh, tally, audits, message, sending, check, faults, progress>>

(* Refused by the unique key if an unlock was faster, as the links work. *)
CreateStats(a) ==
  /\ stage[a] = "roles"
  /\ stage' = [stage EXCEPT ![a] = "ready"]
  /\ total' = [total EXCEPT ![a] = IF @ = -1 THEN 0 ELSE @]
  /\ UNCHANGED <<fresh, tally, audits, message, sending, check, faults, progress>>

-----------------------------------------------------------------------------
Fault == faults < MaxFaults /\ faults' = faults + 1

(* What user u was owed and has not got: nobody looks before the next event. *)
Forget(u, as) == due' = due \ ({<<u, a>> : a \in as} \ earned)

(* The read of the achievements fails, and tryUnlock returns nothing. *)
FailFetch(x) ==
  /\ Fault /\ check[x].step = "fetch"
  /\ Becomes(x, IdleCheck)
  /\ Forget(check[x].user, Achievement)
  /\ UNCHANGED <<fresh, tally, audits, stage, total, message, sending, earned, notice>>

(* A count or an insertion fails: the achievement is skipped. *)
FailOne(x) ==
  LET c == check[x] IN
  /\ Fault
  /\ \/ \E a \in c.todo :
          /\ c.step = "next"
          /\ Becomes(x, Rest([c EXCEPT !.todo = @ \ {a}]))
          /\ Forget(c.user, {a})
     \/ c.step = "create" /\ Becomes(x, Rest(c)) /\ Forget(c.user, {c.at})
  /\ UNCHANGED <<fresh, tally, audits, stage, total, message, sending, earned, notice>>

Announcing == {p \in Pair : notice[p] \in {"create", "audit", "stats"}}

FailNotice(p) ==
  /\ Fault /\ p \in Announcing
  /\ notice' = [notice EXCEPT ![p] = "failed"]
  /\ UNCHANGED <<fresh, tally, audits, stage, earned, total, message, sending, check, due>>

FailSend(p) ==
  /\ Fault /\ p \in sending
  /\ sending' = sending \ {p}
  /\ UNCHANGED <<fresh, tally, audits, stage, total, message, check, progress>>

FailAudit(u) ==
  /\ Fault /\ audits[u] > 0
  /\ audits' = [audits EXCEPT ![u] = @ - 1]
  /\ UNCHANGED <<fresh, tally, stage, total, message, sending, check, progress>>

(* The process ends, and with it everything nobody waited for. *)
Crash ==
  /\ Fault
  /\ check' = [x \in Check |-> IdleCheck]
  /\ notice' = [p \in Pair |-> IF p \in Announcing THEN "failed" ELSE notice[p]]
  /\ audits' = [u \in User |-> 0]
  /\ sending' = {}
  /\ due' = due \cap earned
  /\ UNCHANGED <<fresh, tally, stage, earned, total, message>>

-----------------------------------------------------------------------------
Event(x) ==
  \/ \E u \in User : ReadForLogin(x, u) \/ Adjust(x, u)
  \/ Login(x)
  \/ \E u \in User, c \in ActingCamp, k \in ActingCamp \cup {None} : ReturnExpedition(x, u, c, k)
  \/ \E u \in User, c, from \in ActingCamp : CompleteTransfer(x, u, c, from)

Continue(x) == Fetch(x) \/ (\E a \in Achievement : Evaluate(x, a)) \/ Unlock(x)

Announce(p) == Notify(p) \/ AuditUnlock(p) \/ CountUnlock(p)

AchievementsNext ==
  \/ \E x \in Check : Event(x) \/ Continue(x) \/ FailFetch(x) \/ FailOne(x)
  \/ \E u \in User : AuditLogin(u) \/ Logout(u) \/ FailAudit(u)
  \/ \E p \in Pair : Announce(p) \/ Send(p) \/ FailNotice(p) \/ FailSend(p)
  \/ ReadUnsent
  \/ \E a \in Achievement : CreateRow(a) \/ LinkRoles(a) \/ CreateStats(a)
  \/ Crash

AchievementsSpec == AchievementsInit /\ [][AchievementsNext]_achievementVars

(* What runs goes on, and the notification job is run again and again. *)
AchievementsFairSpec ==
  /\ AchievementsSpec
  /\ \A p \in Pair : WF_achievementVars(Announce(p)) /\ WF_achievementVars(Send(p))
  /\ WF_achievementVars(ReadUnsent)

-----------------------------------------------------------------------------
(* Check x may still unlock pair p. *)
Pending(x, p) ==
  LET c == check[x] IN
  /\ c.user = p[1] /\ c.rule = Rule[p[2]]
  /\ \/ c.step = "fetch"
     \/ c.step \in {"next", "create"} /\ (p[2] \in c.todo \/ p[2] = c.at)

(***************************************************************************)
(* Unless a failure hit the check, who has reached a count by an event of  *)
(* their own has the achievement, or a check that is open will find it:    *)
(* checks of one user that overlap do not cost each other an achievement,  *)
(* although one of them loses at the unique key.                           *)
(***************************************************************************)
NothingMissed == \A p \in due : p \in earned \/ \E x \in Check : Pending(x, p)

(***************************************************************************)
(* The statistics count every unlock once, namely when it was announced,   *)
(* even if the unlock came before createAchievement's own row.             *)
(***************************************************************************)
TotalsCount ==
  \A a \in Achievement :
    LET counted == {u \in User : notice[<<u, a>>] = "done"} IN
    /\ Cardinality(counted) = IF total[a] = -1 THEN 0 ELSE total[a]
    /\ stage[a] = "ready" => total[a] # -1

(* Whoever has an achievement has reached its count, or logged in at last. *)
Deserved ==
  \A p \in earned :
    \/ Rule[p[2]] = "LOGIN" /\ p[2] \in Novice
    \/ \E k \in {p[1]} \cup ActingCamp : tally[<<Rule[p[2]], k>>] >= Required[p[2]]

(* A check looks at achievements of its rule, and unlocks what is met. *)
InOrder(c) ==
  /\ c.key \in {c.user} \cup ActingCamp
  /\ \A a \in c.todo : Rule[a] = c.rule
  /\ c.step = "next" => c.at = None
  /\ c.step = "create" =>
       c.at \in Achievement /\ Rule[c.at] = c.rule /\ Met(c, Count(c), c.at)

(* What is owed is offered, and not only an open check but one that will find it met. *)
Owed ==
  \A p \in due :
    /\ Linked(p[2]) /\ p[1] \in Offered[p[2]]
    /\ \/ p \in earned
       \/ \E x \in Check : /\ Pending(x, p)
                           /\ Met(check[x], Count(check[x]), p[2])

AchievementInv ==
  /\ AchievementsTypeOK
  /\ Deserved
  /\ \A x \in Check : InOrder(check[x])
  /\ Owed
  /\ \A p \in Pair : p \notin earned => notice[p] = "none"

(***************************************************************************)
(* An unlock is announced by a notification that is sent some day, unless  *)
(* a failure ended the announcement before the notification was written.   *)
(***************************************************************************)
EveryUnlockIsSent ==
  \A p \in Pair : p \in earned ~> message[p] = "sent" \/ notice[p] = "failed"
=============================================================================
