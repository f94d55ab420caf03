----------------------------- MODULE Transfers -----------------------------
(***************************************************************************)
(* transfers.service.ts: resources and people go from the requesting camp  *)
(* (the source) to the target camp, once both camps have approved.         *)
(*                                                                         *)
(* Every operation is one transaction that reads the transfer, checks its  *)
(* status, and ends with an update by id that does not look at the status  *)
(* again; at READ COMMITTED other transactions commit in between.  A call  *)
(* is therefore at least two steps here, and completeTransfer is four: it  *)
(* reads, locks the inventory rows it changes, reads the people, commits.  *)
(* What it does to the inventory is one ledger operation, which is what    *)
(* InventoryTransactions implements; the locks it holds on the way are     *)
(* kept here, because they decide in which order completions see people.   *)
(* Nothing else moves people here; an update of a person that overlaps a   *)
(* completion, and may write back the camp it has read, is in Roster.      *)
(***************************************************************************)
EXTENDS InventoryLedger

CONSTANTS
  Person,            \* the rows of people
  Status,            \* the values of persons_status in use
  Birth,             \* the camp each person was admitted to
  TransferId,        \* the rows of camp_transfers
  Proposal,          \* the transfers camps ask for
  Call,              \* the HTTP requests that handle transfers
  Ration,            \* RATION_RESOURCE_TYPE_NAME
  RationsPerPerson,  \* RATION_PER_PERSON_PER_DAY * RATION_TRAVEL_DAYS
  None               \* no camp, no transfer

(* transfers.schema.ts: resources (items may be empty), people, or both. *)
ProposalType ==
  [from : Camp, to : Camp, items : ItemLists \cup {<<>>}, amount : [Resource -> Qty],
   people : SUBSET Person]

Movement(x) == Transfer(x.from, x.to, x.items, x.amount)

ASSUME TransfersAssumption ==
  /\ Proposal \subseteq ProposalType
  /\ \A x \in Proposal : /\ x.from # x.to
                         /\ x.items = <<>> => x.people # {}
                         /\ x.items # <<>> => Movement(x) \in Workload
  /\ "HEALTHY" \in Status
  /\ Birth \in [Person -> Camp]
  /\ None \notin Camp \cup TransferId

VARIABLES
  home,       \* home[p]: people.camp_id
  health,     \* health[p]: people.status
  journey,    \* journey[p]: the rows of person_transfer_logs about p, in order
  status,     \* status[i]: camp_transfers.status, or "NONE" before the row exists
  plan,       \* plan[i]: the camps and items of transfer i
  date,       \* date[i]: scheduled_delivery_date, seen from now
  bySource,   \* bySource[i]: the camp of the user in approved_by_source
  byTarget,   \* byTarget[i]: the camp of the user in approved_by_target
  moved,      \* moved[i]: how often inventory_logs records transfer i
  call,       \* call[h]: what call h has read and does next
  contested   \* transfers that two open calls have read at once (history)

vars == <<stock, ledger, home, health, journey, status, plan, date, bySource, byTarget,
          moved, call, contested>>

Open   == {"PENDING", "APPROVED_SOURCE", "APPROVED_TARGET"}
Closed == {"COMPLETED", "REJECTED"}
Date   == {"none", "ahead", "past"}
Steps  == {"schedule", "approveSource", "approveTarget", "reject", "take", "people", "commit"}

Idle == [step |-> "idle", of |-> None, by |-> None, date |-> "none", health |-> "HEALTHY"]

TypeOK ==
  /\ stock \in [Row -> Int]
  /\ ledger \in [Row -> Int]
  /\ home \in [Person -> Camp]
  /\ health \in [Person -> Status]
  /\ journey \in [Person -> Seq([transfer : TransferId, from : Camp, to : Camp])]
  /\ status \in [TransferId -> {"NONE"} \cup Open \cup Closed]
  /\ plan \in [TransferId -> Proposal]
  /\ date \in [TransferId -> Date]
  /\ bySource \in [TransferId -> Camp \cup {None}]
  /\ byTarget \in [TransferId -> Camp \cup {None}]
  /\ moved \in [TransferId -> Nat]
  /\ call \in [Call -> [step : {"idle"} \cup Steps, of : TransferId \cup {None},
                        by : Camp \cup {None}, date : Date, health : Status]]
  /\ contested \subseteq TransferId

(* What a transfer will ask for is drawn when the model starts. *)
Init ==
  /\ LedgerInit
  /\ home = Birth
  /\ health = [p \in Person |-> "HEALTHY"]
  /\ journey = [p \in Person |-> <<>>]
  /\ status = [i \in TransferId |-> "NONE"]
  /\ plan \in [TransferId -> Proposal]
  /\ date = [i \in TransferId |-> "none"]
  /\ bySource = [i \in TransferId |-> None]
  /\ byTarget = [i \in TransferId |-> None]
  /\ moved = [i \in TransferId |-> 0]
  /\ call = [h \in Call |-> Idle]
  /\ contested = {}

-----------------------------------------------------------------------------
(* The calls that have read transfer i and not ended. *)
Holders(i) == {h \in Call : call[h].of = i}

(***************************************************************************)
(* A completion holds the rows it writes from its first update to its end. *)
(***************************************************************************)
Writes(i) == Range(Movement(plan[i]).order)

Holding(h) == call[h].step \in {"people", "commit"}

Locked(r) == \E h \in Call : Holding(h) /\ r \in Writes(call[h].of)

(* completeTransfer's rule: rations for every person who travels. *)
Provisioned(i) ==
  plan[i].people # {} =>
    /\ Ration \in Range(plan[i].items)
    /\ plan[i].amount[Ration] >= Cardinality(plan[i].people) * RationsPerPerson

(* Call h has read transfer i, and its checks have passed. *)
Proceed(h, i, next) ==
  /\ call[h] = Idle
  /\ call' = [call EXCEPT ![h] = next]
  /\ contested' = IF Holders(i) # {} THEN contested \cup {i} ELSE contested
  /\ UNCHANGED <<stock, ledger, home, health, journey, status, plan, date,
                 bySource, byTarget, moved>>

Advance(h, step) ==
  /\ call' = [call EXCEPT ![h].step = step]
  /\ UNCHANGED <<stock, ledger, home, health, journey, status, plan, date,
                 bySource, byTarget, moved, contested>>

Answer(h) == call' = [call EXCEPT ![h] = Idle]

(* An error or a lost connection: the transaction leaves nothing behind. *)
Abort(h) ==
  /\ Answer(h)
  /\ UNCHANGED <<stock, ledger, home, health, journey, status, plan, date,
                 bySource, byTarget, moved, contested>>

-----------------------------------------------------------------------------
(* ensurePeopleExistInSourceCamp: they are of the source camp and HEALTHY. *)
MayTravel(x) == \A p \in x.people : home[p] = x.from /\ health[p] = "HEALTHY"

(***************************************************************************)
(* createTransfer, by a user of the requesting camp; the leader is one of  *)
(* the people.                                                             *)
(***************************************************************************)
CreateTransfer(i, d) ==
  /\ status[i] = "NONE"
  /\ MayTravel(plan[i])
  /\ status' = [status EXCEPT ![i] = "PENDING"]
  /\ date' = [date EXCEPT ![i] = d]
  /\ UNCHANGED <<stock, ledger, home, health, journey, plan, bySource, byTarget,
                 moved, call, contested>>

ReadForSchedule(h, i, c) ==
  /\ status[i] \in Open
  /\ c = plan[i].from
  /\ Proceed(h, i, [Idle EXCEPT !.step = "schedule", !.of = i, !.by = c])

(* The date given with the approval, or else the one the transfer has. *)
ReadForSource(h, i, c, d) ==
  /\ status[i] = "PENDING"
  /\ c = plan[i].from
  /\ LET effective == IF d = "none" THEN date[i] ELSE d IN
     /\ effective = "ahead"
     /\ Proceed(h, i, [Idle EXCEPT !.step = "approveSource", !.of = i, !.by = c,
                                   !.date = effective])

(* Mutant of ReadForTarget: a user of either camp may approve. *)
ReadForEither(h, i, c) ==
  /\ status[i] = "APPROVED_SOURCE"
  /\ c \in {plan[i].from, plan[i].to}
  /\ date[i] = "ahead"
  /\ Proceed(h, i, [Idle EXCEPT !.step = "approveTarget", !.of = i, !.by = c])

ReadForTarget(h, i, c) ==
  /\ status[i] = "APPROVED_SOURCE"
  /\ c = plan[i].to
  /\ date[i] = "ahead"
  /\ Proceed(h, i, [Idle EXCEPT !.step = "approveTarget", !.of = i, !.by = c])

ReadForReject(h, i, c) ==
  /\ status[i] \in Open
  /\ c \in {plan[i].from, plan[i].to}
  /\ Proceed(h, i, [Idle EXCEPT !.step = "reject", !.of = i, !.by = c])

(* Mutant of ReadForComplete: one approval is enough. *)
ReadForCompleteEarly(h, i, c, s) ==
  /\ status[i] \in {"APPROVED_SOURCE", "APPROVED_TARGET"}
  /\ c \in {plan[i].from, plan[i].to}
  /\ Provisioned(i)
  /\ Proceed(h, i, [Idle EXCEPT !.step = "take", !.of = i, !.by = c, !.health = s])

(* person_status, in the request, is what the travellers will be. *)
ReadForComplete(h, i, c, s) ==
  /\ status[i] = "APPROVED_TARGET"
  /\ c \in {plan[i].from, plan[i].to}
  /\ Provisioned(i)
  /\ Proceed(h, i, [Idle EXCEPT !.step = "take", !.of = i, !.by = c, !.health = s])

-----------------------------------------------------------------------------
(* The updates by id that end a call. *)

Schedule(h) ==
  /\ call[h].step = "schedule"
  /\ date' = [date EXCEPT ![call[h].of] = "ahead"]
  /\ Answer(h)
  /\ UNCHANGED <<stock, ledger, home, health, journey, status, plan, bySource,
                 byTarget, moved, contested>>

ApproveSource(h) ==
  /\ call[h].step = "approveSource"
  /\ status' = [status EXCEPT ![call[h].of] = "APPROVED_SOURCE"]
  /\ bySource' = [bySource EXCEPT ![call[h].of] = call[h].by]
  /\ date' = [date EXCEPT ![call[h].of] = call[h].date]
  /\ Answer(h)
  /\ UNCHANGED <<stock, ledger, home, health, journey, plan, byTarget, moved, contested>>

ApproveTarget(h) ==
  /\ call[h].step = "approveTarget"
  /\ status' = [status EXCEPT ![call[h].of] = "APPROVED_TARGET"]
  /\ byTarget' = [byTarget EXCEPT ![call[h].of] = call[h].by]
  /\ Answer(h)
  /\ UNCHANGED <<stock, ledger, home, health, journey, plan, date, bySource, moved, contested>>

Reject(h) ==
  /\ call[h].step = "reject"
  /\ status' = [status EXCEPT ![call[h].of] = "REJECTED"]
  /\ Answer(h)
  /\ UNCHANGED <<stock, ledger, home, health, journey, plan, date, bySource,
                 byTarget, moved, contested>>

-----------------------------------------------------------------------------
(* completeTransfer, after its checks. *)

(* applyResourceTransfer: refused, or the rows are written and locked. *)
TakeResources(h) ==
  /\ call[h].step = "take"
  /\ \A r \in Writes(call[h].of) : ~Locked(r)
  /\ IF Affordable(Movement(plan[call[h].of])) THEN Advance(h, "people") ELSE Abort(h)

(* Mutant of CheckPeople: the people were of the camp when it was planned. *)
TrustPeople(h) == call[h].step = "people" /\ Advance(h, "commit")

(* applyPeopleTransfer reads the people: all must still be in the source. *)
CheckPeople(h) ==
  /\ call[h].step = "people"
  /\ IF \A p \in plan[call[h].of].people : home[p] = plan[call[h].of].from
     THEN Advance(h, "commit") ELSE Abort(h)

(* Their updates and logs, the transfer's own update, and COMMIT. *)
Complete(h) ==
  LET i == call[h].of
      x == plan[i] IN
  /\ call[h].step = "commit"
  /\ Apply(Movement(x))
  /\ home' = [p \in Person |-> IF p \in x.people THEN x.to ELSE home[p]]
  /\ health' = [p \in Person |-> IF p \in x.people THEN call[h].health ELSE health[p]]
  /\ journey' = [p \in Person |->
                   IF p \in x.people
                   THEN Append(journey[p], [transfer |-> i, from |-> x.from, to |-> x.to])
                   ELSE journey[p]]
  /\ status' = [status EXCEPT ![i] = "COMPLETED"]
  /\ moved' = [moved EXCEPT ![i] = @ + 1]
  /\ Answer(h)
  /\ UNCHANGED <<plan, date, bySource, byTarget, contested>>

(* Timeout, deadlock victim, lost connection: before any step. *)
Fail(h) == call[h].step # "idle" /\ Abort(h)

-----------------------------------------------------------------------------
(* The rest of the system, as far as it touches what is used here. *)

(* Jobs, adjustments and expeditions move stock nobody has locked. *)
OtherTraffic ==
  /\ \E o \in Workload :
       /\ o.type # "TRANSFER"
       /\ \A r \in Range(o.order) : ~Locked(r)
       /\ Apply(o)
  /\ UNCHANGED <<home, health, journey, status, plan, date, bySource, byTarget,
                 moved, call, contested>>

(* People fall ill, leave on expeditions, die. *)
ChangeHealth(p, s) ==
  /\ health[p] # s
  /\ health' = [health EXCEPT ![p] = s]
  /\ UNCHANGED <<stock, ledger, home, journey, status, plan, date, bySource,
                 byTarget, moved, call, contested>>

DatePasses(i) ==
  /\ date[i] = "ahead"
  /\ date' = [date EXCEPT ![i] = "past"]
  /\ UNCHANGED <<stock, ledger, home, health, journey, status, plan, bySource,
                 byTarget, moved, call, contested>>

Reads(h, i, c) ==
  \/ ReadForSchedule(h, i, c)
  \/ \E d \in Date : ReadForSource(h, i, c, d)
  \/ ReadForTarget(h, i, c)
  \/ ReadForReject(h, i, c)
  \/ \E s \in Status : ReadForComplete(h, i, c, s)

Continue(h) ==
  \/ Schedule(h)
  \/ ApproveSource(h)
  \/ ApproveTarget(h)
  \/ Reject(h)
  \/ TakeResources(h)
  \/ CheckPeople(h)
  \/ Complete(h)

Next ==
  \/ \E i \in TransferId, d \in {"none", "ahead"} : CreateTransfer(i, d)
  \/ \E h \in Call, i \in TransferId, c \in Camp : Reads(h, i, c)
  \/ \E h \in Call : Continue(h) \/ Fail(h)
  \/ OtherTraffic
  \/ \E p \in Person, s \in Status : ChangeHealth(p, s)
  \/ \E i \in TransferId : DatePasses(i)

Spec == Init /\ [][Next]_vars

-----------------------------------------------------------------------------
TransferLogs(i, p) == Cardinality({k \in DOMAIN journey[p] : journey[p][k].transfer = i})

(***************************************************************************)
(* A completion is all or nothing across tables: every movement of stock   *)
(* that transfer i has logged went with one move of each of its people,    *)
(* and only after both camps had approved.                                 *)
(***************************************************************************)
MovesTogether ==
  \A i \in TransferId :
    /\ \A p \in Person : TransferLogs(i, p) = IF p \in plan[i].people THEN moved[i] ELSE 0
    /\ moved[i] > 0 => bySource[i] = plan[i].from /\ byTarget[i] = plan[i].to

(***************************************************************************)
(* The transfer logs of a person are a journey: it starts where the person *)
(* was admitted, each leg starts where the one before ended, and it ends   *)
(* where the person now is.  Completions that race cannot move a person    *)
(* from a camp the person is not in.                                       *)
(***************************************************************************)
JourneysConnect ==
  \A p \in Person :
    LET legs == journey[p] IN
    /\ home[p] = IF legs = <<>> THEN Birth[p] ELSE legs[Len(legs)].to
    /\ \A k \in DOMAIN legs :
         legs[k].from = IF k = 1 THEN Birth[p] ELSE legs[k - 1].to

(***************************************************************************)
(* A transfer whose calls never overlapped moves its resources and people  *)
(* exactly once if it is completed, and never otherwise.                   *)
(***************************************************************************)
CompletedOnce ==
  \A i \in TransferId \ contested : moved[i] = IF status[i] = "COMPLETED" THEN 1 ELSE 0

(* A call that has read a transfer nobody contests may rely on its status. *)
ReadStillTrue ==
  \A h \in Call : call[h].of # None /\ call[h].of \notin contested =>
    /\ Holders(call[h].of) = {h}
    /\ status[call[h].of] \in Open
    /\ call[h].step = "approveSource" => status[call[h].of] = "PENDING"
    /\ call[h].step = "approveTarget" => status[call[h].of] = "APPROVED_SOURCE"
    /\ call[h].step \in {"take", "people", "commit"} => status[call[h].of] = "APPROVED_TARGET"

(* Rows that a completion holds stay as affordable as it found them. *)
LockedAffordable == \A h \in Call : Holding(h) => Affordable(Movement(plan[call[h].of]))

(* No two completions hold a row, and who holds nothing has read nothing. *)
HeldApart ==
  /\ \A h \in Call : call[h].of = None <=> call[h].step = "idle"
  /\ \A g, h \in Call : Holding(g) /\ Holding(h) /\ g # h =>
       Writes(call[g].of) \cap Writes(call[h].of) = {}

(***************************************************************************)
(* Approvals are of the camps they stand for, and are never taken back:    *)
(* what a call has found approved stays so, whatever becomes of the status.*)
(***************************************************************************)
ApprovalsStand ==
  /\ \A i \in TransferId :
       /\ status[i] \in {"APPROVED_SOURCE", "APPROVED_TARGET"} => bySource[i] = plan[i].from
       /\ status[i] = "APPROVED_TARGET" => byTarget[i] = plan[i].to
  /\ \A h \in Call :
       LET x == plan[call[h].of] IN
       /\ call[h].step = "approveSource" => call[h].by = x.from
       /\ call[h].step = "approveTarget" => call[h].by = x.to
       /\ call[h].step \in {"approveTarget", "take"} \/ Holding(h) =>
            bySource[call[h].of] = x.from
       /\ call[h].step = "take" \/ Holding(h) => byTarget[call[h].of] = x.to

(***************************************************************************)
(* The people of a completion that is about to commit are still where it   *)
(* found them: who would move one takes rations from the same row.         *)
(***************************************************************************)
TravellersStay ==
  \A h \in Call :
    LET x == plan[call[h].of] IN
    /\ call[h].step = "take" \/ Holding(h) => Provisioned(call[h].of)
    /\ call[h].step = "commit" => \A p \in x.people : home[p] = x.from

TransferInv ==
  /\ TypeOK /\ ReadStillTrue /\ LockedAffordable /\ CompletedOnce
  /\ HeldApart /\ ApprovalsStand /\ TravellersStay
=============================================================================
