---------------------------- MODULE Expeditions ----------------------------
(***************************************************************************)
(* explorations.service.ts: an expedition takes people and resources out   *)
(* of a camp and brings them back.  The allocated resources leave when it  *)
(* is created, even if it only starts later; what is not used, and what is *)
(* found, is credited when it returns.                                     *)
(*                                                                         *)
(* A change of status reads the expedition and checks the transition       *)
(* before its transaction opens.  The transaction reads the members        *)
(* without a lock, writes those who are not yet what they shall be, and    *)
(* writes stock and status at its end.  So two calls may both have found   *)
(* the same status, or have passed over a member whom another one changes  *)
(* before they commit.  A creation reads its members at the start of its   *)
(* transaction, and again if the expedition sets out at once.              *)
(***************************************************************************)
EXTENDS InventoryLedger

CONSTANTS
  Person,        \* the rows of people
  Status,        \* the values of persons_status in use
  Birth,         \* the camp each person was admitted to
  ExpeditionId,  \* the rows of expeditions
  Proposal,      \* the expeditions camps send out
  Call,          \* the HTTP requests that handle expeditions
  Finds,         \* bound: how much of a resource an expedition may find
  None           \* no expedition

(* items may be empty: an expedition may take nothing along. *)
ProposalType ==
  [camp : Camp, members : SUBSET Person, items : ItemLists \cup {<<>>},
   amount : [Resource -> Qty]]

ASSUME ExpeditionsAssumption ==
  /\ Proposal \subseteq ProposalType
  /\ \A x \in Proposal : x.items # <<>> => Outflow(x.camp, x.items, x.amount) \in Workload
  /\ {"HEALTHY", "AWAY"} \subseteq Status
  /\ Finds \subseteq Nat
  /\ Birth \in [Person -> Camp]
  /\ None \notin ExpeditionId

VARIABLES
  home,       \* home[p]: people.camp_id
  health,     \* health[p]: people.status
  status,     \* status[e]: expeditions.status, or "NONE" before the row exists
  plan,       \* plan[e]: the camp, members and resources of expedition e
  returns,    \* returns[e]: how often e has been switched to RETURNED
  credited,   \* credited[e][r]: allocated stock that came back, by inventory_logs
  recorded,   \* recorded[e][r]: the same by expedition_returned_resources
  call,       \* call[h]: what call h has read, and has written but not committed
  contested,  \* expeditions that two open calls have read at once (history)
  shared,     \* expeditions that were planned with the same people (history)
  meddled     \* people whose status was set by hand (history)

overlaps == <<contested, shared, meddled>>
vars     == <<stock, ledger, home, health, status, plan, returns, credited, recorded,
              call, overlaps>>

Terminal == {"RETURNED", "CANCELLED"}
Stages   == {"NONE", "PLANNED", "ONGOING"} \cup Terminal
Steps    == {"PLANNED", "ONGOING", "RETURNED", "CANCELLED", "DELETED"}

Amounts == 0 .. MaxQty
Nothing == [r \in Resource |-> 0]

(* todo: members to be looked at; due: to be written; target: what becomes of a person. *)
AsIs == [p \in Person |-> "as is"]
Idle == [step |-> "idle", of |-> None, create |-> FALSE, todo |-> {}, due |-> {}, target |-> AsIs]

CallType ==
  [step : {"idle"} \cup Steps, of : ExpeditionId \cup {None}, create : BOOLEAN,
   todo : SUBSET Person, due : SUBSET Person, target : [Person -> Status \cup {"as is"}]]

TypeOK ==
  /\ stock \in [Row -> Int]
  /\ ledger \in [Row -> Int]
  /\ home \in [Person -> Camp]
  /\ health \in [Person -> Status]
  /\ status \in [ExpeditionId -> Stages]
  /\ plan \in [ExpeditionId -> Proposal]
  /\ returns \in [ExpeditionId -> Nat]
  /\ credited \in [ExpeditionId -> [Resource -> Nat]]
  /\ recorded \in [ExpeditionId -> [Resource -> Nat]]
  /\ call \in [Call -> CallType]
  /\ contested \subseteq ExpeditionId
  /\ shared \subseteq ExpeditionId
  /\ meddled \subseteq Person

(* What an expedition will ask for is drawn when the model starts. *)
Init ==
  /\ LedgerInit
  /\ home = Birth
  /\ health = [p \in Person |-> "HEALTHY"]
  /\ status = [e \in ExpeditionId |-> "NONE"]
  /\ plan \in [ExpeditionId -> Proposal]
  /\ returns = [e \in ExpeditionId |-> 0]
  /\ credited = [e \in ExpeditionId |-> Nothing]
  /\ recorded = [e \in ExpeditionId |-> Nothing]
  /\ call = [h \in Call |-> Idle]
  /\ contested = {}
  /\ shared = {}
  /\ meddled = {}

-----------------------------------------------------------------------------
Holders(e) == {h \in Call : call[h].of = e}

(* The rows of people that call h has updated and not committed are locked. *)
Locked(h)   == {p \in Person : call[h].target[p] # "as is"} \ call[h].due
Unlocked(p) == \A h \in Call : p \notin Locked(h)

(* The amount of resource r that e took along; nothing, if not listed. *)
Allocated(e, r) == IF r \in Range(plan[e].items) THEN plan[e].amount[r] ELSE 0

(* Mutant of WithinAllocated: only the resource types are compared. *)
TypesAllocated(e, back) == \A r \in Resource : back[r] > 0 => r \in Range(plan[e].items)

(* What comes back was allocated, and no more than was allocated. *)
WithinAllocated(e, back) == \A r \in Resource : back[r] <= Allocated(e, r)

(* validateStatusTransition. *)
Transition ==
  {<<"PLANNED", "ONGOING">>, <<"PLANNED", "CANCELLED">>,
   <<"ONGOING", "RETURNED">>, <<"ONGOING", "CANCELLED">>}

(* The stock a call changes, if it changes any. *)
Credits(c, amount) ==
  LET listed == {r \in Resource : amount[r] > 0} IN
  IF listed = {} THEN UNCHANGED ledgerVars
  ELSE \E items \in ItemLists :
         /\ Range(items) = listed
         /\ Apply(Return(c, items, [r \in Resource |-> IF r \in listed THEN amount[r] ELSE 1]))

Answer(h) == call' = [call EXCEPT ![h] = Idle]

Abort(h) ==
  /\ Answer(h)
  /\ UNCHANGED <<stock, ledger, home, health, status, plan, returns, credited,
                 recorded, overlaps>>

Read(h, e, step, create) ==
  /\ call[h] = Idle
  /\ call' = [call EXCEPT ![h] =
                 [Idle EXCEPT !.step = step, !.of = e, !.create = create,
                              !.todo = IF step = "PLANNED" THEN {} ELSE plan[e].members]]
  /\ contested' = IF Holders(e) # {} THEN contested \cup {e} ELSE contested
  /\ UNCHANGED <<stock, ledger, home, health, status, plan, returns, credited, recorded,
                 meddled>>

-----------------------------------------------------------------------------
(***************************************************************************)
(* The expeditions that may yet set out with one of the members of e, for  *)
(* all that their status says, or have done so with members who need not   *)
(* be AWAY.                                                                *)
(***************************************************************************)
Rivals(e) ==
  {f \in ExpeditionId \ {e} :
     /\ plan[f].members \cap plan[e].members # {}
     /\ \/ Holders(f) # {} \/ status[f] = "PLANNED"
        \/ status[f] = "ONGOING" /\ f \in shared \cup contested}

Shares(e) ==
  shared' = IF Rivals(e) = {} THEN shared ELSE shared \cup Rivals(e) \cup {e}

(* Mutant of ReadMembers: whoever is of the camp may join. *)
ReadAnyMembers(h, e, stage) ==
  /\ status[e] = "NONE" /\ Holders(e) = {}
  /\ stage \in {"PLANNED", "ONGOING"}
  /\ \A p \in plan[e].members : home[p] = plan[e].camp
  /\ Shares(e)
  /\ Read(h, e, stage, TRUE)

(* createExploration: validateMembers, as PLANNED or as ONGOING. *)
ReadMembers(h, e, stage) ==
  /\ status[e] = "NONE" /\ Holders(e) = {}
  /\ stage \in {"PLANNED", "ONGOING"}
  /\ \A p \in plan[e].members : home[p] = plan[e].camp /\ health[p] = "HEALTHY"
  /\ Shares(e)
  /\ Read(h, e, stage, TRUE)

(* Mutant of ReadStatus: only a change to the same status is refused. *)
ReadOtherStatus(h, e, stage) ==
  /\ stage \in Stages \ {"NONE", "PLANNED"} /\ status[e] \notin {"NONE", stage}
  /\ Read(h, e, stage, FALSE)
  /\ UNCHANGED shared

(* updateExpeditionStatus: the status read allows the transition. *)
ReadStatus(h, e, stage) ==
  /\ <<status[e], stage>> \in Transition
  /\ Read(h, e, stage, FALSE)
  /\ UNCHANGED shared

(* Mutant of ReadForDelete: returned expeditions may be cancelled. *)
ReadReturnedForDelete(h, e) ==
  /\ status[e] \in {"PLANNED", "ONGOING", "RETURNED"}
  /\ Read(h, e, "DELETED", FALSE)
  /\ UNCHANGED shared

(* deleteExploration: neither returned nor already cancelled. *)
ReadForDelete(h, e) ==
  /\ status[e] \in {"PLANNED", "ONGOING"}
  /\ Read(h, e, "DELETED", FALSE)
  /\ UNCHANGED shared

-----------------------------------------------------------------------------
InTransaction(h, c) ==
  /\ call' = [call EXCEPT ![h] = c]
  /\ UNCHANGED <<stock, ledger, home, health, status, plan, returns, credited, recorded,
                 overlaps>>

(* changeMemberStatus reads all members at once; who is AWAY is passed over. *)
Look(h) ==
  LET c == call[h]
      due == {p \in c.todo : health[p] # "AWAY"} IN
  /\ c.step = "ONGOING" /\ c.todo # {}
  /\ InTransaction(h, [c EXCEPT !.todo = {}, !.due = due,
                                !.target = [p \in Person |-> IF p \in due THEN "AWAY" ELSE @[p]]])

(***************************************************************************)
(* The other changes read one member after the other, whom the request     *)
(* gives status s.  A cancellation leaves alone whom it does not mention;  *)
(* a return and DELETE make HEALTHY whom they do not mention.              *)
(***************************************************************************)
LookAt(h, p, s) ==
  LET c == call[h] IN
  /\ c.step \in {"RETURNED", "CANCELLED", "DELETED"}
  /\ p \in c.todo /\ c.due = {}
  /\ s = "as is" => c.step = "CANCELLED"
  /\ InTransaction(h, IF s \in {"as is", health[p]} THEN [c EXCEPT !.todo = @ \ {p}]
                      ELSE [c EXCEPT !.todo = @ \ {p}, !.due = {p}, !.target[p] = s])

(* The update of a row that nobody else has locked, and the entry of its log. *)
WriteMember(h, p) ==
  /\ p \in call[h].due
  /\ Unlocked(p)
  /\ InTransaction(h, [call[h] EXCEPT !.due = @ \ {p}])

(* Call h has done with the members. *)
MembersDone(h) == call[h].todo = {} /\ call[h].due = {}

(* The statuses it has written are committed. *)
CommitMembers(h) ==
  health' = [p \in Person |-> IF call[h].target[p] = "as is" THEN health[p]
                              ELSE call[h].target[p]]

(***************************************************************************)
(* createExploration's writes: the rows, the outflow, and the members AWAY *)
(* if the expedition starts at once.  Insufficient stock refuses it all.   *)
(***************************************************************************)
Create(h) ==
  LET e == call[h].of
      x == plan[e]
      out == Outflow(x.camp, x.items, x.amount) IN
  /\ call[h].create /\ MembersDone(h)
  /\ IF x.items # <<>> /\ ~Affordable(out)
     THEN Abort(h)
     ELSE /\ IF x.items = <<>> THEN UNCHANGED ledgerVars ELSE Apply(out)
          /\ status' = [status EXCEPT ![e] = call[h].step]
          /\ CommitMembers(h)
          /\ Answer(h)
          /\ UNCHANGED <<home, plan, returns, credited, recorded, overlaps>>

(* PATCH .../status to ONGOING, whoever the members are by now. *)
Start(h) ==
  /\ call[h].step = "ONGOING" /\ ~call[h].create /\ MembersDone(h)
  /\ status' = [status EXCEPT ![call[h].of] = "ONGOING"]
  /\ CommitMembers(h)
  /\ Answer(h)
  /\ UNCHANGED <<stock, ledger, home, plan, returns, credited, recorded, overlaps>>

(***************************************************************************)
(* PATCH .../status to RETURNED, with what is given back and what was      *)
(* found.  Each of the two credits the inventory; a resource in both is    *)
(* credited twice, in one transaction, which amounts to the sum.  The rows *)
(* of expedition_returned_resources are created unless they exist already. *)
(***************************************************************************)
ReturnHome(h, back, found) ==
  LET e == call[h].of IN
  /\ call[h].step = "RETURNED" /\ MembersDone(h)
  /\ IF ~WithinAllocated(e, back)
     THEN Abort(h)
     ELSE /\ Credits(plan[e].camp, [r \in Resource |-> back[r] + found[r]])
          /\ credited' = [credited EXCEPT ![e] = [r \in Resource |-> @[r] + back[r]]]
          /\ recorded' = [recorded EXCEPT ![e] =
                            [r \in Resource |-> IF @[r] > 0 THEN @[r] ELSE back[r]]]
          /\ returns' = [returns EXCEPT ![e] = @ + 1]
          /\ status' = [status EXCEPT ![e] = "RETURNED"]
          /\ CommitMembers(h)
          /\ Answer(h)
          /\ UNCHANGED <<home, plan, overlaps>>

(* PATCH .../status to CANCELLED, and DELETE. *)
Cancel(h) ==
  /\ call[h].step \in {"CANCELLED", "DELETED"} /\ MembersDone(h)
  /\ status' = [status EXCEPT ![call[h].of] = "CANCELLED"]
  /\ CommitMembers(h)
  /\ Answer(h)
  /\ UNCHANGED <<stock, ledger, home, plan, returns, credited, recorded, overlaps>>

(* A refused outcome, a timeout, a deadlock, a lost connection: nothing is written. *)
Fail(h) == call[h] # Idle /\ Abort(h)

-----------------------------------------------------------------------------
(* The rest of the system, as far as it touches what is used here. *)

OtherTraffic ==
  /\ \E o \in Workload : o.type \notin {"EXPEDITION_OUT", "EXPEDITION_IN"} /\ Apply(o)
  /\ UNCHANGED <<home, health, status, plan, returns, credited, recorded, call, overlaps>>

(* A change by hand, or by updatePerson. *)
ChangeHealth(p, s) ==
  /\ Unlocked(p)
  /\ health[p] # s
  /\ health' = [health EXCEPT ![p] = s]
  /\ meddled' = meddled \cup {p}
  /\ UNCHANGED <<stock, ledger, home, status, plan, returns, credited, recorded, call,
                 contested, shared>>

(* A completed transfer moves a person, and sets the status its request names. *)
MovePerson(p, c, s) ==
  /\ Unlocked(p)
  /\ home[p] # c
  /\ home' = [home EXCEPT ![p] = c]
  /\ health' = [health EXCEPT ![p] = s]
  /\ meddled' = IF health[p] = s THEN meddled ELSE meddled \cup {p}
  /\ UNCHANGED <<stock, ledger, status, plan, returns, credited, recorded, call,
                 contested, shared>>

Next ==
  \/ \E h \in Call, e \in ExpeditionId, stage \in Stages :
       ReadMembers(h, e, stage) \/ ReadStatus(h, e, stage)
  \/ \E h \in Call, e \in ExpeditionId : ReadForDelete(h, e)
  \/ \E h \in Call, p \in Person : \/ \E s \in Status \cup {"as is"} : LookAt(h, p, s)
                                 \/ WriteMember(h, p)
  \/ \E h \in Call : Look(h) \/ Create(h) \/ Start(h) \/ Cancel(h) \/ Fail(h)
  \/ \E h \in Call, back \in [Resource -> Amounts], found \in [Resource -> Finds] :
       ReturnHome(h, back, found)
  \/ OtherTraffic
  \/ \E p \in Person, s \in Status : ChangeHealth(p, s)
  \/ \E p \in Person, c \in Camp, s \in Status : MovePerson(p, c, s)

Spec == Init /\ [][Next]_vars

-----------------------------------------------------------------------------
(***************************************************************************)
(* An expedition whose calls never overlapped gives back at most what it   *)
(* took, only by returning, once; and expedition_returned_resources says   *)
(* of every resource what the inventory log says.                          *)
(***************************************************************************)
ReturnedOnce ==
  \A e \in ExpeditionId \ contested :
    /\ returns[e] = IF status[e] = "RETURNED" THEN 1 ELSE 0
    /\ \A r \in Resource : /\ credited[e][r] <= Allocated(e, r)
                           /\ recorded[e][r] = credited[e][r]

(***************************************************************************)
(* However its calls overlap, an expedition gives back at most what it     *)
(* took each time it returns, and records no more than it gave back.       *)
(***************************************************************************)
CreditsBounded ==
  \A e \in ExpeditionId, r \in Resource :
    /\ credited[e][r] <= returns[e] * Allocated(e, r)
    /\ recorded[e][r] <= credited[e][r] /\ recorded[e][r] <= Allocated(e, r)
    /\ credited[e][r] > 0 => recorded[e][r] > 0

(* What a call has read of an expedition nobody contests is still so. *)
ReadStillTrue ==
  \A h \in Call : call[h].of # None /\ call[h].of \notin contested =>
    LET e == call[h].of IN
    /\ Holders(e) = {h}
    /\ call[h].create => status[e] = "NONE"
    /\ ~call[h].create /\ call[h].step # "DELETED" => <<status[e], call[h].step>> \in Transition
    /\ call[h].step = "DELETED" => status[e] \in {"PLANNED", "ONGOING"}

(* A call that is open has an expedition; only creations write PLANNED. *)
CallsFit ==
  \A h \in Call :
    /\ call[h].step = "idle" => call[h] = Idle
    /\ call[h].of = None => call[h].step = "idle"
    /\ call[h].create => call[h].step \in {"PLANNED", "ONGOING"}
    /\ call[h].step = "PLANNED" => call[h].create

(* Expedition e may still write the statuses of its members. *)
Active(e) == Holders(e) # {} \/ status[e] \in {"PLANNED", "ONGOING"}

(* A call writes the members of its expedition only; one that starts sends them AWAY. *)
MembersFit(c) ==
  LET members == plan[c.of].members IN
  /\ c.todo \subseteq members
  /\ \A p \in c.due : c.target[p] # "as is"
  /\ \A p \in Person : c.target[p] # "as is" => p \in members
  /\ c.step = "ONGOING" => /\ c.todo \in {{}, members}
                          /\ \A p \in Person : c.target[p] \in {"as is", "AWAY"}

WritesMembers == \A h \in Call : call[h].step # "idle" => MembersFit(call[h])

(***************************************************************************)
(* Two expeditions that may both still write a person were planned with    *)
(* the same people, or the person's status was set otherwise.  For when    *)
(* the second of them read its members, whom the first had sent out was    *)
(* AWAY, or calls of the first overlapped.                                 *)
(***************************************************************************)
RivalsShare ==
  \A e, f \in ExpeditionId : e # f /\ Active(e) /\ Active(f) =>
    plan[e].members \cap plan[f].members \subseteq meddled \/ {e, f} \subseteq shared

(* The expeditions of which MembersAreAway speaks. *)
Undisturbed == ExpeditionId \ (shared \cup contested)

(* Whom the start of such an expedition has passed over is still AWAY. *)
Passed(c) ==
  c.of \in Undisturbed /\ c.step = "ONGOING" /\ c.todo = {} =>
    \A p \in plan[c.of].members \ meddled : c.target[p] = "AWAY" \/ health[p] = "AWAY"

PassedAreAway == \A h \in Call : Passed(call[h])

ExpeditionInv ==
  /\ TypeOK /\ CallsFit /\ WritesMembers /\ RivalsShare /\ PassedAreAway
  /\ ReadStillTrue /\ ReturnedOnce /\ CreditsBounded

(***************************************************************************)
(* "Only HEALTHY people can be assigned": nobody is out with two           *)
(* expeditions, so that who is out is AWAY until that expedition is over,  *)
(* whatever becomes of the others, contested ones included.  Excepted are  *)
(* people whose status is set by hand or by a transfer; expeditions two of *)
(* whose calls overlapped; and those that were planned, or were being      *)
(* created, with the same people, or with people of an excepted one.       *)
(***************************************************************************)
MembersAreAway ==
  \A e \in Undisturbed : \A p \in plan[e].members \ meddled :
    status[e] = "ONGOING" => health[p] = "AWAY"

(***************************************************************************)
(* While nobody contests an expedition, its status moves along the         *)
(* transitions of validateStatusTransition and stops at a terminal one.    *)
(***************************************************************************)
LegalUnlessContested ==
  [][\A e \in ExpeditionId \ contested' :
       status'[e] # status[e] /\ status[e] # "NONE" =>
         <<status[e], status'[e]>> \in Transition]_vars
=============================================================================
