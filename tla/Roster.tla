------------------------------- MODULE Roster -------------------------------
(***************************************************************************)
(* The row of a person and the logs kept beside it.  people.service.ts     *)
(* admits, updates and deletes people, logs a change of status, reassigns  *)
(* a profession; a transfer moves a person and an expedition changes the   *)
(* status of its members (Transfers and Expeditions say when).             *)
(*                                                                         *)
(* Each of them reads the person, decides, and then updates the row by id  *)
(* without looking again.  At READ COMMITTED the calls of others commit in *)
(* between, so that a call is two steps here, and updatePerson three: its  *)
(* check of the camp is outside its transaction.  A call handles one       *)
(* person; those that handle several do so row by row.                     *)
(***************************************************************************)
EXTENDS Naturals, Sequences

CONSTANTS
  Person,      \* the rows of people
  Camp,        \* the rows of camps
  Status,      \* the values of persons_status in use
  Profession,  \* the rows of professions
  Call,        \* the HTTP requests that handle people, each used once
  None         \* a field the request leaves out

ASSUME RosterAssumption ==
  /\ {"HEALTHY", "DEAD"} \subseteq Status
  /\ None \notin Camp \cup Status \cup Profession \cup Person
  /\ None \notin [camp : Camp, status : Status]

VARIABLES
  admitted,    \* admitted[p]: camp and status p was created with, or None
  present,     \* the people whose row exists
  home,        \* home[p]: people.camp_id
  health,      \* health[p]: people.status
  profession,  \* profession[p]: people.profession_id
  statusLog,   \* statusLog[p]: p's rows of person_status_logs, in order
  journey,     \* journey[p]: p's rows of person_transfer_logs, in order
  reassigned,  \* reassigned[p]: p's rows of profession_reassignment_logs, in order
  listed,      \* people a transfer or an expedition lists
  call,        \* call[h]: what call h has read and does next
  contested    \* people whom two open calls have read at once (history)

row  == <<home, health, profession>>
logs == <<statusLog, journey, reassigned>>
vars == <<admitted, present, row, logs, listed, call, contested>>

Kind == {"update", "delete", "status", "reassign", "transfer", "member"}
End  == {"never", "ahead", "past"}   \* end_date: none, today or later, before today

New  == [step |-> "new", kind |-> "update", of |-> None, camp |-> None, to |-> None,
         status |-> None, profession |-> None, from |-> None, end |-> "never", seen |-> None]

(* What a call has read, been asked for, and does next. *)
Handling ==
  [step : {"new", "checked", "read", "done"}, kind : Kind, of : Person \cup {None},
   camp : Camp \cup {None}, to : Camp \cup {None}, status : Status \cup {None},
   profession : Profession \cup {None}, from : Profession \cup {None}, end : End,
   seen : Status \cup {None}]

TypeOK ==
  /\ admitted \in [Person -> [camp : Camp, status : Status] \cup {None}]
  /\ present \subseteq Person
  /\ home \in [Person -> Camp \cup {None}]
  /\ health \in [Person -> Status \cup {None}]
  /\ profession \in [Person -> Profession \cup {None}]
  /\ statusLog \in [Person -> Seq([old : Status, new : Status])]
  /\ journey \in [Person -> Seq([from : Camp, to : Camp])]
  /\ reassigned \in [Person -> Seq([from : Profession, to : Profession, end : End])]
  /\ listed \subseteq Person
  /\ call \in [Call -> Handling]
  /\ contested \subseteq Person

Init ==
  /\ admitted = [p \in Person |-> None]
  /\ present = {}
  /\ home = [p \in Person |-> None]
  /\ health = [p \in Person |-> None]
  /\ profession = [p \in Person |-> None]
  /\ statusLog = [p \in Person |-> <<>>]
  /\ journey = [p \in Person |-> <<>>]
  /\ reassigned = [p \in Person |-> <<>>]
  /\ listed = {}
  /\ call = [h \in Call |-> New]
  /\ contested = {}

-----------------------------------------------------------------------------
Open(h)    == call[h].step \in {"checked", "read"}
Holders(p) == {h \in Call : Open(h) /\ call[h].of = p}

(* The reassignments of p that are active: no end, or none that has passed. *)
Active(p) == {k \in DOMAIN reassigned[p] : reassigned[p][k].end # "past"}

(* Call h has read the row of p, and its checks have passed. *)
Proceed(h, p, next) ==
  /\ call[h] = New
  /\ p \in present
  /\ call' = [call EXCEPT ![h] = next]
  /\ contested' = IF Holders(p) # {} THEN contested \cup {p} ELSE contested
  /\ UNCHANGED <<admitted, present, row, logs>>

Answer(h) == call' = [call EXCEPT ![h].step = "done"]

Given(value, old) == IF value = None THEN old ELSE value

LogStatus(p, old, new) ==
  statusLog' = [statusLog EXCEPT ![p] = Append(@, [old |-> old, new |-> new])]

-----------------------------------------------------------------------------
(* createPerson: the id is new. *)
CreatePerson(p, c, s, f) ==
  /\ admitted[p] = None
  /\ admitted' = [admitted EXCEPT ![p] = [camp |-> c, status |-> s]]
  /\ present' = present \cup {p}
  /\ home' = [home EXCEPT ![p] = c]
  /\ health' = [health EXCEPT ![p] = s]
  /\ profession' = [profession EXCEPT ![p] = f]
  /\ UNCHANGED <<logs, listed, call, contested>>

(* Mutant of CheckForUpdate: the camp of the URL is not compared. *)
CheckAnyCamp(h, p, c, s, f) ==
  /\ Proceed(h, p, [New EXCEPT !.step = "checked", !.kind = "update", !.of = p, !.camp = c,
                               !.status = s, !.profession = f])
  /\ UNCHANGED listed

(* ensurePersonBelongsToCamp, before updatePerson's transaction opens. *)
CheckForUpdate(h, p, c, s, f) ==
  /\ home[p] = c
  /\ Proceed(h, p, [New EXCEPT !.step = "checked", !.kind = "update", !.of = p, !.camp = c,
                               !.status = s, !.profession = f])
  /\ UNCHANGED listed

(* updatePerson's transaction reads the status it will compare with. *)
ReadForUpdate(h) ==
  /\ call[h].step = "checked" /\ call[h].kind = "update"
  /\ call[h].of \in present
  /\ call' = [call EXCEPT ![h].step = "read", ![h].seen = health[call[h].of]]
  /\ UNCHANGED <<admitted, present, row, logs, listed, contested>>

CheckForDelete(h, p, c) ==
  /\ home[p] = c
  /\ Proceed(h, p, [New EXCEPT !.step = "checked", !.kind = "delete", !.of = p, !.camp = c])
  /\ UNCHANGED listed

(* createPersonStatusLog: a person of the camp, and a status that is new. *)
ReadForStatus(h, p, c, s) ==
  /\ home[p] = c
  /\ health[p] # s
  /\ Proceed(h, p, [New EXCEPT !.step = "read", !.kind = "status", !.of = p, !.camp = c,
                               !.status = s, !.seen = health[p]])
  /\ UNCHANGED listed

(* createProfessionReassignment: not dead, and no reassignment is active. *)
ReadForReassign(h, p, c, f, e) ==
  /\ home[p] = c
  /\ profession[p] # f
  /\ Active(p) = {}
  /\ health[p] # "DEAD"
  /\ Proceed(h, p, [New EXCEPT !.step = "read", !.kind = "reassign", !.of = p, !.camp = c,
                               !.profession = f, !.from = profession[p], !.end = e])
  /\ UNCHANGED listed

(* applyPeopleTransfer: the person is still in the source camp c. *)
ReadForTransfer(h, p, c, to, s) ==
  /\ home[p] = c /\ to # c
  /\ Proceed(h, p, [New EXCEPT !.step = "read", !.kind = "transfer", !.of = p, !.camp = c,
                               !.to = to, !.status = s, !.seen = health[p]])
  /\ listed' = listed \cup {p}

(* changeMemberStatus and its like: expeditions look at the status alone. *)
ReadForMember(h, p, s) ==
  /\ Proceed(h, p, [New EXCEPT !.step = "read", !.kind = "member", !.of = p,
                               !.status = s, !.seen = health[p]])
  /\ listed' = listed \cup {p}

-----------------------------------------------------------------------------
(* The updates by id that end a call; each fails if the row is gone. *)
Writes(h, kind) ==
  /\ call[h].step = "read" /\ call[h].kind = kind
  /\ call[h].of \in present
  /\ Answer(h)

(***************************************************************************)
(* updatePerson writes the camp of the URL whether or not the request has  *)
(* a camp, and logs a status that differs from the one it read.            *)
(***************************************************************************)
Update(h) ==
  LET x == call[h]
      p == call[h].of IN
  /\ Writes(h, "update")
  /\ home' = [home EXCEPT ![p] = x.camp]
  /\ health' = [health EXCEPT ![p] = Given(x.status, @)]
  /\ profession' = [profession EXCEPT ![p] = Given(x.profession, @)]
  /\ IF x.status \in {None, x.seen} THEN UNCHANGED statusLog
                                    ELSE LogStatus(p, x.seen, x.status)
  /\ UNCHANGED <<admitted, present, journey, reassigned, listed, contested>>

(***************************************************************************)
(* deletePerson: refused for who is on a transfer or an expedition, or has *)
(* been transferred (Restrict); the other logs go too (Cascade).           *)
(***************************************************************************)
Delete(h) ==
  LET p == call[h].of IN
  /\ call[h].step = "checked" /\ call[h].kind = "delete"
  /\ p \in present \ listed
  /\ present' = present \ {p}
  /\ statusLog' = [statusLog EXCEPT ![p] = <<>>]
  /\ reassigned' = [reassigned EXCEPT ![p] = <<>>]
  /\ Answer(h)
  /\ UNCHANGED <<admitted, row, journey, listed, contested>>

ChangeStatus(h) ==
  LET p == call[h].of IN
  /\ Writes(h, "status")
  /\ health' = [health EXCEPT ![p] = call[h].status]
  /\ LogStatus(p, call[h].seen, call[h].status)
  /\ UNCHANGED <<admitted, present, home, profession, journey, reassigned, listed, contested>>

Reassign(h) ==
  LET p == call[h].of IN
  /\ Writes(h, "reassign")
  /\ profession' = [profession EXCEPT ![p] = call[h].profession]
  /\ reassigned' = [reassigned EXCEPT ![p] =
       Append(@, [from |-> call[h].from, to |-> call[h].profession, end |-> call[h].end])]
  /\ UNCHANGED <<admitted, present, home, health, statusLog, journey, listed, contested>>

(* Mutant of Transfer: the new status of who travels is not logged. *)
TransferUnlogged(h) ==
  LET p == call[h].of IN
  /\ Writes(h, "transfer")
  /\ home' = [home EXCEPT ![p] = call[h].to]
  /\ health' = [health EXCEPT ![p] = call[h].status]
  /\ journey' = [journey EXCEPT ![p] = Append(@, [from |-> call[h].camp, to |-> call[h].to])]
  /\ UNCHANGED <<admitted, present, profession, statusLog, reassigned, listed, contested>>

Transfer(h) ==
  LET p == call[h].of IN
  /\ Writes(h, "transfer")
  /\ home' = [home EXCEPT ![p] = call[h].to]
  /\ health' = [health EXCEPT ![p] = call[h].status]
  /\ IF call[h].status = call[h].seen THEN UNCHANGED statusLog
                                      ELSE LogStatus(p, call[h].seen, call[h].status)
  /\ journey' = [journey EXCEPT ![p] = Append(@, [from |-> call[h].camp, to |-> call[h].to])]
  /\ UNCHANGED <<admitted, present, profession, reassigned, listed, contested>>

(* A member who already has the status is left alone. *)
Member(h) ==
  LET p == call[h].of IN
  /\ Writes(h, "member")
  /\ IF call[h].status = call[h].seen
     THEN UNCHANGED <<health, statusLog>>
     ELSE /\ health' = [health EXCEPT ![p] = call[h].status]
          /\ LogStatus(p, call[h].seen, call[h].status)
  /\ UNCHANGED <<admitted, present, home, profession, journey, reassigned, listed, contested>>

(* A row that is gone, a refusal, a timeout, a lost connection. *)
Fail(h) ==
  /\ Open(h)
  /\ Answer(h)
  /\ UNCHANGED <<admitted, present, row, logs, listed, contested>>

(* The last day of a reassignment passes; the profession stays. *)
ReassignmentEnds(p) ==
  /\ \E k \in DOMAIN reassigned[p] :
       /\ reassigned[p][k].end = "ahead"
       /\ reassigned' = [reassigned EXCEPT ![p][k].end = "past"]
  /\ UNCHANGED <<admitted, present, row, statusLog, journey, listed, call, contested>>

-----------------------------------------------------------------------------
Begin(h, p, c) ==
  \/ \E s \in Status \cup {None}, f \in Profession \cup {None} : CheckForUpdate(h, p, c, s, f)
  \/ CheckForDelete(h, p, c)
  \/ \E s \in Status : ReadForStatus(h, p, c, s)
  \/ \E f \in Profession, e \in End : ReadForReassign(h, p, c, f, e)
  \/ \E to \in Camp, s \in Status : ReadForTransfer(h, p, c, to, s)

Continue(h) ==
  \/ ReadForUpdate(h)
  \/ Update(h)
  \/ Delete(h)
  \/ ChangeStatus(h)
  \/ Reassign(h)
  \/ Transfer(h)
  \/ Member(h)
  \/ Fail(h)

Next ==
  \/ \E p \in Person, c \in Camp, s \in Status, f \in Profession : CreatePerson(p, c, s, f)
  \/ \E h \in Call, p \in Person, c \in Camp : Begin(h, p, c)
  \/ \E h \in Call, p \in Person, s \in Status : ReadForMember(h, p, s)
  \/ \E h \in Call : Continue(h)
  \/ \E p \in Person : ReassignmentEnds(p)

Spec == Init /\ [][Next]_vars

-----------------------------------------------------------------------------
(* The status logs of p lead from the status of admission to the row's. *)
StatusesConnect(p) ==
  LET log == statusLog[p] IN
  /\ health[p] = IF log = <<>> THEN admitted[p].status ELSE log[Len(log)].new
  /\ \A k \in DOMAIN log :
       log[k].old = IF k = 1 THEN admitted[p].status ELSE log[k - 1].new

(* The transfer logs of p lead from the camp of admission to the row's. *)
CampsConnect(p) ==
  LET legs == journey[p] IN
  /\ home[p] = IF legs = <<>> THEN admitted[p].camp ELSE legs[Len(legs)].to
  /\ \A k \in DOMAIN legs :
       legs[k].from = IF k = 1 THEN admitted[p].camp ELSE legs[k - 1].to

OneReassignment(p) == \A j, k \in Active(p) : j = k

Connected(p) == StatusesConnect(p) /\ CampsConnect(p) /\ OneReassignment(p)

(***************************************************************************)
(* The logs of a person whose calls never overlapped tell the whole story: *)
(* statuses and camps lead without a gap from admission to the row, and at *)
(* most one reassignment is active.                                        *)
(***************************************************************************)
HistoryConnects == \A p \in present \ contested : Connected(p)

(* What an open call, x, has read of its person is still so. *)
StillTrue(x) ==
  /\ x.of \in present
  /\ x.kind # "member" => home[x.of] = x.camp
  /\ x.step = "read" /\ x.kind # "reassign" => health[x.of] = x.seen
  /\ x.kind = "reassign" =>
       profession[x.of] = x.from /\ Active(x.of) = {} /\ health[x.of] # "DEAD"

(* As long as no other call has read the person too. *)
ReadStillTrue ==
  \A h \in Call : Open(h) /\ call[h].of \notin contested =>
    Holders(call[h].of) = {h} /\ StillTrue(call[h])

(* Who was never created has no row and no logs; a row has no empty field. *)
RowFilled(p) ==
  /\ admitted[p] = None =>
       p \notin present /\ statusLog[p] = <<>> /\ journey[p] = <<>> /\ reassigned[p] = <<>>
  /\ p \in present => home[p] \in Camp /\ health[p] \in Status /\ profession[p] \in Profession

RowsFilled == \A p \in Person : RowFilled(p)

(* An open call, x, has the fields that its next step writes. *)
Filled(x) ==
  /\ x.of \in Person
  /\ x.kind # "member" => x.camp \in Camp
  /\ x.kind \in {"status", "transfer", "member"} => x.status \in Status
  /\ x.step = "read" /\ x.kind # "reassign" => x.seen \in Status
  /\ x.kind = "reassign" => x.profession \in Profession /\ x.from \in Profession
  /\ x.kind = "transfer" => x.to \in Camp

CallsFilled == \A h \in Call : Open(h) => Filled(call[h])

RosterInv == TypeOK /\ RowsFilled /\ CallsFilled /\ ReadStillTrue /\ HistoryConnects

(* The camps and the statuses that the logs of p name. *)
NamedCamps(p)    == {admitted[p].camp} \cup {journey[p][k].to : k \in DOMAIN journey[p]}
NamedStatuses(p) == {admitted[p].status} \cup {statusLog[p][k].new : k \in DOMAIN statusLog[p]}

RowNamed(p) == home[p] \in NamedCamps(p) /\ health[p] \in NamedStatuses(p)

(* What an open call, x, may write back of a row that is still there. *)
ReadNamed(x) ==
  x.of \in present =>
    /\ x.kind # "member" => x.camp \in NamedCamps(x.of)
    /\ x.step = "read" /\ x.kind # "reassign" => x.seen \in NamedStatuses(x.of)

(***************************************************************************)
(* Overlapping calls may leave a gap in the logs, or put a person back     *)
(* where a transfer had taken the person from; but nobody is ever in a     *)
(* camp the logs do not name, or has a status they do not name, and no     *)
(* call is about to bring such a camp or status back.                      *)
(***************************************************************************)
LogsNameEverything ==
  /\ \A p \in present : RowNamed(p)
  /\ \A h \in Call : Open(h) => admitted[call[h].of] # None /\ ReadNamed(call[h])
=============================================================================
