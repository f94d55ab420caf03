----------------------------- MODULE Admission -----------------------------
(***************************************************************************)
(* admission.service.ts, with the createPerson of people.service.ts it     *)
(* calls, and the connection pool of lib/prisma.ts.                        *)
(*                                                                         *)
(* An acceptance is one transaction: it writes the admission, whose row it *)
(* then holds, takes the number after the last identification code,        *)
(* creates the person and links it.  createPerson checks the camp and the  *)
(* profession outside of that transaction, so a call that holds one        *)
(* connection of the pool needs another one.                               *)
(*                                                                         *)
(* Codes are numbered for each prefix apart: this is one prefix.  A person *)
(* is known here by the code, which is unique and stays (updatePerson,     *)
(* which may change it, is in Roster).                                     *)
(***************************************************************************)
EXTENDS Integers, FiniteSets

CONSTANTS
  AdmissionId,  \* the rows of admission_requests
  Request,      \* the HTTP requests that are being handled
  Pool,         \* the sizes the pool of connections may have
  Radix,        \* how many digits there are
  Full,         \* the first number with more digits than padStart fills up to
  MaxCode,      \* bound: the greatest number in use
  ByHand,       \* bound: the codes people are created with by hand
  NoAdmission   \* no admission

ASSUME AdmissionAssumption ==
  /\ Pool \subseteq Nat \ {0}
  /\ Radix \in Nat \ {0, 1} /\ Full \in Nat \ {0}
  /\ MaxCode \in Nat \ {0} /\ MaxCode < Full * Radix
  /\ ByHand \subseteq 1 .. MaxCode + 1
  /\ AdmissionId \subseteq Nat /\ NoAdmission \notin AdmissionId

VARIABLES
  final,    \* final[a]: final_decision, or "NONE" before the row exists
  person,   \* person[a]: the code of the person_id, or 0
  people,   \* the codes of this prefix in people
  request,  \* request[h]: what call h has read and does next
  others,   \* codes of people who were created without an admission (history)
  parted,   \* admissions whose person has been deleted (history)
  pristine, \* nobody was created by hand or deleted so far (history)
  pool      \* max, the connections of the pool: it never changes

admissionVars == <<final, person, people, request, others, parted, pristine, pool>>

Odd      == MaxCode + 1  \* a code given by hand whose rest is not a number
Code     == 1 .. Odd
Decision == {"PENDING", "ACCEPTED", "REJECTED"}
InTx     == {"row", "code", "relations", "create", "commit"}

Idle == [step |-> "idle", of |-> NoAdmission, decision |-> "PENDING", code |-> 0]

AdmissionTypeOK ==
  /\ final \in [AdmissionId -> {"NONE"} \cup Decision]
  /\ person \in [AdmissionId -> {0} \cup Code]
  /\ people \subseteq Code
  /\ request \in [Request -> [step : {"idle", "insert", "begin"} \cup InTx,
                              of : AdmissionId \cup {NoAdmission}, decision : Decision,
                              code : {0} \cup Code]]
  /\ others \subseteq people
  /\ parted \subseteq AdmissionId
  /\ pristine \in BOOLEAN
  /\ pool \in Pool

AdmissionInit ==
  /\ final = [a \in AdmissionId |-> "NONE"]
  /\ person = [a \in AdmissionId |-> 0]
  /\ people = {}
  /\ request = [h \in Request |-> Idle]
  /\ others = {}
  /\ parted = {}
  /\ pristine = TRUE
  /\ pool \in Pool

-----------------------------------------------------------------------------
(* orderBy identification_code: digit by digit, then the shorter, then letters. *)
Rank(n) == IF n = Odd THEN 2 * Radix * Full ELSE IF n < Full THEN 2 * Radix * n ELSE 2 * n + 1

Last == CHOOSE n \in people : \A m \in people : Rank(m) <= Rank(n)

(* generateIdentificationCode; the bound stands in for a longer number. *)
NextCode == IF people = {} \/ Last = Odd THEN 1 ELSE IF Last = MaxCode THEN MaxCode ELSE Last + 1

Busy == {h \in Request : request[h].step \in InTx}
Free == pool - Cardinality(Busy)

(* The call that has written the row of an admission, or a code, and not ended. *)
Holds(h, a)  == request[h].of = a /\ request[h].step \in InTx \ {"row"}
Inserts(h, c) == request[h].code = c /\ request[h].step = "commit"

(* The ids are given in order. *)
Unused(a) == final[a] = "NONE" /\ \A h \in Request : request[h].of # a

Advance(h, step) == request' = [request EXCEPT ![h].step = step]
Reply(h)         == request' = [request EXCEPT ![h] = Idle]

-----------------------------------------------------------------------------
(* evaluateAdmission: an acceptance above AI_AUTO_ACCEPT_THRESHOLD, or anything else. *)
Verdict == BOOLEAN

(***************************************************************************)
(* createAdmission, evaluated by the AI or, if that fails, left PENDING: a *)
(* sure acceptance goes on to autoAcceptAdmission.                         *)
(***************************************************************************)
Evaluate(h, a, sure) ==
  /\ request[h] = Idle
  /\ Unused(a) /\ \A b \in AdmissionId : Unused(b) => a <= b
  /\ request' = [request EXCEPT ![h] =
                   IF sure THEN [Idle EXCEPT !.step = "begin", !.of = a, !.decision = "ACCEPTED"]
                           ELSE [Idle EXCEPT !.step = "insert", !.of = a]]
  /\ UNCHANGED <<final, person, people, others, parted, pristine, pool>>

Insert(h) ==
  /\ request[h].step = "insert"
  /\ Free > 0
  /\ final' = [final EXCEPT ![request[h].of] = "PENDING"]
  /\ Reply(h)
  /\ UNCHANGED <<person, people, others, parted, pristine, pool>>

(* reviewAdmission, of any admission, whatever was decided before. *)
Review(h, a, d) ==
  /\ request[h] = Idle
  /\ final[a] # "NONE"
  /\ request' = [request EXCEPT ![h] = [Idle EXCEPT !.step = "begin", !.of = a, !.decision = d]]
  /\ UNCHANGED <<final, person, people, others, parted, pristine, pool>>

(* $transaction takes a connection for as long as it is open. *)
BeginTx(h) ==
  /\ request[h].step = "begin"
  /\ Free > 0
  /\ Advance(h, "row")
  /\ UNCHANGED <<final, person, people, others, parted, pristine, pool>>

(* Mutant of Row: the admission is read, and locked by no update. *)
RowUnlocked(h) ==
  /\ request[h].step = "row"
  /\ Advance(h, IF request[h].decision = "ACCEPTED" /\ person[request[h].of] = 0
                THEN "code" ELSE "commit")
  /\ UNCHANGED <<final, person, people, others, parted, pristine, pool>>

(***************************************************************************)
(* The update of the admission waits for the transaction that has written  *)
(* it, and answers with the row as that one left it.                       *)
(***************************************************************************)
Row(h) ==
  LET a == request[h].of IN
  /\ request[h].step = "row"
  /\ \A g \in Request : ~Holds(g, a)
  /\ Advance(h, IF request[h].decision = "ACCEPTED" /\ person[a] = 0 THEN "code" ELSE "commit")
  /\ UNCHANGED <<final, person, people, others, parted, pristine, pool>>

ReadLast(h) ==
  /\ request[h].step = "code"
  /\ request' = [request EXCEPT ![h].step = "relations", ![h].code = NextCode]
  /\ UNCHANGED <<final, person, people, others, parted, pristine, pool>>

(* validateRelations asks the pool for a connection of its own. *)
CheckRelations(h) ==
  /\ request[h].step = "relations"
  /\ Free > 0
  /\ Advance(h, "create")
  /\ UNCHANGED <<final, person, people, others, parted, pristine, pool>>

(* Mutant of Create: the code is reserved before it is inserted. *)
CreateReserved(h) ==
  /\ request[h].step = "create"
  /\ \A g \in Request \ {h} : request[g].code # request[h].code
  /\ IF request[h].code \in people THEN Reply(h) ELSE Advance(h, "commit")
  /\ UNCHANGED <<final, person, people, others, parted, pristine, pool>>

(* Mutant of Create: a code that is taken is not waited for, the next is used. *)
CreateNextFree(h) ==
  LET taken == people \cup {request[g].code : g \in {k \in Request : request[k].step = "commit"}}
      free  == {c \in Code \ taken : c >= request[h].code} IN
  /\ request[h].step = "create"
  /\ IF free = {} THEN Reply(h)
     ELSE request' = [request EXCEPT ![h].step = "commit",
                                     ![h].code = CHOOSE c \in free : \A d \in free : c <= d]
  /\ UNCHANGED <<final, person, people, others, parted, pristine, pool>>

(***************************************************************************)
(* The unique index refuses a code that is there, and makes the insert     *)
(* wait for a transaction that has inserted it.  With a code that was      *)
(* given, createPerson does not try another one: the acceptance fails.     *)
(***************************************************************************)
Create(h) ==
  /\ request[h].step = "create"
  /\ \A g \in Request : ~Inserts(g, request[h].code)
  /\ IF request[h].code \in people THEN Reply(h) ELSE Advance(h, "commit")
  /\ UNCHANGED <<final, person, people, others, parted, pristine, pool>>

(* The person is linked, and the transaction commits. *)
Commit(h) ==
  LET a == request[h].of
      c == request[h].code IN
  /\ request[h].step = "commit"
  /\ final' = [final EXCEPT ![a] = request[h].decision]
  /\ IF c = 0 THEN UNCHANGED <<person, people>>
     ELSE person' = [person EXCEPT ![a] = c] /\ people' = people \cup {c}
  /\ Reply(h)
  /\ UNCHANGED <<others, parted, pristine, pool>>

(* Mutant of Expire: the transaction is started once more. *)
ExpireRetries(h) ==
  /\ request[h].step # "idle"
  /\ request' = [request EXCEPT ![h].step = IF @ = "insert" THEN @ ELSE "begin", ![h].code = 0]
  /\ UNCHANGED <<final, person, people, others, parted, pristine, pool>>

(***************************************************************************)
(* The transaction has been open for too long, or no connection came:      *)
(* PrismaClient gives up, whatever the call is waiting for.                *)
(***************************************************************************)
Expire(h) ==
  /\ request[h].step # "idle"
  /\ Reply(h)
  /\ UNCHANGED <<final, person, people, others, parted, pristine, pool>>

-----------------------------------------------------------------------------
(* createPerson on its own, with a code of this prefix in the request. *)
CreateByHand(c) ==
  /\ Free > 0
  /\ c \notin people /\ \A g \in Request : ~Inserts(g, c)
  /\ people' = people \cup {c}
  /\ others' = others \cup {c}
  /\ pristine' = FALSE
  /\ UNCHANGED <<final, person, request, parted, pool>>

(* deletePerson; the foreign key sets the person_id of the admission to null. *)
DeletePerson(c) ==
  LET of == {a \in AdmissionId : person[a] = c} IN
  /\ Free > 0
  /\ c \in people
  /\ \A g \in Request, a \in of : ~Holds(g, a)
  /\ people' = people \ {c}
  /\ others' = others \ {c}
  /\ person' = [a \in AdmissionId |-> IF a \in of THEN 0 ELSE person[a]]
  /\ parted' = parted \cup of
  /\ pristine' = FALSE
  /\ UNCHANGED <<final, request, pool>>

Resume(h) ==
  \/ Insert(h)
  \/ BeginTx(h)
  \/ Row(h)
  \/ ReadLast(h)
  \/ CheckRelations(h)
  \/ Create(h)
  \/ Commit(h)

AdmissionNext ==
  \/ \E h \in Request, a \in AdmissionId :
       \/ \E sure \in Verdict : Evaluate(h, a, sure)
       \/ \E d \in {"ACCEPTED", "REJECTED"} : Review(h, a, d)
  \/ \E h \in Request : Resume(h) \/ Expire(h)
  \/ \E c \in ByHand : CreateByHand(c)
  \/ \E c \in Code : DeletePerson(c)

AdmissionSpec == AdmissionInit /\ [][AdmissionNext]_admissionVars

(* The clock runs.  That calls go on, and in which order, is left open. *)
AdmissionFairness == \A h \in Request : WF_admissionVars(Expire(h))

AdmissionFairSpec == AdmissionSpec /\ AdmissionFairness

-----------------------------------------------------------------------------
(***************************************************************************)
(* Acceptance is all or nothing, however reviews of one admission overlap: *)
(* an accepted admission has a person (unless that person was deleted),    *)
(* nobody is the person of two, and nobody was created for an admission    *)
(* that does not lead there.                                               *)
(***************************************************************************)
Linked == {a \in AdmissionId : person[a] # 0}

OnePersonEach ==
  /\ \A a \in AdmissionId \ parted : final[a] = "ACCEPTED" => a \in Linked
  /\ \A a, b \in Linked : person[a] = person[b] => a = b
  /\ people = others \cup {person[a] : a \in Linked}
  /\ \A a \in Linked : person[a] \notin others

(* What an open acceptance relies on: the admission is its own, and without a person. *)
Acceptance(h) ==
  /\ request[h].of = NoAdmission <=> request[h] = Idle
  /\ request[h].step \in {"code", "relations", "create"} \/ request[h].code # 0 =>
       /\ person[request[h].of] = 0
       /\ request[h].decision = "ACCEPTED"
       /\ request[h].step \in InTx \ {"row"}
  /\ request[h].step = "commit" /\ request[h].decision = "ACCEPTED" =>
       request[h].code # 0 \/ person[request[h].of] # 0
  /\ request[h].step \in {"relations", "create"} => request[h].code # 0
  /\ request[h].step = "commit" /\ request[h].code # 0 => request[h].code \notin people

(* No two calls hold one admission, or have inserted one code. *)
Apart(g, h) ==
  /\ ~\E a \in AdmissionId : Holds(g, a) /\ Holds(h, a)
  /\ request[h].code # 0 => ~(Inserts(h, request[h].code) /\ Inserts(g, request[h].code))

OpenAcceptances ==
  /\ \A h \in Request : Acceptance(h)
  /\ \A g, h \in Request : g # h => Apart(g, h)

AdmissionInv == AdmissionTypeOK /\ OnePersonEach /\ OpenAcceptances

(***************************************************************************)
(* As long as codes only come from acceptances and nobody is deleted, they *)
(* are given without a gap, rollbacks and collisions included: what a call *)
(* has read is the next code, or one that is taken by now.                 *)
(***************************************************************************)
NumberedInOrder ==
  pristine =>
    /\ people = 1 .. Cardinality(people)
    /\ \A h \in Request : request[h].code <= Cardinality(people) + 1

(***************************************************************************)
(* Only the pool can make everyone wait: calls that wait for the row or    *)
(* the code of another one wait for one that can go on.                    *)
(***************************************************************************)
OnlyPoolBlocks ==
  (\E h \in Request : request[h] # Idle) /\ Free > 0 => \E h \in Request : ENABLED Resume(h)

(***************************************************************************)
(* Every call is answered: acceptances that hold all connections and wait  *)
(* for one more are not stuck for ever.                                    *)
(***************************************************************************)
EveryCallAnswered == \A h \in Request : request[h] # Idle ~> request[h] = Idle
=============================================================================
