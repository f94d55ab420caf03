------------------------- MODULE AdjustmentRequests -------------------------
(***************************************************************************)
(* inventory-adjustment-requests.service.ts: a worker asks for a manual    *)
(* adjustment of the stock of the own camp, a resource manager approves or *)
(* rejects it.                                                             *)
(*                                                                         *)
(* A review reads the request (and the reviewer) before its transaction    *)
(* opens; the transaction writes the decision without looking again.  Two  *)
(* reviews may therefore both have found the request pending.  Inside the  *)
(* transaction the stock moves as InventoryLedger says, which is what      *)
(* InventoryTransactions implements.                                       *)
(***************************************************************************)
EXTENDS InventoryLedger

CONSTANTS
  Request,   \* the rows of inventory_adjustment_requests
  Review,    \* the HTTP requests that approve or reject
  Asked      \* the adjustments workers ask for

ASSUME AskedAssumption == Asked \subseteq Adjustments /\ Asked \subseteq Workload

ASSUME ReviewAssumption == IsFiniteSet(Review)

VARIABLES
  status,     \* status[q]: the column, or "NONE" before the row exists
  asked,      \* asked[q]: the movement the request asks for
  moved,      \* moved[q]: inventory_logs rows that name request q
  review,     \* review[v]: what review v is about to write
  contested   \* requests that two reviews have found pending at once (history)

vars == <<stock, ledger, status, asked, moved, review, contested>>

Decision == {"APPROVED", "REJECTED"}
Nothing  == [decision |-> "NONE"]
Idle     == [type |-> "MANUAL_IN", order |-> <<>>, delta |-> NoChange]

Reviewing == [decision : Decision, of : Request]

TypeOK ==
  /\ stock \in [Row -> Int]
  /\ ledger \in [Row -> Int]
  /\ status \in [Request -> {"NONE", "PENDING"} \cup Decision]
  /\ asked \in [Request -> Asked \cup {Idle}]
  /\ moved \in [Request -> Nat]
  /\ review \in [Review -> {Nothing} \cup Reviewing]
  /\ contested \subseteq Request

Init ==
  /\ LedgerInit
  /\ status = [q \in Request |-> "NONE"]
  /\ asked = [q \in Request |-> Idle]
  /\ moved = [q \in Request |-> 0]
  /\ review = [v \in Review |-> Nothing]
  /\ contested = {}

CampOf(q) == asked[q].order[1][1]

(* The reviews that have found q pending and not finished. *)
Holders(q) == {v \in Review : review[v] # Nothing /\ review[v].of = q}

-----------------------------------------------------------------------------
(* createRequest, by a user of camp c: only for the own camp. *)
Submit(q, c) ==
  /\ status[q] = "NONE"
  /\ \E o \in Asked :
       /\ o.order[1][1] = c
       /\ asked' = [asked EXCEPT ![q] = o]
  /\ status' = [status EXCEPT ![q] = "PENDING"]
  /\ UNCHANGED <<stock, ledger, moved, review, contested>>

(* Mutant of Read: the status is not looked at. *)
ReadDecided(v, q, c, decision) ==
  /\ review[v] = Nothing
  /\ status[q] # "NONE"
  /\ c = CampOf(q)
  /\ review' = [review EXCEPT ![v] = [decision |-> decision, of |-> q]]
  /\ contested' = IF Holders(q) # {} THEN contested \cup {q} ELSE contested
  /\ UNCHANGED <<stock, ledger, status, asked, moved>>

(***************************************************************************)
(* The reads of approveRequest and rejectRequest: the request is pending   *)
(* and the reviewer, of camp c, belongs to its camp.  Every other request  *)
(* is answered with an error and changes nothing.                          *)
(***************************************************************************)
Read(v, q, c, decision) ==
  /\ review[v] = Nothing
  /\ status[q] = "PENDING"
  /\ c = CampOf(q)
  /\ review' = [review EXCEPT ![v] = [decision |-> decision, of |-> q]]
  /\ contested' = IF Holders(q) # {} THEN contested \cup {q} ELSE contested
  /\ UNCHANGED <<stock, ledger, status, asked, moved>>

(* Mutant of Answer: the answer is lost and the call is made again. *)
AnswerLost(v) == \E again \in {Nothing, review[v]} : review' = [review EXCEPT ![v] = again]

Answer(v) == review' = [review EXCEPT ![v] = Nothing]

(* approveRequest's transaction: the status, the stock and its log row. *)
Approve(v) ==
  /\ review[v] # Nothing
  /\ review[v].decision = "APPROVED"
  /\ Apply(asked[review[v].of])
  /\ status' = [status EXCEPT ![review[v].of] = "APPROVED"]
  /\ moved' = [moved EXCEPT ![review[v].of] = @ + 1]
  /\ Answer(v)
  /\ UNCHANGED <<asked, contested>>

(* Mutant of ApproveRefused: the status was written outside the transaction. *)
ApproveHalf(v) ==
  /\ review[v] # Nothing
  /\ review[v].decision = "APPROVED"
  /\ ~Affordable(asked[review[v].of])
  /\ status' = [status EXCEPT ![review[v].of] = "APPROVED"]
  /\ Answer(v)
  /\ UNCHANGED <<stock, ledger, asked, moved, contested>>

(* "Insufficient inventory": the status it had written is rolled back too. *)
ApproveRefused(v) ==
  /\ review[v] # Nothing
  /\ review[v].decision = "APPROVED"
  /\ ~Affordable(asked[review[v].of])
  /\ Answer(v)
  /\ UNCHANGED <<stock, ledger, status, asked, moved, contested>>

(* rejectRequest's single update. *)
Reject(v) ==
  /\ review[v] # Nothing
  /\ review[v].decision = "REJECTED"
  /\ status' = [status EXCEPT ![review[v].of] = "REJECTED"]
  /\ Answer(v)
  /\ UNCHANGED <<stock, ledger, asked, moved, contested>>

(* The process or the connection dies before the write commits. *)
Abandon(v) ==
  /\ review[v] # Nothing
  /\ Answer(v)
  /\ UNCHANGED <<stock, ledger, status, asked, moved, contested>>

(* Jobs, transfers and expeditions move the same stock meanwhile. *)
OtherTraffic ==
  /\ \E o \in Workload \ Adjustments : Apply(o)
  /\ UNCHANGED <<status, asked, moved, review, contested>>

(* Every request has been decided and no review is open. *)
Quiet ==
  /\ \A q \in Request : status[q] \in Decision
  /\ \A v \in Review : review[v] = Nothing
  /\ UNCHANGED vars

Next ==
  \/ \E q \in Request, c \in Camp : Submit(q, c)
  \/ \E v \in Review, q \in Request, c \in Camp, decision \in Decision :
       Read(v, q, c, decision)
  \/ \E v \in Review : Approve(v) \/ ApproveRefused(v) \/ Reject(v) \/ Abandon(v)
  \/ OtherTraffic
  \/ Quiet

Spec == Init /\ [][Next]_vars

-----------------------------------------------------------------------------
(***************************************************************************)
(* A request that no two reviews found pending at once has moved the stock *)
(* exactly once if it is approved and never otherwise, however often its   *)
(* reviews were refused, abandoned or retried before.                      *)
(***************************************************************************)
MovedOnceIfApproved ==
  \A q \in Request \ contested : moved[q] = IF status[q] = "APPROVED" THEN 1 ELSE 0

(***************************************************************************)
(* Even when reviews overlap, an approved request has moved the stock at   *)
(* least once, one still pending not at all, and all the movements it has  *)
(* made or can still make are those of the reviews that read it pending.   *)
(***************************************************************************)
MovementsHaveReviews ==
  \A q \in Request :
    /\ status[q] = "APPROVED" => moved[q] > 0
    /\ status[q] \in {"NONE", "PENDING"} => moved[q] = 0
    /\ moved[q] + Cardinality(Holders(q)) <= Cardinality(Review)

(* What the inductive invariant needs beyond the two properties above. *)
ReviewsOfRequests ==
  \A q \in Request : \A v \in Holders(q) :
    /\ status[q] # "NONE"
    /\ q \notin contested => status[q] = "PENDING" /\ Holders(q) = {v}

RequestsAsked == \A q \in Request : status[q] # "NONE" => asked[q] \in Asked

ReviewInv == TypeOK /\ ReviewsOfRequests /\ RequestsAsked /\ MovedOnceIfApproved
=============================================================================
