-------------------------- MODULE AdjustmentProofs --------------------------
(***************************************************************************)
(* Theorems about AdjustmentRequests, for every set of requests, reviews,  *)
(* camps and adjustments, and after it about Achievements, which the       *)
(* approval of a request is one of the events of.                          *)
(*                                                                         *)
(* ReviewInv is inductive because a request that is not contested has at   *)
(* most one review holding it, and is still pending while that review      *)
(* does.                                                                   *)
(***************************************************************************)
EXTENDS AdjustmentRequests, Achievements, OperationProofs, FiniteSetTheorems

(* What is asked for is an operation the ledger can apply. *)
LEMMA AskedTyped ==
  ASSUME NEW o \in Asked
  PROVE  o \in Workload
  BY AskedAssumption

(* The invariant holds before anybody has asked for anything. *)
LEMMA ReviewInit == Init => ReviewInv
  <1> SUFFICES ASSUME Init PROVE ReviewInv
    OBVIOUS
  <1>1. stock \in [Row -> Int] /\ ledger \in [Row -> Int]
    BY DeploymentAssumption DEF Init, LedgerInit
  <1>2. TypeOK
    BY <1>1 DEF Init, TypeOK
  <1> QED
    BY <1>2 DEF Init, ReviewInv, ReviewsOfRequests, RequestsAsked, MovedOnceIfApproved, Holders

(* A new request has no review and has moved nothing. *)
LEMMA SubmitInv ==
  ASSUME ReviewInv, NEW q \in Request, NEW c \in Camp, Submit(q, c)
  PROVE  ReviewInv'
  <1>1. PICK o \in Asked : asked' = [asked EXCEPT ![q] = o]
    BY DEF Submit
  <1>2. TypeOK'
    BY <1>1 DEF ReviewInv, TypeOK, Submit
  <1>3. Holders(q) = {}
    BY DEF ReviewInv, ReviewsOfRequests, Submit
  <1>4. \A p \in Request : Holders(p)' = Holders(p)
    BY DEF Submit, Holders
  <1>5. ReviewsOfRequests'
    <2>1. \A p \in Request \ {q} : status'[p] = status[p]
      BY DEF ReviewInv, TypeOK, Submit
    <2>2. contested' = contested
      BY DEF Submit
    <2> QED
      BY <1>3, <1>4, <2>1, <2>2 DEF ReviewInv, ReviewsOfRequests
  <1>6. RequestsAsked' /\ MovedOnceIfApproved'
    BY <1>1 DEF ReviewInv, RequestsAsked, MovedOnceIfApproved, Submit, TypeOK, Decision
  <1> QED
    BY <1>2, <1>5, <1>6 DEF ReviewInv

(* The second review that finds a request pending makes it contested. *)
LEMMA ReadInv ==
  ASSUME ReviewInv, NEW v \in Review, NEW q \in Request, NEW c \in Camp,
         NEW decision \in Decision, Read(v, q, c, decision)
  PROVE  ReviewInv'
  <1>1. /\ review[v] = Nothing /\ status[q] = "PENDING"
        /\ review' = [review EXCEPT ![v] = [decision |-> decision, of |-> q]]
        /\ contested' = IF Holders(q) # {} THEN contested \cup {q} ELSE contested
        /\ UNCHANGED <<stock, ledger, status, asked, moved>>
    BY DEF Read
  <1>2. TypeOK'
    BY <1>1 DEF ReviewInv, TypeOK, Reviewing
  <1>3. review'[v] = [decision |-> decision, of |-> q]
          /\ \A u \in Review \ {v} : review'[u] = review[u]
    BY <1>1 DEF ReviewInv, TypeOK
  <1>4. review'[v] # Nothing /\ review'[v].of = q
    BY <1>3 DEF Nothing
  <1>5. Holders(q)' = Holders(q) \cup {v} /\ \A p \in Request \ {q} : Holders(p)' = Holders(p)
    BY <1>1, <1>3, <1>4 DEF Holders
  <1>6. ReviewsOfRequests'
    <2>1. q \notin contested' => Holders(q)' = {v} /\ q \notin contested
      BY <1>1, <1>5
    <2>2. \A p \in Request \ {q} : p \notin contested' => p \notin contested
      BY <1>1
    <2> QED
      BY <1>1, <1>5, <2>1, <2>2 DEF ReviewInv, ReviewsOfRequests
  <1>7. RequestsAsked' /\ MovedOnceIfApproved'
    BY <1>1 DEF ReviewInv, RequestsAsked, MovedOnceIfApproved
  <1> QED
    BY <1>2, <1>6, <1>7 DEF ReviewInv

(* A review that ends holds nothing any more. *)
LEMMA AnswerFacts ==
  ASSUME ReviewInv, NEW v \in Review, review[v] # Nothing, Answer(v)
  PROVE  /\ review' \in [Review -> {Nothing} \cup Reviewing]
         /\ review[v].of \in Request
         /\ review'[v] = Nothing
         /\ \A u \in Review \ {v} : review'[u] = review[u]
         /\ \A p \in Request : Holders(p)' = Holders(p) \ {v}
  <1>1. /\ review \in [Review -> {Nothing} \cup Reviewing]
        /\ review' = [review EXCEPT ![v] = Nothing]
    BY DEF ReviewInv, TypeOK, Answer
  <1>2. review[v] \in Reviewing
    BY <1>1
  <1> QED
    BY <1>1, <1>2 DEF Reviewing, Holders

(* Ending a review without writing: refused, or abandoned. *)
LEMMA EndInv ==
  ASSUME ReviewInv, NEW v \in Review, review[v] # Nothing, Answer(v),
         UNCHANGED <<stock, ledger, status, asked, moved, contested>>
  PROVE  ReviewInv'
  <1>1. TypeOK'
    BY AnswerFacts DEF ReviewInv, TypeOK
  <1>2. ReviewsOfRequests'
    BY AnswerFacts DEF ReviewInv, ReviewsOfRequests, Holders, TypeOK, Reviewing
  <1>3. RequestsAsked' /\ MovedOnceIfApproved'
    BY DEF ReviewInv, RequestsAsked, MovedOnceIfApproved
  <1> QED
    BY <1>1, <1>2, <1>3 DEF ReviewInv

(***************************************************************************)
(* Writing a decision: if the request is not contested this review is the  *)
(* only one that holds it, and it was pending and had moved nothing.       *)
(***************************************************************************)
LEMMA DecideInv ==
  ASSUME ReviewInv, NEW v \in Review, review[v] # Nothing, Answer(v),
         NEW d \in Decision,
         status' = [status EXCEPT ![review[v].of] = d],
         moved' = [moved EXCEPT ![review[v].of] = @ + (IF d = "APPROVED" THEN 1 ELSE 0)],
         stock' \in [Row -> Int], ledger' \in [Row -> Int],
         UNCHANGED <<asked, contested>>
  PROVE  ReviewInv'
  <1>1. PICK q \in Request : q = review[v].of
    BY AnswerFacts
  <1>2. /\ status'[q] = d /\ \A p \in Request \ {q} : status'[p] = status[p]
        /\ moved'[q] = moved[q] + (IF d = "APPROVED" THEN 1 ELSE 0)
        /\ \A p \in Request \ {q} : moved'[p] = moved[p]
    BY <1>1 DEF ReviewInv, TypeOK
  <1>3. TypeOK'
    BY <1>1, AnswerFacts DEF ReviewInv, TypeOK
  <1>4. q \notin contested => status[q] = "PENDING" /\ Holders(q) = {v} /\ moved[q] = 0
    BY <1>1 DEF ReviewInv, ReviewsOfRequests, MovedOnceIfApproved, Holders
  <1>5. ReviewsOfRequests'
    <2>1. \A p \in Request : Holders(p)' = Holders(p) \ {v}
      BY AnswerFacts
    <2>2. Holders(q)' = Holders(q) \ {v} /\ contested' = contested
      BY <1>1, <2>1
    <2>3. q \notin contested => Holders(q)' = {}
      BY <1>4, <2>2
    <2>4. ASSUME NEW p \in Request, NEW u \in Holders(p)', p = q
          PROVE  status'[p] # "NONE" /\ p \in contested'
      BY <1>2, <2>2, <2>3, <2>4 DEF Decision
    <2>5. ASSUME NEW p \in Request, NEW u \in Holders(p)', p # q
          PROVE  /\ status'[p] # "NONE"
                 /\ p \notin contested' => status'[p] = "PENDING" /\ Holders(p)' = {u}
      <3>1. u \in Holders(p) /\ u # v /\ status'[p] = status[p]
        BY <1>2, <2>1, <2>5
      <3>2. status[p] # "NONE" /\ (p \notin contested => status[p] = "PENDING" /\ Holders(p) = {u})
        BY <3>1 DEF ReviewInv, ReviewsOfRequests
      <3> QED
        BY <2>1, <2>2, <3>1, <3>2
    <2> QED
      BY <2>4, <2>5 DEF ReviewsOfRequests
  <1>6. RequestsAsked'
    BY <1>1, <1>2 DEF ReviewInv, RequestsAsked, ReviewsOfRequests, Holders
  <1>7. MovedOnceIfApproved'
    BY <1>1, <1>2, <1>4 DEF ReviewInv, MovedOnceIfApproved, Decision
  <1> QED
    BY <1>3, <1>5, <1>6, <1>7 DEF ReviewInv

(* ReviewInv is inductive. *)
LEMMA ReviewStep == ReviewInv /\ [Next]_vars => ReviewInv'
  <1> SUFFICES ASSUME ReviewInv, [Next]_vars PROVE ReviewInv'
    OBVIOUS
  <1>1. CASE UNCHANGED vars
    BY <1>1 DEF vars, ReviewInv, TypeOK, ReviewsOfRequests, RequestsAsked,
                MovedOnceIfApproved, Holders
  <1>2. ASSUME NEW q \in Request, NEW c \in Camp, Submit(q, c) PROVE ReviewInv'
    BY <1>2, SubmitInv
  <1>3. ASSUME NEW v \in Review, NEW q \in Request, NEW c \in Camp,
               NEW decision \in Decision, Read(v, q, c, decision)
        PROVE  ReviewInv'
    BY <1>3, ReadInv
  <1>4. ASSUME NEW v \in Review, Approve(v) PROVE ReviewInv'
    <2>1. review[v] # Nothing /\ Answer(v) /\ review[v].of \in Request
      BY <1>4, AnswerFacts DEF Approve
    <2>2. asked[review[v].of] \in Workload
      BY <2>1, AskedTyped DEF ReviewInv, ReviewsOfRequests, RequestsAsked, Holders
    <2>3. stock' \in [Row -> Int] /\ ledger' \in [Row -> Int]
      BY <1>4, <2>2, ApplyTyped DEF Approve, ReviewInv, TypeOK
    <2>4. /\ status' = [status EXCEPT ![review[v].of] = "APPROVED"]
          /\ moved' = [moved EXCEPT ![review[v].of] = @ + (IF "APPROVED" = "APPROVED" THEN 1 ELSE 0)]
          /\ UNCHANGED <<asked, contested>>
      BY <1>4 DEF Approve
    <2> QED
      BY <2>1, <2>3, <2>4, DecideInv DEF Decision
  <1>5. ASSUME NEW v \in Review, Reject(v) PROVE ReviewInv'
    <2>1. review[v] # Nothing /\ Answer(v)
      BY <1>5 DEF Reject
    <2>2. /\ status' = [status EXCEPT ![review[v].of] = "REJECTED"]
          /\ moved' = [moved EXCEPT ![review[v].of] = @ + (IF "REJECTED" = "APPROVED" THEN 1 ELSE 0)]
          /\ stock' \in [Row -> Int] /\ ledger' \in [Row -> Int]
          /\ UNCHANGED <<asked, contested>>
      BY <1>5 DEF Reject, ReviewInv, TypeOK
    <2> QED
      BY <2>1, <2>2, DecideInv DEF Decision
  <1>6. ASSUME NEW v \in Review, ApproveRefused(v) \/ Abandon(v) PROVE ReviewInv'
    BY <1>6, EndInv DEF ApproveRefused, Abandon
  <1>7. CASE OtherTraffic
    <2>1. PICK o \in Workload : Apply(o)
      BY <1>7 DEF OtherTraffic
    <2>2. stock' \in [Row -> Int] /\ ledger' \in [Row -> Int]
      BY <2>1, ApplyTyped DEF ReviewInv, TypeOK
    <2>3. UNCHANGED <<status, asked, moved, review, contested>>
      BY <1>7 DEF OtherTraffic
    <2>4. TypeOK'
      BY <2>2, <2>3 DEF ReviewInv, TypeOK
    <2>5. ReviewsOfRequests' /\ RequestsAsked' /\ MovedOnceIfApproved'
      BY <2>3 DEF ReviewInv, ReviewsOfRequests, RequestsAsked, MovedOnceIfApproved, Holders
    <2> QED
      BY <2>4, <2>5 DEF ReviewInv
  <1> QED
    BY <1>1, <1>2, <1>3, <1>4, <1>5, <1>6, <1>7 DEF Next, Quiet

-----------------------------------------------------------------------------
(***************************************************************************)
(* ReviewInv is an invariant: what a review has read of a request nobody   *)
(* contests is still so when it writes, and every row is of its type.      *)
(***************************************************************************)
THEOREM ReviewInvariance == Spec => []ReviewInv
  BY ReviewInit, ReviewStep, PTL DEF Spec

(***************************************************************************)
(* A request whose reviews never overlapped has moved the stock exactly    *)
(* once if it is approved, and never otherwise: neither a refusal, nor an  *)
(* abandoned review, nor other traffic on the same stock changes that.     *)
(***************************************************************************)
THEOREM UncontestedMovesOnce == Spec => []MovedOnceIfApproved
  <1>1. ReviewInv => MovedOnceIfApproved
    BY DEF ReviewInv
  <1> QED
    BY <1>1, ReviewInvariance, PTL

-----------------------------------------------------------------------------
(* Requests that are contested. *)

(* How many reviews hold a request is a number, and at most how many there are. *)
LEMMA HoldersCounted ==
  ASSUME NEW q \in Request
  PROVE  /\ IsFiniteSet(Holders(q)) /\ Cardinality(Holders(q)) \in Nat
         /\ Cardinality(Review) \in Nat
         /\ Cardinality(Holders(q)) <= Cardinality(Review)
  <1>1. Holders(q) \subseteq Review
    BY DEF Holders
  <1> QED
    BY <1>1, ReviewAssumption, FS_Subset, FS_CardinalityType

(* A review that holds nothing more leaves room for the movement it has made. *)
LEMMA EndFreesOne ==
  ASSUME ReviewInv, NEW v \in Review, review[v] # Nothing, Answer(v),
         NEW q \in Request, q = review[v].of
  PROVE  Cardinality(Holders(q))' = Cardinality(Holders(q)) - 1
  <1>1. v \in Holders(q) /\ Holders(q)' = Holders(q) \ {v}
    BY AnswerFacts DEF Holders
  <1>2. IsFiniteSet(Holders(q))
    BY HoldersCounted
  <1>3. Cardinality(Holders(q) \ {v}) = Cardinality(Holders(q)) - 1
    BY <1>1, <1>2, FS_RemoveElement
  <1> QED
    BY <1>1, <1>3

(* Requests that a step does not decide keep their movements, and gain no reviews. *)
LEMMA Undecided ==
  ASSUME MovementsHaveReviews, ReviewInv, NEW q \in Request,
         status'[q] = status[q] \/ (status[q] = "NONE" /\ status'[q] = "PENDING"),
         moved'[q] = moved[q],
         Holders(q)' = Holders(q) \/ \E v \in Review : Holders(q)' = Holders(q) \ {v}
  PROVE  /\ status'[q] = "APPROVED" => moved'[q] > 0
         /\ status'[q] \in {"NONE", "PENDING"} => moved'[q] = 0
         /\ moved'[q] + Cardinality(Holders(q))' <= Cardinality(Review)
  <1>1. moved[q] \in Nat /\ moved[q] + Cardinality(Holders(q)) <= Cardinality(Review)
    BY DEF ReviewInv, TypeOK, MovementsHaveReviews
  <1>2. IsFiniteSet(Holders(q))
    BY HoldersCounted
  <1>3. Holders(q)' \subseteq Holders(q)
    OBVIOUS
  <1>4. Cardinality(Holders(q)') \in Nat /\ Cardinality(Holders(q)') <= Cardinality(Holders(q))
    BY <1>2, <1>3, FS_Subset, FS_CardinalityType
  <1>5. Cardinality(Holders(q)) \in Nat /\ Cardinality(Review) \in Nat
    BY HoldersCounted
  <1> QED
    BY <1>1, <1>4, <1>5 DEF MovementsHaveReviews

(* Deciding a request: the review that does so makes way for its movement. *)
LEMMA Decided ==
  ASSUME MovementsHaveReviews, ReviewInv,
         NEW v \in Review, review[v] # Nothing, Answer(v), NEW d \in Decision,
         status' = [status EXCEPT ![review[v].of] = d],
         moved' = [moved EXCEPT ![review[v].of] = @ + (IF d = "APPROVED" THEN 1 ELSE 0)]
  PROVE  MovementsHaveReviews'
  <1>1. PICK q \in Request : q = review[v].of
    BY AnswerFacts
  <1>2. /\ moved[q] \in Nat /\ moved[q] + Cardinality(Holders(q)) <= Cardinality(Review)
        /\ status'[q] = d /\ moved'[q] = moved[q] + (IF d = "APPROVED" THEN 1 ELSE 0)
    BY <1>1 DEF ReviewInv, TypeOK, MovementsHaveReviews
  <1>3. /\ Cardinality(Holders(q))' = Cardinality(Holders(q)) - 1
        /\ Cardinality(Holders(q)) \in Nat /\ Cardinality(Review) \in Nat
    BY <1>1, EndFreesOne, HoldersCounted
  <1>4. /\ status'[q] = "APPROVED" => moved'[q] > 0
        /\ status'[q] \notin {"NONE", "PENDING"}
        /\ moved'[q] + Cardinality(Holders(q))' <= Cardinality(Review)
    BY <1>2, <1>3 DEF Decision
  <1>5. ASSUME NEW p \in Request, p # q
        PROVE  /\ status'[p] = "APPROVED" => moved'[p] > 0
               /\ status'[p] \in {"NONE", "PENDING"} => moved'[p] = 0
               /\ moved'[p] + Cardinality(Holders(p))' <= Cardinality(Review)
    <2>1. status'[p] = status[p] /\ moved'[p] = moved[p]
      BY <1>1, <1>5 DEF ReviewInv, TypeOK
    <2>2. Holders(p)' = Holders(p) \ {v}
      BY AnswerFacts
    <2> QED
      BY <2>1, <2>2, Undecided
  <1> QED
    BY <1>4, <1>5 DEF MovementsHaveReviews

(***************************************************************************)
(* However many reviews overlap, a request never moves the stock more      *)
(* often than reviews had found it pending, and never unless it is decided.*)
(***************************************************************************)
THEOREM MovementsAreReviewed == Spec => []MovementsHaveReviews
  <1>1. Init => MovementsHaveReviews
    <2> SUFFICES ASSUME Init, NEW q \in Request
                 PROVE  /\ status[q] = "NONE" /\ moved[q] = 0
                        /\ Cardinality(Holders(q)) \in Nat
                        /\ Cardinality(Holders(q)) <= Cardinality(Review)
      BY DEF MovementsHaveReviews
    <2> QED
      BY HoldersCounted DEF Init
  <1>2. ReviewInv /\ MovementsHaveReviews /\ [Next]_vars => MovementsHaveReviews'
    <2> SUFFICES ASSUME ReviewInv, MovementsHaveReviews, [Next]_vars PROVE MovementsHaveReviews'
      OBVIOUS
    <2>1. CASE OtherTraffic \/ UNCHANGED vars
      BY <2>1 DEF OtherTraffic, vars, MovementsHaveReviews, Holders
    <2>2. ASSUME NEW q \in Request, NEW c \in Camp, Submit(q, c)
          PROVE  MovementsHaveReviews'
      <3>1. \A p \in Request : Holders(p)' = Holders(p) /\ moved'[p] = moved[p]
        BY <2>2 DEF Submit, Holders
      <3>2. \A p \in Request :
              status'[p] = status[p] \/ (status[p] = "NONE" /\ status'[p] = "PENDING")
        BY <2>2 DEF Submit, ReviewInv, TypeOK
      <3> QED
        BY <3>1, <3>2, Undecided DEF MovementsHaveReviews
    <2>3. ASSUME NEW v \in Review, NEW q \in Request, NEW c \in Camp,
                 NEW decision \in Decision, Read(v, q, c, decision)
          PROVE  MovementsHaveReviews'
      <3>1. status[q] = "PENDING" /\ status' = status /\ moved' = moved
        BY <2>3 DEF Read
      <3>2. \A p \in Request \ {q} : Holders(p)' = Holders(p)
        <4>1. /\ review[v] = Nothing /\ \A u \in Review \ {v} : review'[u] = review[u]
              /\ review'[v].of = q
          BY <2>3 DEF Read, ReviewInv, TypeOK
        <4> QED
          BY <4>1 DEF Holders
      <3>3. Holders(q)' \subseteq Review
        BY DEF Holders
      <3>4. Cardinality(Holders(q)') \in Nat /\ Cardinality(Holders(q)') <= Cardinality(Review)
        BY <3>3, ReviewAssumption, FS_Subset, FS_CardinalityType
      <3>5. moved'[q] + Cardinality(Holders(q))' <= Cardinality(Review)
        BY <3>1, <3>4 DEF MovementsHaveReviews
      <3> QED
        BY <3>1, <3>2, <3>5 DEF MovementsHaveReviews
    <2>4. ASSUME NEW v \in Review, Approve(v) \/ Reject(v)
          PROVE  MovementsHaveReviews'
      <3>1. review[v] # Nothing /\ Answer(v)
        BY <2>4 DEF Approve, Reject
      <3>2. CASE Approve(v)
        <4>1. /\ status' = [status EXCEPT ![review[v].of] = "APPROVED"]
              /\ moved' = [moved EXCEPT ![review[v].of] =
                             @ + (IF "APPROVED" = "APPROVED" THEN 1 ELSE 0)]
          BY <3>2 DEF Approve
        <4> QED
          BY <3>1, <4>1, Decided DEF Decision
      <3>3. CASE Reject(v)
        <4>1. /\ status' = [status EXCEPT ![review[v].of] = "REJECTED"]
              /\ moved' = [moved EXCEPT ![review[v].of] =
                             @ + (IF "REJECTED" = "APPROVED" THEN 1 ELSE 0)]
          BY <3>3 DEF Reject, ReviewInv, TypeOK
        <4> QED
          BY <3>1, <4>1, Decided DEF Decision
      <3> QED
        BY <2>4, <3>2, <3>3
    <2>5. ASSUME NEW v \in Review, ApproveRefused(v) \/ Abandon(v)
          PROVE  MovementsHaveReviews'
      <3>1. review[v] # Nothing /\ Answer(v) /\ status' = status /\ moved' = moved
        BY <2>5 DEF ApproveRefused, Abandon
      <3>2. \A p \in Request : Holders(p)' = Holders(p) \ {v}
        BY <3>1, AnswerFacts
      <3> QED
        BY <3>1, <3>2, Undecided DEF MovementsHaveReviews
    <2> QED
      BY <2>1, <2>2, <2>3, <2>4, <2>5 DEF Next, Quiet
  <1> QED
    BY <1>1, <1>2, ReviewInvariance, PTL DEF Spec

(***************************************************************************)
(* Whatever the reviews do, overlapping or not, the stock moves only by    *)
(* whole operations it can afford, each with its log row.                  *)
(***************************************************************************)
THEOREM RequestsRefineLedger == Spec => LedgerSpec
  <1>1. Init => LedgerInit
    BY DEF Init
  <1>2. ReviewInv /\ [Next]_vars => [LedgerNext]_ledgerVars
    <2> SUFFICES ASSUME ReviewInv, [Next]_vars PROVE [LedgerNext]_ledgerVars
      OBVIOUS
    <2>1. ASSUME NEW v \in Review, Approve(v) PROVE LedgerNext
      <3>1. review[v] \in Reviewing
        BY <2>1 DEF Approve, ReviewInv, TypeOK
      <3>2. asked[review[v].of] \in Workload
        BY <2>1, <3>1, AskedTyped DEF Approve, Reviewing, ReviewInv, ReviewsOfRequests,
                                      RequestsAsked, Holders
      <3> QED
        BY <2>1, <3>2 DEF Approve, LedgerNext
    <2>2. CASE OtherTraffic
      BY <2>2 DEF OtherTraffic, LedgerNext
    <2> QED
      BY <2>1, <2>2 DEF Next, Submit, Read, ApproveRefused, Reject, Abandon, Quiet,
                        vars, ledgerVars
  <1> QED
    BY <1>1, <1>2, ReviewInvariance, PTL DEF Spec, LedgerSpec

-----------------------------------------------------------------------------
(* Achievements, for every set of users, camps, achievements and checks. *)
(* What AchievementsTypeOK says of a check, of a notice and of a count. *)
Looking == [step : {"idle", "login", "fetch", "next", "create"},
            user : User, rule : Rules, key : Anyone, first : BOOLEAN,
            todo : SUBSET Achievement, at : Achievement \cup {None}]
Notice  == {"none", "create", "audit", "stats", "done", "failed"}

LEMMA AchievementTypes ==
  ASSUME AchievementsTypeOK
  PROVE  /\ fresh \in [User -> BOOLEAN]
         /\ tally \in [Rules \X Anyone -> Nat]
         /\ audits \in [User -> Nat]
         /\ stage \in [Achievement -> {"none", "row", "roles", "ready"}]
         /\ earned \subseteq Pair
         /\ total \in [Achievement -> Nat \cup {-1}]
         /\ notice \in [Pair -> Notice]
         /\ message \in [Pair -> {"none", "unsent", "sent"}]
         /\ sending \subseteq Pair
         /\ check \in [Check -> Looking]
         /\ due \subseteq Pair
         /\ faults \in 0 .. MaxFaults
  BY DEF AchievementsTypeOK, Looking, Notice

LEMMA AchievementTyped ==
  ASSUME fresh' \in [User -> BOOLEAN],
         tally' \in [Rules \X Anyone -> Nat],
         audits' \in [User -> Nat],
         stage' \in [Achievement -> {"none", "row", "roles", "ready"}],
         earned' \subseteq Pair,
         total' \in [Achievement -> Nat \cup {-1}],
         notice' \in [Pair -> Notice],
         message' \in [Pair -> {"none", "unsent", "sent"}],
         sending' \subseteq Pair,
         check' \in [Check -> Looking],
         due' \subseteq Pair,
         faults' \in 0 .. MaxFaults
  PROVE  AchievementsTypeOK'
  BY DEF AchievementsTypeOK, Looking, Notice

LEMMA IdleLooks ==
  /\ IdleCheck \in Looking /\ IdleCheck.step = "idle" /\ IdleCheck.key = IdleCheck.user
  /\ IdleCheck.todo = {} /\ IdleCheck.at = None
  <1>1. (CHOOSE u \in User : TRUE) \in User
    BY AchievementsAssumption
  <1> QED
    BY <1>1 DEF IdleCheck, Looking, Anyone, Rules

(* Counts only grow, and what is met stays met. *)
LEMMA MetStays ==
  ASSUME NEW c \in Looking, NEW a \in Achievement, NEW n \in Nat, NEW m \in Nat,
         n <= m, Met(c, n, a)
  PROVE  Met(c, m, a)
  BY AchievementsAssumption DEF Met

(* A pair that check c may still unlock, and will find met. *)
Covers(c, p) ==
  /\ c.user = p[1] /\ c.rule = Rule[p[2]]
  /\ \/ c.step = "fetch"
     \/ c.step \in {"next", "create"} /\ (p[2] \in c.todo \/ p[2] = c.at)
  /\ Met(c, Count(c), p[2])

LEMMA OwedCovers ==
  Owed <=> \A p \in due : /\ Linked(p[2]) /\ p[1] \in Offered[p[2]]
                          /\ p \in earned \/ \E x \in Check : Covers(check[x], p)
  BY DEF Owed, Pending, Covers

(* Nobody has done anything, and no check is open. *)
LEMMA AchievementsInitial ==
  AchievementsInit => AchievementInv
  <1> SUFFICES ASSUME AchievementsInit
               PROVE  AchievementInv
    OBVIOUS
  <1>1. AchievementsTypeOK
    <2>1. check \in [Check -> Looking]
      BY IdleLooks DEF AchievementsInit
    <2>2. faults \in 0 .. MaxFaults
      BY AchievementsAssumption DEF AchievementsInit
    <2> QED
      BY <2>1, <2>2 DEF AchievementsInit, AchievementsTypeOK, Looking
  <1>2. Deserved /\ Owed /\ \A p \in Pair : p \notin earned => notice[p] = "none"
    BY DEF AchievementsInit, Deserved, Owed
  <1>3. \A x \in Check : InOrder(check[x])
    BY IdleLooks DEF AchievementsInit, InOrder
  <1> QED
    BY <1>1, <1>2, <1>3 DEF AchievementInv

(***************************************************************************)
(* A check that moves on while no count goes down: what is left to show is *)
(* that it still covers what it did, unless that is unlocked or forgotten. *)
(***************************************************************************)
LEMMA OneCheckMoves ==
  ASSUME AchievementInv, NEW x \in Check, NEW c \in Looking,
         check' = [check EXCEPT ![x] = c],
         tally' \in [Rules \X Anyone -> Nat],
         \A k \in Rules \X Anyone : tally[k] <= tally'[k],
         UNCHANGED stage, InOrder(c)',
         earned \subseteq earned', due' \subseteq Pair,
         \A p \in due' \ due : /\ Linked(p[2]) /\ p[1] \in Offered[p[2]]
                               /\ Covers(c, p)',
         \A p \in due' \cap due :
           p \notin earned' /\ Covers(check[x], p) => Covers(c, p)'
  PROVE  /\ check' \in [Check -> Looking]
         /\ \A y \in Check : InOrder(check[y])'
         /\ Owed'
  <1>1. /\ check \in [Check -> Looking] /\ tally \in [Rules \X Anyone -> Nat]
        /\ \A y \in Check : InOrder(check[y])
        /\ Owed /\ due \subseteq Pair
    BY AchievementTypes DEF AchievementInv
  <1>2. /\ check' \in [Check -> Looking] /\ check'[x] = c
        /\ \A y \in Check \ {x} : check'[y] = check[y]
    BY <1>1
  <1>3. ASSUME NEW d \in Looking
        PROVE  /\ <<d.rule, d.key>> \in Rules \X Anyone
               /\ Count(d) \in Nat /\ tally'[<<d.rule, d.key>>] \in Nat
               /\ Count(d) <= tally'[<<d.rule, d.key>>]
    <2>1. <<d.rule, d.key>> \in Rules \X Anyone
      BY DEF Looking
    <2> QED
      BY <1>1, <2>1 DEF Count
  <1>4. ASSUME NEW y \in Check
        PROVE  InOrder(check[y])'
    <2>1. CASE y = x
      BY <1>2, <2>1 DEF InOrder, Count, Met
    <2>2. CASE y # x
      <3>1. PICK d \in Looking : d = check[y] /\ d = check'[y]
        BY <1>1, <1>2, <2>2
      <3>2. InOrder(d)
        BY <1>1, <3>1 DEF InOrder
      <3>3. d.step = "create" => d.at \in Achievement /\ Met(d, tally'[<<d.rule, d.key>>], d.at)
        BY <1>3, <3>2, MetStays DEF InOrder
      <3> QED
        BY <3>1, <3>2, <3>3 DEF InOrder, Count, Met
    <2> QED
      BY <2>1, <2>2
  <1>5. ASSUME NEW p \in due'
        PROVE  /\ Linked(p[2])' /\ p[1] \in Offered[p[2]]
               /\ p \in earned' \/ \E y \in Check : Covers(check[y], p)'
    <2>1. CASE p \notin due
      BY <1>2, <2>1 DEF Linked, Covers, Count, Met
    <2>2. CASE p \in due /\ p \notin earned'
      <3>1. /\ Linked(p[2]) /\ p[1] \in Offered[p[2]]
            /\ \E y \in Check : Covers(check[y], p)
        BY <1>1, <2>2, OwedCovers
      <3>2. PICK y \in Check : Covers(check[y], p)
        BY <3>1
      <3>3. CASE y = x
        <4>1. Covers(c, p)'
          BY <2>2, <3>2, <3>3
        <4>2. Covers(check[x], p)'
          BY <1>2, <4>1 DEF Covers, Count
        <4> QED
          BY <3>1, <4>2 DEF Linked
      <3>4. CASE y # x
        <4>1. PICK d \in Looking : d = check[y] /\ d = check'[y]
          BY <1>1, <1>2, <3>4
        <4>2. p[2] \in Achievement
          BY <1>1, <2>2 DEF Pair
        <4>3. Met(d, Count(d), p[2])
          BY <3>2, <4>1 DEF Covers, Met
        <4>4. Met(d, tally'[<<d.rule, d.key>>], p[2])
          BY <1>3, <4>2, <4>3, MetStays
        <4>5. Covers(check[y], p)'
          BY <3>2, <4>1, <4>4 DEF Covers, Count
        <4> QED
          BY <3>1, <4>5 DEF Linked
      <3> QED
        BY <3>3, <3>4
    <2>3. CASE p \in due /\ p \in earned'
      BY <1>1, <2>3 DEF Owed, Linked
    <2> QED
      BY <2>1, <2>2, <2>3
  <1> QED
    BY <1>2, <1>4, <1>5 DEF Owed, Pending, Covers

(* The same where no check moves, and achievements may have been linked. *)
LEMMA ChecksStay ==
  ASSUME AchievementInv, UNCHANGED <<check, earned, due>>,
         tally' \in [Rules \X Anyone -> Nat],
         \A k \in Rules \X Anyone : tally[k] <= tally'[k],
         \A a \in Achievement : Linked(a) => Linked(a)'
  PROVE  /\ check' \in [Check -> Looking]
         /\ \A y \in Check : InOrder(check[y])'
         /\ Owed'
  <1>1. /\ check \in [Check -> Looking] /\ tally \in [Rules \X Anyone -> Nat]
        /\ \A y \in Check : InOrder(check[y])
        /\ Owed /\ due \subseteq Pair
    BY AchievementTypes DEF AchievementInv
  <1>2. ASSUME NEW y \in Check
        PROVE  /\ InOrder(check[y])'
               /\ \A p \in due : Covers(check[y], p) => Covers(check[y], p)'
    <2>1. PICK d \in Looking : d = check[y] /\ d = check'[y]
      BY <1>1
    <2>2. /\ tally[<<d.rule, d.key>>] \in Nat /\ tally'[<<d.rule, d.key>>] \in Nat
          /\ tally[<<d.rule, d.key>>] <= tally'[<<d.rule, d.key>>]
      <3>1. <<d.rule, d.key>> \in Rules \X Anyone
        BY DEF Looking
      <3> QED
        BY <1>1, <3>1
    <2>3. \A a \in Achievement :
            Met(d, tally[<<d.rule, d.key>>], a) => Met(d, tally'[<<d.rule, d.key>>], a)
      BY <2>2, MetStays
    <2>4. InOrder(check[y])'
      <3>1. InOrder(d)
        BY <1>1, <2>1 DEF InOrder, Count
      <3> QED
        BY <2>1, <2>3, <3>1 DEF InOrder, Count
    <2>5. ASSUME NEW p \in due, Covers(check[y], p)
          PROVE  Covers(check[y], p)'
      <3>1. p[2] \in Achievement
        BY <1>1 DEF Pair
      <3> QED
        BY <2>1, <2>3, <2>5, <3>1 DEF Covers, Count
    <2> QED
      BY <2>4, <2>5
  <1>3. ASSUME NEW p \in due
        PROVE  /\ Linked(p[2])' /\ p[1] \in Offered[p[2]]
               /\ p \in earned \/ \E y \in Check : Covers(check[y], p)'
    <2>1. /\ Linked(p[2]) /\ p[1] \in Offered[p[2]] /\ p[2] \in Achievement
          /\ p \in earned \/ \E y \in Check : Covers(check[y], p)
      BY <1>1, OwedCovers DEF Pair
    <2> QED
      BY <1>2, <2>1
  <1>4. Owed'
    BY <1>3 DEF Owed, Pending, Covers
  <1> QED
    BY <1>1, <1>2, <1>4

(* Counts that grow take nobody's merits away. *)
LEMMA DeservedStays ==
  ASSUME AchievementInv, earned' = earned,
         tally' \in [Rules \X Anyone -> Nat],
         \A k \in Rules \X Anyone : tally[k] <= tally'[k]
  PROVE  Deserved'
  <1> SUFFICES ASSUME NEW p \in earned, ~(Rule[p[2]] = "LOGIN" /\ p[2] \in Novice)
               PROVE  \E k \in {p[1]} \cup ActingCamp : tally'[<<Rule[p[2]], k>>] >= Required[p[2]]
    BY DEF Deserved
  <1>1. /\ earned \subseteq Pair /\ Deserved /\ tally \in [Rules \X Anyone -> Nat]
    BY AchievementTypes DEF AchievementInv
  <1>2. PICK k \in {p[1]} \cup ActingCamp : tally[<<Rule[p[2]], k>>] >= Required[p[2]]
    BY <1>1 DEF Deserved
  <1>3. p[1] \in User /\ p[2] \in Achievement
    BY <1>1 DEF Pair
  <1>4. <<Rule[p[2]], k>> \in Rules \X Anyone /\ Required[p[2]] \in Nat
    BY <1>3, AchievementsAssumption DEF Anyone
  <1>5. tally[<<Rule[p[2]], k>>] \in Nat /\ tally'[<<Rule[p[2]], k>>] \in Nat
          /\ tally[<<Rule[p[2]], k>>] <= tally'[<<Rule[p[2]], k>>]
    BY <1>1, <1>4
  <1>6. tally'[<<Rule[p[2]], k>>] >= Required[p[2]]
    BY <1>2, <1>4, <1>5
  <1> QED
    BY <1>6, Zenon

(* A count that stays has not gone down, nor one that is one more. *)
LEMMA SameCounts ==
  ASSUME AchievementInv, tally' = tally
  PROVE  tally' \in [Rules \X Anyone -> Nat] /\ \A k \in Rules \X Anyone : tally[k] <= tally'[k]
  <1>1. tally \in [Rules \X Anyone -> Nat]
    BY AchievementTypes DEF AchievementInv
  <1>2. \A k \in Rules \X Anyone : tally[k] \in Nat
    BY <1>1
  <1> QED
    BY <1>1, <1>2

LEMMA OneMoreCounted ==
  ASSUME AchievementInv, NEW j \in Rules \X Anyone, tally' = [tally EXCEPT ![j] = @ + 1]
  PROVE  tally' \in [Rules \X Anyone -> Nat] /\ \A k \in Rules \X Anyone : tally[k] <= tally'[k]
  <1>1. tally \in [Rules \X Anyone -> Nat]
    BY AchievementTypes DEF AchievementInv
  <1>2. \A k \in Rules \X Anyone : tally[k] \in Nat
    BY <1>1
  <1> QED
    BY <1>1, <1>2

(* The event counts for the check it starts, which will find what is owed met. *)
LEMMA TriggerStep ==
  ASSUME AchievementInv, NEW x \in Check, NEW c \in Looking,
         NEW counted \in Anyone \cup {None},
         check[x].step \in {"idle", "login"},
         \A a \in c.todo : Rule[a] = c.rule, c.key \in {c.user} \cup ActingCamp,
         Trigger(x, c, counted), UNCHANGED <<stage, earned>>
  PROVE  /\ check' \in [Check -> Looking] /\ tally' \in [Rules \X Anyone -> Nat]
         /\ due' \subseteq Pair
         /\ Deserved' /\ Owed' /\ \A y \in Check : InOrder(check[y])'
  <1> DEFINE n == Count(c) + (IF counted = c.key THEN 1 ELSE 0)
             j == <<c.rule, counted>>
             d == [c EXCEPT !.step = "fetch"]
  <1>1. /\ IF counted = None THEN tally' = tally ELSE tally' = [tally EXCEPT ![j] = @ + 1]
        /\ check' = [check EXCEPT ![x] = d]
        /\ due' = due \cup {<<c.user, a>> : a \in {b \in Applicable(c.user, c.rule) : Met(c, n, b)}}
    BY DEF Trigger, Becomes
  <1>2. /\ d \in Looking /\ d.step = "fetch" /\ d.user = c.user /\ d.rule = c.rule
        /\ d.key = c.key /\ d.first = c.first /\ d.todo = c.todo
    BY DEF Looking
  <1> HIDE DEF d
  <1>3. /\ tally \in [Rules \X Anyone -> Nat] /\ due \subseteq Pair /\ check \in [Check -> Looking]
        /\ <<c.rule, c.key>> \in Rules \X Anyone /\ c.user \in User /\ c.rule \in Rules
    BY AchievementTypes DEF AchievementInv, Looking
  <1>4. None \notin Anyone
    BY AchievementsAssumption DEF Anyone
  <1>5. /\ tally' \in [Rules \X Anyone -> Nat] /\ \A k \in Rules \X Anyone : tally[k] <= tally'[k]
    <2>1. CASE counted = None
      BY <1>1, <2>1, SameCounts
    <2>2. CASE counted # None
      <3>1. j \in Rules \X Anyone
        BY <1>3, <2>2
      <3>2. tally' = [tally EXCEPT ![j] = @ + 1]
        BY <1>1, <2>2
      <3> HIDE DEF j
      <3> QED
        BY <3>1, <3>2, OneMoreCounted
    <2> QED
      BY <2>1, <2>2
  <1>6. n = tally'[<<c.rule, c.key>>]
    <2>1. CASE counted = None
      <3>1. counted # c.key
        BY <1>3, <1>4, <2>1
      <3>2. n = Count(c) + 0 /\ tally' = tally /\ Count(c) \in Nat
        BY <1>1, <1>3, <2>1, <3>1 DEF Count
      <3> QED
        BY <3>2 DEF Count
    <2>2. CASE counted # None
      <3>1. tally' = [tally EXCEPT ![j] = @ + 1] /\ j \in Rules \X Anyone
        BY <1>1, <1>3, <2>2
      <3>2. CASE counted = c.key
        <4>1. tally'[<<c.rule, c.key>>] = tally[<<c.rule, c.key>>] + 1
          BY <1>3, <3>1, <3>2
        <4> QED
          BY <3>2, <4>1 DEF Count
      <3>3. CASE counted # c.key
        <4>1. j # <<c.rule, c.key>>
          BY <3>3
        <4>2. tally'[<<c.rule, c.key>>] = tally[<<c.rule, c.key>>]
          BY <1>3, <3>1, <4>1
        <4>3. Count(c) \in Nat
          BY <1>3 DEF Count
        <4> QED
          BY <3>3, <4>2, <4>3 DEF Count
      <3> QED
        BY <3>2, <3>3
    <2> QED
      BY <2>1, <2>2
  <1> HIDE DEF n
  <1>7. due' \subseteq Pair
    BY <1>1, <1>3 DEF Applicable, Pair
  <1>8. ASSUME NEW p \in due' \ due
        PROVE  Linked(p[2]) /\ p[1] \in Offered[p[2]] /\ Covers(d, p)'
    <2>1. PICK a \in Applicable(c.user, c.rule) : p = <<c.user, a>> /\ Met(c, n, a)
      BY <1>1, <1>8
    <2>2. Linked(a) /\ c.user \in Offered[a] /\ Rule[a] = c.rule
      BY DEF Applicable
    <2>3. Met(d, tally'[<<d.rule, d.key>>], a)
      BY <1>2, <1>6, <2>1 DEF Met
    <2> QED
      BY <1>2, <2>1, <2>2, <2>3 DEF Covers, Count
  <1>9. \A p \in due : ~Covers(check[x], p)
    BY DEF Covers
  <1>10. InOrder(d)'
    BY <1>2 DEF InOrder
  <1>11. /\ check' \in [Check -> Looking] /\ Owed' /\ \A y \in Check : InOrder(check[y])'
    BY <1>1, <1>2, <1>5, <1>7, <1>8, <1>9, <1>10, OneCheckMoves
  <1> QED
    BY <1>5, <1>7, <1>11, DeservedStays

(* The rest of AchievementInv where no achievement is unlocked. *)
LEMMA NothingUnlocked ==
  ASSUME AchievementInv, earned' = earned, notice' = notice, stage' = stage,
         total' = total, message' = message, sending' = sending, faults' = faults,
         fresh' \in [User -> BOOLEAN], audits' \in [User -> Nat],
         check' \in [Check -> Looking], tally' \in [Rules \X Anyone -> Nat],
         due' \subseteq Pair,
         Deserved', Owed', \A y \in Check : InOrder(check[y])'
  PROVE  AchievementInv'
  <1>1. AchievementsTypeOK'
    BY AchievementTypes, AchievementTyped DEF AchievementInv
  <1> QED
    BY <1>1 DEF AchievementInv

LEMMA ReadForLoginStep ==
  ASSUME AchievementInv, NEW x \in Check, NEW u \in User, ReadForLogin(x, u)
  PROVE  AchievementInv'
  <1>2. fresh \in [User -> BOOLEAN] /\ due \subseteq Pair /\ audits \in [User -> Nat]
    BY AchievementTypes DEF AchievementInv
  <1>1. /\ check[x] = IdleCheck
        /\ UNCHANGED <<fresh, tally, audits, stage, total, message, sending, faults, progress>>
    BY DEF ReadForLogin
  <1>3. PICK c \in Looking : /\ check' = [check EXCEPT ![x] = c]
                            /\ c.key = c.user /\ c.step = "login" /\ c.todo = {}
    <2> DEFINE d == [IdleCheck EXCEPT !.step = "login", !.user = u, !.key = u, !.first = fresh[u]]
    <2>1. d \in Looking /\ d.key = d.user /\ d.step = "login" /\ d.todo = {}
      BY <1>2, IdleLooks DEF Looking, Anyone
    <2>2. check' = [check EXCEPT ![x] = d]
      BY DEF ReadForLogin, Becomes
    <2> HIDE DEF d
    <2> QED
      BY <2>1, <2>2
  <1>4. InOrder(c)'
    BY <1>3 DEF InOrder
  <1>5. \A p \in due : ~Covers(check[x], p)
    BY <1>1, IdleLooks DEF Covers
  <1>6. check' \in [Check -> Looking] /\ Owed' /\ \A y \in Check : InOrder(check[y])'
    BY <1>1, <1>2, <1>3, <1>4, <1>5, SameCounts, OneCheckMoves DEF progress
  <1>7. Deserved'
    BY <1>1, SameCounts, DeservedStays DEF progress
  <1> QED
    BY <1>1, <1>2, <1>6, <1>7, SameCounts, NothingUnlocked DEF progress

LEMMA LoginStep ==
  ASSUME AchievementInv, NEW x \in Check, Login(x)
  PROVE  AchievementInv'
  <1> DEFINE u == check[x].user
  <1>1. check[x] \in Looking /\ u \in User /\ InOrder(check[x])
    BY AchievementTypes DEF AchievementInv, Looking
  <1>2. /\ check[x].step = "login" /\ Trigger(x, check[x], None)
        /\ fresh' = [fresh EXCEPT ![u] = FALSE] /\ audits' = [audits EXCEPT ![u] = @ + 1]
        /\ UNCHANGED <<stage, total, message, sending, faults, earned, notice>>
    BY DEF Login
  <1>3. fresh' \in [User -> BOOLEAN] /\ audits' \in [User -> Nat]
    BY <1>1, <1>2, AchievementTypes DEF AchievementInv
  <1>4. /\ check' \in [Check -> Looking] /\ tally' \in [Rules \X Anyone -> Nat]
        /\ due' \subseteq Pair
        /\ Deserved' /\ Owed' /\ \A y \in Check : InOrder(check[y])'
    <2>1. PICK c \in Looking : c = check[x]
      BY <1>1
    <2>2. c.key \in {c.user} \cup ActingCamp /\ \A a \in c.todo : Rule[a] = c.rule
      BY <1>1, <2>1 DEF InOrder
    <2>3. Trigger(x, c, None) /\ UNCHANGED <<stage, earned>>
      BY <1>2, <2>1
    <2> QED
      BY <1>2, <2>2, <2>3, TriggerStep
  <1>5. UNCHANGED <<stage, total, message, sending, faults, earned, notice>>
    BY <1>2
  <1> QED
    BY <1>3, <1>4, <1>5, NothingUnlocked

LEMMA ActionStep ==
  ASSUME AchievementInv, NEW x \in Check, NEW u \in User,
         NEW r \in Rules, NEW k \in {u} \cup ActingCamp, NEW counted \in Anyone \cup {None},
         check[x] = IdleCheck,
         Trigger(x, [IdleCheck EXCEPT !.user = u, !.rule = r, !.key = k], counted),
         UNCHANGED <<fresh, audits, stage, total, message, sending, faults, earned, notice>>
  PROVE  AchievementInv'
  <1> DEFINE c == [IdleCheck EXCEPT !.user = u, !.rule = r, !.key = k]
  <1>1. c \in Looking /\ c.todo = {} /\ c.key \in {c.user} \cup ActingCamp
    BY IdleLooks DEF Looking, Anyone
  <1> HIDE DEF c
  <1>2. /\ check' \in [Check -> Looking] /\ tally' \in [Rules \X Anyone -> Nat]
        /\ due' \subseteq Pair
        /\ Deserved' /\ Owed' /\ \A y \in Check : InOrder(check[y])'
    <2>1. Trigger(x, c, counted)
      BY DEF c
    <2>2. \A a \in c.todo : Rule[a] = c.rule
      BY <1>1
    <2>3. check[x].step = "idle"
      BY IdleLooks
    <2> QED
      BY <1>1, <2>1, <2>2, <2>3, TriggerStep
  <1>3. fresh' \in [User -> BOOLEAN] /\ audits' \in [User -> Nat]
    BY AchievementTypes DEF AchievementInv
  <1> QED
    BY <1>2, <1>3, NothingUnlocked

LEMMA EventStep ==
  ASSUME AchievementInv, NEW x \in Check, Event(x)
  PROVE  AchievementInv'
  <1>1. ASSUME NEW u \in User, Adjust(x, u)
        PROVE  AchievementInv'
    BY <1>1, ActionStep DEF Adjust, Rules, Anyone
  <1>2. ASSUME NEW u \in User, NEW c \in ActingCamp, NEW k \in ActingCamp \cup {None},
               ReturnExpedition(x, u, c, k)
        PROVE  AchievementInv'
    BY <1>2, ActionStep DEF ReturnExpedition, Rules, Anyone
  <1>3. ASSUME NEW u \in User, NEW c \in ActingCamp, NEW from \in ActingCamp,
               CompleteTransfer(x, u, c, from)
        PROVE  AchievementInv'
    BY <1>3, ActionStep DEF CompleteTransfer, Rules, Anyone
  <1> QED
    BY <1>1, <1>2, <1>3, ReadForLoginStep, LoginStep DEF Event

(* A check goes on with what is left, or ends. *)
LEMMA RestLooks ==
  ASSUME NEW c \in Looking
  PROVE  /\ Rest(c) \in Looking
         /\ \/ Rest(c) = IdleCheck /\ c.todo = {}
            \/ /\ Rest(c).step = "next" /\ Rest(c).at = None
               /\ Rest(c).user = c.user /\ Rest(c).rule = c.rule /\ Rest(c).key = c.key
               /\ Rest(c).first = c.first /\ Rest(c).todo = c.todo
  <1>1. CASE c.todo = {}
    BY <1>1, IdleLooks DEF Rest
  <1>2. CASE c.todo # {}
    <2> DEFINE d == [c EXCEPT !.step = "next", !.at = None]
    <2>1. /\ d \in Looking /\ d.step = "next" /\ d.at = None
          /\ d.user = c.user /\ d.rule = c.rule /\ d.key = c.key
          /\ d.first = c.first /\ d.todo = c.todo
      BY DEF Looking
    <2>2. Rest(c) = d
      BY <1>2 DEF Rest
    <2> QED
      BY <2>1, <2>2
  <1> QED
    BY <1>1, <1>2

LEMMA CheckContinues ==
  ASSUME AchievementInv, NEW x \in Check, NEW c \in Looking, c = check[x], NEW t \in Looking,
         t.user = c.user, t.rule = c.rule, t.key = c.key, t.first = c.first,
         \A a \in t.todo : Rule[a] = c.rule,
         check' = [check EXCEPT ![x] = Rest(t)],
         UNCHANGED <<tally, stage>>, earned \subseteq earned', due' \subseteq due,
         \A p \in due' : p \notin earned' /\ Covers(c, p) => p[2] \in t.todo
  PROVE  /\ check' \in [Check -> Looking]
         /\ \A y \in Check : InOrder(check[y])'
         /\ Owed'
  <1>1. /\ due' \subseteq Pair /\ InOrder(c)
    BY AchievementTypes DEF AchievementInv, InOrder, Count
  <1>2. PICK r \in Looking :
          /\ r = Rest(t)
          /\ \/ r = IdleCheck /\ t.todo = {}
             \/ /\ r.step = "next" /\ r.at = None
                /\ r.user = t.user /\ r.rule = t.rule /\ r.key = t.key
                /\ r.first = t.first /\ r.todo = t.todo
    BY RestLooks
  <1>3. check' = [check EXCEPT ![x] = r]
    BY <1>2
  <1>4. InOrder(r)'
    BY <1>1, <1>2, IdleLooks DEF InOrder
  <1>5. ASSUME NEW p \in due' \cap due, p \notin earned', Covers(check[x], p)
        PROVE  Covers(r, p)'
    <2>1. Covers(c, p) /\ p[2] \in t.todo
      BY <1>5 DEF Covers, Count
    <2>2. Met(c, Count(c), p[2]) <=> Met(r, Count(c), p[2])
      BY <1>2, <2>1 DEF Met
    <2>3. tally'[<<r.rule, r.key>>] = Count(c)
      BY <1>2, <2>1 DEF Count
    <2> QED
      BY <1>2, <2>1, <2>2, <2>3 DEF Covers, Count
  <1> QED
    BY <1>1, <1>3, <1>4, <1>5, SameCounts, OneCheckMoves

(* Only what is not unlocked yet is looked at. *)
LEMMA FetchStep ==
  ASSUME AchievementInv, NEW x \in Check, Fetch(x)
  PROVE  AchievementInv'
  <1>1. /\ check[x] \in Looking /\ due \subseteq Pair /\ audits \in [User -> Nat]
        /\ fresh \in [User -> BOOLEAN] /\ Owed
    BY AchievementTypes DEF AchievementInv
  <1>2. UNCHANGED <<fresh, tally, audits, stage, total, message, sending, faults, progress>>
    BY DEF Fetch
  <1>3. PICK c \in Looking, todo \in SUBSET Achievement :
          /\ c = check[x] /\ c.step = "fetch"
          /\ todo = {a \in Applicable(c.user, c.rule) : <<c.user, a>> \notin earned}
          /\ check' = [check EXCEPT ![x] = Rest([c EXCEPT !.todo = todo])]
    BY <1>1 DEF Fetch, Becomes, Applicable
  <1> DEFINE t == [c EXCEPT !.todo = todo]
  <1>4. /\ t \in Looking /\ t.user = c.user /\ t.rule = c.rule /\ t.key = c.key
        /\ t.first = c.first /\ t.todo = todo
    BY DEF Looking
  <1>5. check' = [check EXCEPT ![x] = Rest(t)]
    BY <1>3
  <1> HIDE DEF t
  <1>6. \A a \in t.todo : Rule[a] = c.rule
    BY <1>3, <1>4 DEF Applicable
  <1>7. ASSUME NEW p \in due, p \notin earned, Covers(c, p)
        PROVE  p[2] \in t.todo
    <2>1. p = <<c.user, p[2]>> /\ p[2] \in Achievement /\ Rule[p[2]] = c.rule
      BY <1>1, <1>7 DEF Pair, Covers
    <2>2. Linked(p[2]) /\ c.user \in Offered[p[2]]
      BY <1>1, <2>1 DEF Owed
    <2> QED
      BY <1>3, <1>4, <1>7, <2>1, <2>2 DEF Applicable
  <1>8. check' \in [Check -> Looking] /\ Owed' /\ \A y \in Check : InOrder(check[y])'
    BY <1>2, <1>3, <1>4, <1>5, <1>6, <1>7, CheckContinues DEF progress
  <1>9. Deserved'
    BY <1>2, SameCounts, DeservedStays DEF progress
  <1> QED
    BY <1>1, <1>2, <1>8, <1>9, SameCounts, NothingUnlocked DEF progress

LEMMA EvaluateStep ==
  ASSUME AchievementInv, NEW x \in Check, NEW a \in Achievement, Evaluate(x, a)
  PROVE  AchievementInv'
  <1>1. /\ check[x] \in Looking /\ due \subseteq Pair /\ audits \in [User -> Nat]
        /\ fresh \in [User -> BOOLEAN]
    BY AchievementTypes DEF AchievementInv
  <1>2. UNCHANGED <<fresh, tally, audits, stage, total, message, sending, faults, progress>>
    BY DEF Evaluate
  <1>3. PICK c \in Looking :
          /\ c = check[x] /\ c.step = "next" /\ a \in c.todo
          /\ check' = [check EXCEPT ![x] =
                IF Met(c, Count(c), a)
                THEN [[c EXCEPT !.todo = @ \ {a}] EXCEPT !.step = "create", !.at = a]
                ELSE Rest([c EXCEPT !.todo = @ \ {a}])]
    BY <1>1 DEF Evaluate, Becomes
  <1>4. InOrder(c) /\ c.at = None /\ Rule[a] = c.rule
    BY <1>3 DEF AchievementInv, InOrder, Count
  <1>5. check' \in [Check -> Looking] /\ Owed' /\ \A y \in Check : InOrder(check[y])'
    <2>1. CASE ~Met(c, Count(c), a)
      <3> DEFINE t == [c EXCEPT !.todo = @ \ {a}]
      <3>1. /\ t \in Looking /\ t.user = c.user /\ t.rule = c.rule /\ t.key = c.key
            /\ t.first = c.first /\ t.todo = c.todo \ {a}
        BY DEF Looking
      <3>2. check' = [check EXCEPT ![x] = Rest(t)]
        BY <1>3, <2>1
      <3> HIDE DEF t
      <3>3. \A b \in t.todo : Rule[b] = c.rule
        BY <1>4, <3>1 DEF InOrder
      <3>4. ASSUME NEW p \in due, Covers(c, p)
            PROVE  p[2] \in t.todo
        <4>1. p[2] # None
          BY <1>1, AchievementsAssumption DEF Pair
        <4> QED
          BY <1>3, <1>4, <2>1, <3>1, <3>4, <4>1 DEF Covers
      <3> QED
        BY <1>2, <1>3, <3>1, <3>2, <3>3, <3>4, CheckContinues DEF progress
    <2>2. CASE Met(c, Count(c), a)
      <3> DEFINE d == [[c EXCEPT !.todo = @ \ {a}] EXCEPT !.step = "create", !.at = a]
      <3>1. /\ d \in Looking /\ d.user = c.user /\ d.rule = c.rule /\ d.key = c.key
            /\ d.first = c.first /\ d.todo = c.todo \ {a} /\ d.step = "create" /\ d.at = a
        BY DEF Looking
      <3>2. check' = [check EXCEPT ![x] = d]
        BY <1>3, <2>2
      <3> HIDE DEF d
      <3>3. Count(c) = tally'[<<d.rule, d.key>>]
        BY <1>2, <3>1 DEF Count
      <3>4. \A b \in Achievement : Met(c, Count(c), b) => Met(d, tally'[<<d.rule, d.key>>], b)
        BY <3>1, <3>3 DEF Met
      <3>5. InOrder(d)'
        BY <1>4, <2>2, <3>1, <3>4 DEF InOrder, Count
      <3>6. ASSUME NEW p \in due, Covers(check[x], p)
            PROVE  Covers(d, p)'
        <4>1. p[2] \in Achievement /\ p[2] # None
          BY <1>1, AchievementsAssumption DEF Pair
        <4>2. Covers(c, p)
          BY <1>3, <3>6 DEF Covers, Count
        <4>3. p[2] \in d.todo \/ p[2] = d.at
          BY <1>3, <1>4, <3>1, <4>1, <4>2 DEF Covers
        <4> QED
          BY <3>1, <3>4, <4>1, <4>2, <4>3 DEF Covers, Count
      <3> QED
        BY <1>1, <1>2, <3>1, <3>2, <3>5, <3>6, SameCounts, OneCheckMoves DEF progress
    <2> QED
      BY <2>1, <2>2
  <1>6. Deserved'
    BY <1>2, SameCounts, DeservedStays DEF progress
  <1> QED
    BY <1>1, <1>2, <1>5, <1>6, SameCounts, NothingUnlocked DEF progress

(* What is unlocked was met; who loses at the unique key goes on all the same. *)
LEMMA UnlockStep ==
  ASSUME AchievementInv, NEW x \in Check, Unlock(x)
  PROVE  AchievementInv'
  <1>1. /\ check[x] \in Looking /\ due \subseteq Pair /\ earned \subseteq Pair
        /\ notice \in [Pair -> Notice] /\ AchievementsTypeOK
    BY AchievementTypes DEF AchievementInv
  <1>2. PICK c \in Looking : c = check[x]
    BY <1>1
  <1> DEFINE p0 == <<c.user, c.at>>
  <1>3. /\ c.step = "create" /\ check' = [check EXCEPT ![x] = Rest(c)]
        /\ UNCHANGED <<fresh, tally, audits, stage, total, message, sending, faults, due>>
        /\ \/ p0 \in earned /\ UNCHANGED <<earned, notice>>
           \/ /\ earned' = earned \cup {p0}
              /\ notice' = [notice EXCEPT ![p0] = "create"]
    BY <1>2 DEF Unlock, Becomes
  <1>4. /\ InOrder(c) /\ c.at \in Achievement /\ Rule[c.at] = c.rule /\ Met(c, Count(c), c.at)
        /\ p0 \in Pair
    BY <1>2, <1>3 DEF AchievementInv, InOrder, Count, Looking, Pair
  <1>5. ASSUME NEW p \in due, p \notin earned', Covers(c, p)
        PROVE  p[2] \in c.todo
    <2>1. p = <<c.user, p[2]>>
      BY <1>1, <1>5 DEF Pair, Covers
    <2>2. p0 \in earned'
      BY <1>3
    <2>3. p[2] # c.at
      BY <1>5, <2>1, <2>2
    <2> QED
      BY <1>3, <1>5, <2>3 DEF Covers
  <1>6. check' \in [Check -> Looking] /\ Owed' /\ \A y \in Check : InOrder(check[y])'
    <2>1. \A a \in c.todo : Rule[a] = c.rule
      BY <1>4 DEF InOrder
    <2>2. earned \subseteq earned'
      BY <1>3
    <2> HIDE DEF p0
    <2> QED
      BY <1>2, <1>3, <1>5, <2>1, <2>2, CheckContinues
  <1>7. /\ earned' \subseteq Pair /\ notice' \in [Pair -> Notice]
        /\ \A p \in Pair : p \notin earned' => notice'[p] = "none"
    <2>1. CASE UNCHANGED <<earned, notice>>
      BY <1>1, <2>1 DEF AchievementInv
    <2>2. CASE earned' = earned \cup {p0} /\ notice' = [notice EXCEPT ![p0] = "create"]
      <3> HIDE DEF p0
      <3>1. notice' \in [Pair -> Notice]
        BY <1>1, <1>4, <2>2 DEF Notice
      <3>2. \A p \in Pair \ {p0} : notice'[p] = notice[p]
        BY <1>1, <2>2
      <3> QED
        BY <1>1, <1>4, <2>2, <3>1, <3>2 DEF AchievementInv
    <2> QED
      BY <1>3, <2>1, <2>2
  <1>8. Deserved'
    <2>1. tally' = tally /\ Deserved
      BY <1>3 DEF AchievementInv
    <2>2. \/ Rule[c.at] = "LOGIN" /\ c.at \in Novice
          \/ \E k \in {c.user} \cup ActingCamp : tally[<<Rule[c.at], k>>] >= Required[c.at]
      BY <1>4 DEF InOrder, Met, Count
    <2>3. ASSUME NEW p \in earned'
          PROVE  \/ Rule[p[2]] = "LOGIN" /\ p[2] \in Novice
                 \/ \E k \in {p[1]} \cup ActingCamp : tally[<<Rule[p[2]], k>>] >= Required[p[2]]
      <3>1. CASE p \in earned
        BY <2>1, <3>1 DEF Deserved
      <3>2. CASE p = p0
        BY <2>2, <3>2
      <3> QED
        BY <1>3, <3>1, <3>2
    <2> QED
      BY <2>1, <2>3 DEF Deserved
  <1>9. AchievementsTypeOK'
    BY <1>1, <1>3, <1>6, <1>7, AchievementTypes, AchievementTyped
  <1> QED
    BY <1>6, <1>7, <1>8, <1>9 DEF AchievementInv

-----------------------------------------------------------------------------
(* Steps beside the checks. *)

(* No check is concerned where rows of the announcement or of the job change. *)
LEMMA BesideChecks ==
  ASSUME AchievementInv, UNCHANGED <<check, earned, due, tally>>,
         \A a \in Achievement : Linked(a) => Linked(a)',
         fresh' \in [User -> BOOLEAN],
         audits' \in [User -> Nat],
         stage' \in [Achievement -> {"none", "row", "roles", "ready"}],
         total' \in [Achievement -> Nat \cup {-1}],
         notice' \in [Pair -> Notice],
         message' \in [Pair -> {"none", "unsent", "sent"}],
         sending' \subseteq Pair,
         faults' \in 0 .. MaxFaults,
         \A p \in Pair : notice[p] = "none" => notice'[p] = "none"
  PROVE  AchievementInv'
  <1>1. /\ tally' \in [Rules \X Anyone -> Nat] /\ \A k \in Rules \X Anyone : tally[k] <= tally'[k]
        /\ earned \subseteq Pair /\ due \subseteq Pair /\ check \in [Check -> Looking]
    BY SameCounts, AchievementTypes DEF AchievementInv
  <1>2. Owed' /\ \A y \in Check : InOrder(check[y])'
    BY <1>1, ChecksStay
  <1>3. Deserved'
    BY <1>1, DeservedStays
  <1>4. AchievementsTypeOK'
    BY <1>1, AchievementTyped
  <1> QED
    BY <1>2, <1>3, <1>4 DEF AchievementInv

LEMMA AuditLoginStep ==
  ASSUME AchievementInv, NEW u \in User, AuditLogin(u)
  PROVE  AchievementInv'
  <1> DEFINE j == <<"LOGIN", u>>
  <1>1. /\ audits[u] > 0 /\ audits' = [audits EXCEPT ![u] = @ - 1]
        /\ tally' = [tally EXCEPT ![j] = @ + 1]
        /\ UNCHANGED <<fresh, stage, total, message, sending, check, faults, progress>>
    BY DEF AuditLogin
  <1>2. /\ audits \in [User -> Nat] /\ due \subseteq Pair /\ fresh \in [User -> BOOLEAN]
    BY AchievementTypes DEF AchievementInv
  <1>3. audits' \in [User -> Nat]
    BY <1>1, <1>2
  <1>4. j \in Rules \X Anyone
    BY DEF Rules, Anyone
  <1> HIDE DEF j
  <1>5. tally' \in [Rules \X Anyone -> Nat] /\ \A k \in Rules \X Anyone : tally[k] <= tally'[k]
    BY <1>1, <1>4, OneMoreCounted
  <1>6. /\ check' \in [Check -> Looking]
        /\ Owed' /\ \A y \in Check : InOrder(check[y])'
    BY <1>1, <1>5, ChecksStay DEF progress, Linked
  <1>7. Deserved'
    BY <1>1, <1>5, DeservedStays DEF progress
  <1> QED
    BY <1>1, <1>2, <1>3, <1>5, <1>6, <1>7, NothingUnlocked DEF progress

LEMMA UserStep ==
  ASSUME AchievementInv, NEW u \in User, Logout(u) \/ FailAudit(u)
  PROVE  AchievementInv'
  <1>1. /\ UNCHANGED <<tally, stage, total, message, sending, check, progress>>
        /\ fresh' = fresh \/ fresh' = [fresh EXCEPT ![u] = TRUE]
        /\ audits' = audits \/ (audits[u] > 0 /\ audits' = [audits EXCEPT ![u] = @ - 1])
        /\ faults' = faults \/ (faults < MaxFaults /\ faults' = faults + 1)
    BY DEF Logout, FailAudit, Fault
  <1>2. /\ fresh \in [User -> BOOLEAN] /\ audits \in [User -> Nat]
        /\ stage \in [Achievement -> {"none", "row", "roles", "ready"}]
        /\ total \in [Achievement -> Nat \cup {-1}] /\ notice \in [Pair -> Notice]
        /\ message \in [Pair -> {"none", "unsent", "sent"}] /\ sending \subseteq Pair
        /\ faults \in 0 .. MaxFaults /\ MaxFaults \in Nat
    BY AchievementTypes, AchievementsAssumption DEF AchievementInv
  <1>3. /\ fresh' \in [User -> BOOLEAN] /\ audits' \in [User -> Nat] /\ faults' \in 0 .. MaxFaults
    <2>1. audits' \in [User -> Nat]
      BY <1>1, <1>2
    <2>2. fresh' \in [User -> BOOLEAN]
      BY <1>1, <1>2, Zenon
    <2>3. faults' \in 0 .. MaxFaults
      BY <1>1, <1>2
    <2> QED
      BY <2>1, <2>2, <2>3
  <1> QED
    BY <1>1, <1>2, <1>3, BesideChecks DEF progress, Linked

LEMMA NoticeStep ==
  ASSUME AchievementInv, NEW p \in Pair,
         Announce(p) \/ Send(p) \/ FailNotice(p) \/ FailSend(p)
  PROVE  AchievementInv'
  <1>1. /\ UNCHANGED <<fresh, tally, audits, stage, check, earned, due>>
        /\ \/ notice' = notice
           \/ /\ notice[p] \in {"create", "audit", "stats"}
              /\ notice' \in {[notice EXCEPT ![p] = n] : n \in Notice}
        /\ message' \in {message} \cup {[message EXCEPT ![p] = n] : n \in {"unsent", "sent"}}
        /\ sending' \in {sending, sending \ {p}}
        /\ total' \in {total, [total EXCEPT ![p[2]] = IF @ = -1 THEN 1 ELSE @ + 1]}
        /\ faults' = faults \/ (faults < MaxFaults /\ faults' = faults + 1)
    <2>1. CASE Announce(p)
      BY <2>1 DEF Announce, Notify, AuditUnlock, CountUnlock, Notice
    <2>2. CASE Send(p)
      BY <2>2 DEF Send, progress
    <2>3. CASE FailNotice(p)
      BY <2>3 DEF FailNotice, Fault, Announcing, Notice
    <2>4. CASE FailSend(p)
      BY <2>4 DEF FailSend, Fault, progress
    <2> QED
      BY <2>1, <2>2, <2>3, <2>4
  <1>2. /\ fresh \in [User -> BOOLEAN] /\ audits \in [User -> Nat]
        /\ stage \in [Achievement -> {"none", "row", "roles", "ready"}]
        /\ total \in [Achievement -> Nat \cup {-1}] /\ notice \in [Pair -> Notice]
        /\ message \in [Pair -> {"none", "unsent", "sent"}] /\ sending \subseteq Pair
        /\ faults \in 0 .. MaxFaults /\ MaxFaults \in Nat
    BY AchievementTypes, AchievementsAssumption DEF AchievementInv
  <1>3. notice' \in [Pair -> Notice] /\ \A q \in Pair : notice[q] = "none" => notice'[q] = "none"
    BY <1>1, <1>2
  <1>4. message' \in [Pair -> {"none", "unsent", "sent"}] /\ sending' \subseteq Pair
    BY <1>1, <1>2
  <1>5. total' \in [Achievement -> Nat \cup {-1}]
    <2>1. p[2] \in Achievement /\ (total[p[2]] = -1 \/ total[p[2]] \in Nat)
      BY <1>2 DEF Pair
    <2> QED
      BY <1>1, <1>2, <2>1
  <1>6. faults' \in 0 .. MaxFaults
    BY <1>1, <1>2
  <1>7. \A a \in Achievement : Linked(a) => Linked(a)'
    BY <1>1 DEF Linked
  <1> QED
    BY <1>1, <1>2, <1>3, <1>4, <1>5, <1>6, <1>7, BesideChecks

LEMMA RowStep ==
  ASSUME AchievementInv,
         \/ ReadUnsent
         \/ \E a \in Achievement : CreateRow(a) \/ LinkRoles(a) \/ CreateStats(a)
  PROVE  AchievementInv'
  <1>2. /\ fresh \in [User -> BOOLEAN] /\ audits \in [User -> Nat]
        /\ stage \in [Achievement -> {"none", "row", "roles", "ready"}]
        /\ total \in [Achievement -> Nat \cup {-1}] /\ notice \in [Pair -> Notice]
        /\ message \in [Pair -> {"none", "unsent", "sent"}] /\ sending \subseteq Pair
        /\ faults \in 0 .. MaxFaults
    BY AchievementTypes DEF AchievementInv
  <1>3. CASE ReadUnsent
    <2>1. sending' \subseteq Pair
      BY <1>3 DEF ReadUnsent, Unsent
    <2>2. UNCHANGED <<fresh, tally, audits, stage, total, message, check, faults, progress>>
      BY <1>3 DEF ReadUnsent
    <2> QED
      BY <1>2, <2>1, <2>2, BesideChecks DEF progress, Linked
  <1>4. ASSUME NEW a \in Achievement, CreateRow(a) \/ LinkRoles(a) \/ CreateStats(a)
        PROVE  AchievementInv'
    <2>1. /\ UNCHANGED <<fresh, tally, audits, message, sending, check, faults, progress>>
          /\ \/ stage[a] = "none" /\ stage' = [stage EXCEPT ![a] = "row"]
             \/ stage[a] = "row" /\ stage' = [stage EXCEPT ![a] = "roles"]
             \/ stage[a] = "roles" /\ stage' = [stage EXCEPT ![a] = "ready"]
          /\ total' \in {total, [total EXCEPT ![a] = IF @ = -1 THEN 0 ELSE @]}
      BY <1>4 DEF CreateRow, LinkRoles, CreateStats
    <2>2. /\ stage' \in [Achievement -> {"none", "row", "roles", "ready"}]
          /\ \A b \in Achievement : Linked(b) => Linked(b)'
      BY <1>2, <2>1 DEF Linked
    <2>3. total' \in [Achievement -> Nat \cup {-1}]
      BY <1>2, <2>1
    <2> QED
      BY <1>2, <2>1, <2>2, <2>3, BesideChecks DEF progress
  <1> QED
    BY <1>3, <1>4

(* A check that fails leaves what it would have found to the next event. *)
LEMMA FailStep ==
  ASSUME AchievementInv, NEW x \in Check, FailFetch(x) \/ FailOne(x)
  PROVE  AchievementInv'
  <1>1. /\ check[x] \in Looking /\ due \subseteq Pair /\ faults \in 0 .. MaxFaults
        /\ MaxFaults \in Nat /\ AchievementsTypeOK
    BY AchievementTypes, AchievementsAssumption DEF AchievementInv
  <1>2. PICK c \in Looking : c = check[x]
    BY <1>1
  <1>3. InOrder(c)
    BY <1>2 DEF AchievementInv, InOrder, Count
  <1>4. /\ UNCHANGED <<fresh, tally, audits, stage, total, message, sending, earned, notice>>
        /\ faults < MaxFaults /\ faults' = faults + 1
    BY DEF FailFetch, FailOne, Fault
  <1>5. PICK t \in Looking :
          /\ t.user = c.user /\ t.rule = c.rule /\ t.key = c.key /\ t.first = c.first
          /\ t.todo \subseteq c.todo \cap Achievement
          /\ check' = [check EXCEPT ![x] = Rest(t)]
          /\ due' \subseteq due
          /\ \A p \in due' : p \notin earned /\ Covers(c, p) => p[2] \in t.todo
    <2>1. CASE FailFetch(x)
      <3> DEFINE t == [c EXCEPT !.todo = {}]
      <3>1. /\ t \in Looking /\ t.user = c.user /\ t.rule = c.rule /\ t.key = c.key
            /\ t.first = c.first /\ t.todo = {}
        BY DEF Looking
      <3> HIDE DEF t
      <3>2. Rest(t) = IdleCheck
        BY <3>1 DEF Rest
      <3>3. check' = [check EXCEPT ![x] = Rest(t)]
        BY <2>1, <3>2 DEF FailFetch, Becomes
      <3>4. due' = due \ ({<<c.user, a>> : a \in Achievement} \ earned)
        BY <1>2, <2>1 DEF FailFetch, Forget
      <3>5. \A p \in due' : p \notin earned => ~Covers(c, p)
        BY <1>1, <3>4 DEF Covers, Pair
      <3> QED
        BY <3>1, <3>3, <3>4, <3>5
    <2>2. ASSUME NEW a \in c.todo, c.step = "next", Forget(c.user, {a}),
                 check' = [check EXCEPT ![x] = Rest([c EXCEPT !.todo = @ \ {a}])]
          PROVE  \E t \in Looking :
                   /\ t.user = c.user /\ t.rule = c.rule /\ t.key = c.key /\ t.first = c.first
                   /\ t.todo \subseteq c.todo \cap Achievement
                   /\ check' = [check EXCEPT ![x] = Rest(t)]
                   /\ due' \subseteq due
                   /\ \A p \in due' : p \notin earned /\ Covers(c, p) => p[2] \in t.todo
      <3> DEFINE t == [c EXCEPT !.todo = @ \ {a}]
      <3>1. /\ t \in Looking /\ t.user = c.user /\ t.rule = c.rule /\ t.key = c.key
            /\ t.first = c.first /\ t.todo = c.todo \ {a} /\ c.todo \subseteq Achievement
        BY DEF Looking
      <3>3. check' = [check EXCEPT ![x] = Rest(t)]
        BY <2>2
      <3> HIDE DEF t
      <3>4. due' = due \ ({<<c.user, a>>} \ earned)
        BY <2>2 DEF Forget
      <3>5. ASSUME NEW p \in due', p \notin earned, Covers(c, p)
            PROVE  p[2] \in t.todo
        <4>1. p = <<c.user, p[2]>> /\ p[2] \in Achievement
          BY <1>1, <3>4, <3>5 DEF Covers, Pair
        <4>2. p[2] # a
          BY <3>4, <3>5, <4>1
        <4>3. c.at = None /\ p[2] # None
          BY <1>3, <2>2, <4>1, AchievementsAssumption DEF InOrder
        <4> QED
          BY <2>2, <3>1, <3>5, <4>2, <4>3 DEF Covers
      <3> QED
        BY <3>1, <3>3, <3>4, <3>5
    <2>3. CASE c.step = "create" /\ check' = [check EXCEPT ![x] = Rest(c)] /\ Forget(c.user, {c.at})
      <3>1. due' = due \ ({<<c.user, c.at>>} \ earned) /\ c.todo \subseteq Achievement
        BY <2>3 DEF Forget, Looking
      <3>2. ASSUME NEW p \in due', p \notin earned, Covers(c, p)
            PROVE  p[2] \in c.todo
        <4>1. p = <<c.user, p[2]>>
          BY <1>1, <3>1, <3>2 DEF Covers, Pair
        <4>2. p[2] # c.at
          BY <3>1, <3>2, <4>1
        <4> QED
          BY <2>3, <3>2, <4>2 DEF Covers
      <3> QED
        BY <2>3, <3>1, <3>2
    <2> QED
      BY <1>2, <2>1, <2>2, <2>3 DEF FailOne, Becomes
  <1>6. check' \in [Check -> Looking] /\ Owed' /\ \A y \in Check : InOrder(check[y])'
    <2>1. \A a \in t.todo : Rule[a] = c.rule
      BY <1>3, <1>5 DEF InOrder
    <2> QED
      BY <1>2, <1>4, <1>5, <2>1, CheckContinues
  <1>7. Deserved'
    BY <1>4, SameCounts, DeservedStays
  <1>8. faults' \in 0 .. MaxFaults /\ due' \subseteq Pair
    BY <1>1, <1>4, <1>5
  <1>9. AchievementsTypeOK'
    BY <1>1, <1>4, <1>6, <1>8, AchievementTypes, AchievementTyped
  <1> QED
    BY <1>4, <1>6, <1>7, <1>9 DEF AchievementInv

LEMMA CrashStep ==
  ASSUME AchievementInv, Crash
  PROVE  AchievementInv'
  <1>1. /\ faults < MaxFaults /\ faults' = faults + 1
        /\ check' = [x \in Check |-> IdleCheck]
        /\ notice' = [p \in Pair |-> IF p \in Announcing THEN "failed" ELSE notice[p]]
        /\ audits' = [u \in User |-> 0] /\ sending' = {} /\ due' = due \cap earned
        /\ UNCHANGED <<fresh, tally, stage, earned, total, message>>
    BY DEF Crash, Fault
  <1>2. /\ due \subseteq Pair /\ faults \in 0 .. MaxFaults /\ MaxFaults \in Nat
        /\ notice \in [Pair -> Notice] /\ Owed /\ AchievementsTypeOK
        /\ \A p \in Pair : p \notin earned => notice[p] = "none"
    BY AchievementTypes, AchievementsAssumption DEF AchievementInv
  <1>3. check' \in [Check -> Looking] /\ \A y \in Check : InOrder(check[y])'
    BY <1>1, IdleLooks DEF InOrder
  <1>4. Owed'
    BY <1>1, <1>2 DEF Owed, Linked
  <1>5. Deserved'
    BY <1>1, SameCounts, DeservedStays
  <1>6. notice' \in [Pair -> Notice] /\ \A p \in Pair : p \notin earned => notice'[p] = "none"
    BY <1>1, <1>2 DEF Announcing, Notice
  <1>7. faults' \in 0 .. MaxFaults /\ due' \subseteq Pair /\ audits' \in [User -> Nat]
    BY <1>1, <1>2
  <1>8. AchievementsTypeOK'
    BY <1>1, <1>2, <1>3, <1>6, <1>7, AchievementTypes, AchievementTyped
  <1> QED
    BY <1>1, <1>3, <1>4, <1>5, <1>6, <1>8 DEF AchievementInv

LEMMA AchievementStep ==
  AchievementInv /\ [AchievementsNext]_achievementVars => AchievementInv'
  <1> SUFFICES ASSUME AchievementInv, [AchievementsNext]_achievementVars
               PROVE  AchievementInv'
    OBVIOUS
  <1>1. ASSUME NEW x \in Check, Event(x) \/ Continue(x) \/ FailFetch(x) \/ FailOne(x)
        PROVE  AchievementInv'
    BY <1>1, EventStep, FetchStep, EvaluateStep, UnlockStep, FailStep DEF Continue
  <1>2. ASSUME NEW u \in User, AuditLogin(u) \/ Logout(u) \/ FailAudit(u)
        PROVE  AchievementInv'
    BY <1>2, AuditLoginStep, UserStep
  <1>3. ASSUME NEW p \in Pair, Announce(p) \/ Send(p) \/ FailNotice(p) \/ FailSend(p)
        PROVE  AchievementInv'
    BY <1>3, NoticeStep
  <1>4. CASE \/ ReadUnsent
             \/ \E a \in Achievement : CreateRow(a) \/ LinkRoles(a) \/ CreateStats(a)
    BY <1>4, RowStep
  <1>5. CASE Crash
    BY <1>5, CrashStep
  <1>6. CASE UNCHANGED achievementVars
    <2>1. UNCHANGED <<fresh, tally, audits, stage, total, message, sending, check, faults,
                      earned, notice, due>>
      BY <1>6 DEF achievementVars, progress
    <2>2. /\ fresh \in [User -> BOOLEAN] /\ audits \in [User -> Nat]
          /\ stage \in [Achievement -> {"none", "row", "roles", "ready"}]
          /\ total \in [Achievement -> Nat \cup {-1}] /\ notice \in [Pair -> Notice]
          /\ message \in [Pair -> {"none", "unsent", "sent"}] /\ sending \subseteq Pair
          /\ faults \in 0 .. MaxFaults
      BY AchievementTypes DEF AchievementInv
    <2> QED
      BY <2>1, <2>2, BesideChecks DEF Linked
  <1> QED
    BY <1>1, <1>2, <1>3, <1>4, <1>5, <1>6 DEF AchievementsNext

(***************************************************************************)
(* For any number of users, camps, achievements and checks that overlap:   *)
(* who has an achievement has reached its count, and what is owed to an    *)
(* event is unlocked or will be found by a check that is open.  Checks     *)
(* count again, but counts only grow, so what an event has met stays met.  *)
(***************************************************************************)
THEOREM UnlocksAreDeserved == AchievementsSpec => []AchievementInv
  BY AchievementsInitial, AchievementStep, PTL DEF AchievementsSpec

(***************************************************************************)
(* Checks of one user that overlap do not cost each other an achievement:  *)
(* unless a failure hit the check, who has reached a count by an event of  *)
(* their own has the achievement, or an open check may still unlock it.    *)
(***************************************************************************)
THEOREM NothingIsMissed == AchievementsSpec => []NothingMissed
  <1>1. AchievementInv => NothingMissed
    BY DEF AchievementInv, Owed, NothingMissed
  <1> QED
    BY <1>1, UnlocksAreDeserved, PTL

(* The users whose unlock of an achievement has been counted: there are finitely many. *)
CountedUsers(a) == {u \in User : notice[<<u, a>>] = "done"}

CountsRight ==
  \A a \in Achievement :
    /\ IsFiniteSet(CountedUsers(a))
    /\ Cardinality(CountedUsers(a)) = IF total[a] = -1 THEN 0 ELSE total[a]
    /\ stage[a] = "ready" => total[a] # -1

(* Nothing that was announced is announced again, so the counts stay right. *)
LEMMA NothingCounted ==
  ASSUME AchievementInv, CountsRight,
         \A p \in Pair : notice'[p] = "done" <=> notice[p] = "done",
         UNCHANGED <<total, stage>>
  PROVE  CountsRight'
  <1>1. \A a \in Achievement : CountedUsers(a)' = CountedUsers(a)
    BY DEF CountedUsers, Pair
  <1> QED
    BY <1>1 DEF CountsRight

LEMMA CountStep ==
  ASSUME AchievementInv, CountsRight, NEW p \in Pair, CountUnlock(p)
  PROVE  CountsRight'
  <1>1. PICK u \in User, a \in Achievement : p = <<u, a>>
    BY DEF Pair
  <1>2. /\ notice \in [Pair -> Notice] /\ total \in [Achievement -> Nat \cup {-1}]
    BY AchievementTypes DEF AchievementInv
  <1>3. /\ notice[<<u, a>>] = "stats" /\ notice' = [notice EXCEPT ![<<u, a>>] = "done"]
        /\ total' = [total EXCEPT ![a] = IF @ = -1 THEN 1 ELSE @ + 1] /\ stage' = stage
    BY <1>1 DEF CountUnlock
  <1>4. CountedUsers(a)' = CountedUsers(a) \cup {u} /\ u \notin CountedUsers(a)
    BY <1>2, <1>3 DEF CountedUsers, Pair
  <1>5. \A b \in Achievement \ {a} : CountedUsers(b)' = CountedUsers(b) /\ total'[b] = total[b]
    BY <1>2, <1>3 DEF CountedUsers, Pair
  <1>6. /\ IsFiniteSet(CountedUsers(a))
        /\ Cardinality(CountedUsers(a)) = IF total[a] = -1 THEN 0 ELSE total[a]
    BY DEF CountsRight
  <1>7. /\ IsFiniteSet(CountedUsers(a) \cup {u})
        /\ Cardinality(CountedUsers(a) \cup {u}) = Cardinality(CountedUsers(a)) + 1
    BY <1>4, <1>6, FS_AddElement
  <1>8. total'[a] = Cardinality(CountedUsers(a)) + 1 /\ total'[a] # -1
    BY <1>2, <1>3, <1>6
  <1> QED
    BY <1>3, <1>4, <1>5, <1>7, <1>8 DEF CountsRight

LEMMA TotalsStep ==
  AchievementInv /\ CountsRight /\ [AchievementsNext]_achievementVars => CountsRight'
  <1> SUFFICES ASSUME AchievementInv, CountsRight, [AchievementsNext]_achievementVars
               PROVE  CountsRight'
    OBVIOUS
  <1>1. /\ notice \in [Pair -> Notice] /\ total \in [Achievement -> Nat \cup {-1}]
        /\ stage \in [Achievement -> {"none", "row", "roles", "ready"}]
        /\ check \in [Check -> Looking]
        /\ \A p \in Pair : p \notin earned => notice[p] = "none"
    BY AchievementTypes DEF AchievementInv
  <1>2. ASSUME UNCHANGED <<notice, total, stage>>
        PROVE  CountsRight'
    BY <1>2, NothingCounted
  <1>3. ASSUME NEW x \in Check, Unlock(x)
        PROVE  CountsRight'
    <2> DEFINE p == <<check[x].user, check[x].at>>
    <2>1. p \in Pair
      BY <1>1, <1>3 DEF AchievementInv, InOrder, Unlock, Looking, Pair
    <2>2. /\ UNCHANGED <<total, stage>>
          /\ \/ notice' = notice
             \/ p \notin earned /\ notice' = [notice EXCEPT ![p] = "create"]
      BY <1>3 DEF Unlock
    <2> HIDE DEF p
    <2>3. \A q \in Pair : notice'[q] = "done" <=> notice[q] = "done"
      BY <1>1, <2>1, <2>2
    <2> QED
      BY <2>2, <2>3, NothingCounted
  <1>4. ASSUME NEW p \in Pair, Notify(p) \/ AuditUnlock(p) \/ FailNotice(p)
        PROVE  CountsRight'
    <2>1. /\ UNCHANGED <<total, stage>> /\ notice[p] \in {"create", "audit", "stats"}
          /\ notice' \in {[notice EXCEPT ![p] = n] : n \in {"audit", "stats", "failed"}}
      BY <1>4 DEF Notify, AuditUnlock, FailNotice, Announcing
    <2>2. \A q \in Pair : notice'[q] = "done" <=> notice[q] = "done"
      BY <1>1, <2>1
    <2> QED
      BY <2>1, <2>2, NothingCounted
  <1>5. ASSUME NEW a \in Achievement, CreateRow(a) \/ LinkRoles(a) \/ CreateStats(a)
        PROVE  CountsRight'
    <2>1. \A b \in Achievement : CountedUsers(b)' = CountedUsers(b)
      BY <1>5 DEF CreateRow, LinkRoles, CreateStats, CountedUsers, progress
    <2>2. \A b \in Achievement \ {a} : stage'[b] = stage[b] /\ total'[b] = total[b]
      BY <1>1, <1>5 DEF CreateRow, LinkRoles, CreateStats
    <2>3. /\ stage'[a] = "ready" => total'[a] # -1
          /\ total'[a] = total[a] \/ (total[a] = -1 /\ total'[a] = 0)
      BY <1>1, <1>5 DEF CreateRow, LinkRoles, CreateStats
    <2> QED
      BY <2>1, <2>2, <2>3 DEF CountsRight
  <1>6. CASE Crash
    <2>1. UNCHANGED <<total, stage>> /\ \A q \in Pair : notice'[q] = "done" <=> notice[q] = "done"
      BY <1>1, <1>6 DEF Crash, Announcing
    <2> QED
      BY <2>1, NothingCounted
  <1>7. ASSUME NEW x \in Check, Event(x) \/ Continue(x) \/ FailFetch(x) \/ FailOne(x)
        PROVE  CountsRight'
    BY <1>2, <1>3, <1>7 DEF Event, ReadForLogin, Adjust, Login, ReturnExpedition, CompleteTransfer,
       Continue, Fetch, Evaluate, FailFetch, FailOne, progress
  <1>8. ASSUME NEW u \in User, AuditLogin(u) \/ Logout(u) \/ FailAudit(u)
        PROVE  CountsRight'
    BY <1>2, <1>8 DEF AuditLogin, Logout, FailAudit, progress
  <1>9. ASSUME NEW p \in Pair, Announce(p) \/ Send(p) \/ FailNotice(p) \/ FailSend(p)
        PROVE  CountsRight'
    BY <1>2, <1>4, <1>9, CountStep DEF Announce, Send, FailSend, progress
  <1>10. CASE ReadUnsent \/ UNCHANGED achievementVars
    BY <1>2, <1>10 DEF ReadUnsent, achievementVars, progress
  <1> QED
    BY <1>5, <1>6, <1>7, <1>8, <1>9, <1>10 DEF AchievementsNext

(***************************************************************************)
(* The statistics count every unlock once, namely when it was announced,   *)
(* in whichever order the upsert of an unlock and createAchievement's own  *)
(* row come.                                                               *)
(***************************************************************************)
THEOREM EveryUnlockCountsOnce == AchievementsSpec => []TotalsCount
  <1>1. AchievementsInit => CountsRight
    <2> SUFFICES ASSUME AchievementsInit
                 PROVE  CountsRight
      OBVIOUS
    <2>1. \A a \in Achievement : CountedUsers(a) = {}
      BY DEF AchievementsInit, CountedUsers, Pair
    <2>2. IsFiniteSet({}) /\ Cardinality({}) = 0
      BY FS_EmptySet
    <2>3. \A a \in Achievement : /\ stage[a] = "ready" <=> a \in Seeded
                                 /\ total[a] = IF a \in Seeded THEN 0 ELSE -1
      BY DEF AchievementsInit
    <2> QED
      BY <2>1, <2>2, <2>3 DEF CountsRight
  <1>2. CountsRight => TotalsCount
    BY DEF CountsRight, TotalsCount, CountedUsers
  <1> QED
    BY <1>1, <1>2, TotalsStep, UnlocksAreDeserved, PTL DEF AchievementsSpec
=============================================================================
