--------------------------- MODULE TransferProofs ---------------------------
(***************************************************************************)
(* Theorems about Transfers, for every set of camps, people, transfers,    *)
(* proposals and calls.  TransferInv is inductive: a transfer that no two  *)
(* calls have read at once has the status its call read; approvals stand;  *)
(* and the locks a completion holds keep what it takes affordable and, for *)
(* people travel with rations from the same row, the people where it found *)
(* them.                                                                   *)
(***************************************************************************)
EXTENDS Transfers, OperationProofs, FiniteSetTheorems

CallType == [step : {"idle"} \cup Steps, of : TransferId \cup {None},
             by : Camp \cup {None}, date : Date, health : Status]

-----------------------------------------------------------------------------
(* The rows and changes of a transfer, the one without items included. *)
LEMMA MovementFacts ==
  ASSUME NEW x \in Proposal
  PROVE  /\ x \in ProposalType /\ x.from # x.to
         /\ Movement(x).delta \in [Row -> Int]
         /\ \A r \in Row : r \notin Range(Movement(x).order) => Movement(x).delta[r] = 0
  <1>1. x \in ProposalType /\ x.from # x.to
    BY TransfersAssumption
  <1>2. CASE x.items = <<>>
    <2>1. Range(x.items) = {}
      BY <1>2 DEF Range
    <2>2. \A r \in Row : Movement(x).delta[r] = 0
      BY <2>1 DEF Movement, Transfer
    <2>3. Movement(x).delta \in [Row -> Int]
      BY <2>1 DEF Movement, Transfer
    <2> QED
      BY <1>1, <2>2, <2>3
  <1>3. CASE x.items # <<>>
    <2>1. WellFormed(Movement(x))
      BY <1>3, TransfersAssumption, WorkloadWellFormed
    <2> QED
      BY <1>1, <2>1 DEF WellFormed, OperationType
  <1> QED
    BY <1>2, <1>3

(* Who carries people takes rations from the row of the camp they leave. *)
LEMMA RationsTaken ==
  ASSUME NEW i \in TransferId, plan \in [TransferId -> Proposal],
         Provisioned(i), plan[i].people # {}
  PROVE  <<plan[i].from, Ration>> \in Writes(i)
  <1> DEFINE x == plan[i]
             r == <<x.from, Ration>>
  <1>1. x \in Proposal /\ x \in ProposalType /\ x.from # x.to
    BY MovementFacts
  <1>2. Ration \in Range(x.items)
    BY DEF Provisioned
  <1>3. x.items # <<>>
    BY <1>2 DEF Range
  <1>4. x.items \in ItemLists
    BY <1>1, <1>3 DEF ProposalType
  <1>5. Ration \in Resource
    BY <1>2, <1>4, ItemListFacts DEF Range
  <1>6. r \in Row /\ x.amount[Ration] \in Qty
    BY <1>1, <1>5 DEF Row, ProposalType
  <1>7. Movement(x).delta[r] # 0
    <2>1. Movement(x).delta[r] = -x.amount[Ration]
      BY <1>1, <1>2, <1>6 DEF Movement, Transfer
    <2> QED
      BY <1>6, <2>1, BoundsAssumption DEF Qty
  <1> QED
    BY <1>1, <1>6, <1>7, MovementFacts DEF Writes

(* One movement applied leaves the tables typed, and no row below nothing. *)
LEMMA AppliedTyped ==
  ASSUME stock \in [Row -> Int], ledger \in [Row -> Int], NEW o, o.delta \in [Row -> Int],
         Apply(o)
  PROVE  /\ stock' \in [Row -> Int] /\ ledger' \in [Row -> Int]
         /\ \A r \in Row : stock'[r] >= 0 /\ stock'[r] = stock[r] + o.delta[r]
  BY DEF Apply, Affordable

(* What a call has taken stays affordable when others take other rows. *)
LEMMA StaysAffordable ==
  ASSUME stock \in [Row -> Int], ledger \in [Row -> Int], NEW x \in Proposal, NEW o,
         o.delta \in [Row -> Int], Apply(o), Affordable(Movement(x)),
         \A r \in Range(Movement(x).order) : r \in Row => o.delta[r] = 0
  PROVE  Affordable(Movement(x))'
  <1> DEFINE m == Movement(x)
  <1>1. m.delta \in [Row -> Int] /\ \A r \in Row : r \notin Range(m.order) => m.delta[r] = 0
    BY MovementFacts
  <1>2. \A r \in Row : stock'[r] >= 0 /\ stock'[r] = stock[r] + o.delta[r] /\ stock[r] \in Int
    BY AppliedTyped
  <1>3. \A r \in Row : stock[r] + m.delta[r] >= 0
    BY DEF Affordable
  <1> HIDE DEF m
  <1>4. \A r \in Row : stock'[r] + m.delta[r] >= 0
    <2> TAKE r \in Row
    <2>1. CASE r \in Range(m.order)
      <3>1. o.delta[r] = 0
        BY <2>1 DEF m
      <3> QED
        BY <1>2, <1>3, <3>1
    <2>2. CASE r \notin Range(m.order)
      BY <1>1, <1>2, <2>2
    <2> QED
      BY <2>1, <2>2
  <1> QED
    BY <1>4 DEF Affordable, m

LEMMA TransferInit == Init => TransferInv /\ MovesTogether /\ JourneysConnect
  <1> SUFFICES ASSUME Init
               PROVE  TransferInv /\ MovesTogether /\ JourneysConnect
    OBVIOUS
  <1>1. stock \in [Row -> Int] /\ ledger \in [Row -> Int]
    BY DeploymentAssumption DEF Init, LedgerInit
  <1>2. Idle \in CallType /\ Idle.step = "idle" /\ Idle.of = None
    BY TransfersAssumption DEF Idle, CallType, Date
  <1>3. TypeOK
    BY <1>1, <1>2, TransfersAssumption DEF Init, TypeOK, CallType, Date
  <1>4. \A h \in Call : call[h] = Idle /\ ~Holding(h)
    BY <1>2 DEF Init, Holding
  <1>5. ReadStillTrue /\ LockedAffordable /\ CompletedOnce
    BY <1>2, <1>4 DEF Init, ReadStillTrue, LockedAffordable, CompletedOnce
  <1>6. HeldApart /\ ApprovalsStand /\ TravellersStay
    BY <1>2, <1>4 DEF Init, HeldApart, ApprovalsStand, TravellersStay
  <1>7. MovesTogether
    <2>1. \A i \in TransferId, p \in Person : TransferLogs(i, p) = 0
      <3> TAKE i \in TransferId, p \in Person
      <3>1. {k \in DOMAIN journey[p] : journey[p][k].transfer = i} = {}
        BY DEF Init
      <3> QED
        BY <3>1, FS_EmptySet DEF TransferLogs
    <2> QED
      BY <2>1 DEF Init, MovesTogether
  <1>8. JourneysConnect
    BY DEF Init, JourneysConnect
  <1> QED
    BY <1>3, <1>5, <1>6, <1>7, <1>8 DEF TransferInv

-----------------------------------------------------------------------------
(* A call that goes on from what it was to c leaves the other calls alone. *)
LEMMA OneCall ==
  ASSUME TypeOK, NEW h \in Call, NEW c \in CallType, call' = [call EXCEPT ![h] = c]
  PROVE  /\ call' \in [Call -> CallType] /\ call'[h] = c
         /\ \A g \in Call : g # h => call'[g] = call[g]
  BY DEF TypeOK, CallType

(* Where a call holds a transfer, it is one of the transfers. *)
LEMMA OfTransfer ==
  ASSUME TypeOK, HeldApart, NEW h \in Call, call[h].step # "idle"
  PROVE  /\ call[h].of \in TransferId /\ call[h] \in CallType
         /\ plan[call[h].of] \in Proposal
         /\ Movement(plan[call[h].of]).delta \in [Row -> Int]
  <1>1. call[h].of \in TransferId /\ call[h] \in CallType
    BY TransfersAssumption DEF HeldApart, TypeOK, CallType
  <1> QED
    BY <1>1, MovementFacts DEF TypeOK

(* The end of a call: it holds nothing any more. *)
LEMMA AnswerFacts ==
  ASSUME TypeOK, HeldApart, ReadStillTrue, NEW h \in Call, NEW i \in TransferId,
         call[h].step # "idle", call[h].of = i, Answer(h)
  PROVE  /\ call' \in [Call -> CallType]
         /\ call'[h].step = "idle" /\ call'[h].of = None /\ ~Holding(h)'
         /\ \A g \in Call : g # h => call'[g] = call[g] /\ (Holding(g)' <=> Holding(g))
         /\ \A k : k \in TransferId => Holders(k)' = Holders(k) \ {h}
         /\ i \notin contested => \A g \in Call : g # h => call[g].of # i
  <1>1. Idle \in CallType /\ Idle.step = "idle" /\ Idle.of = None
    BY TransfersAssumption DEF Idle, CallType, Date
  <1>2. call' \in [Call -> CallType] /\ call'[h] = Idle /\ \A g \in Call : g # h => call'[g] = call[g]
    BY <1>1, OneCall DEF Answer
  <1>3. \A k : k \in TransferId => Holders(k)' = Holders(k) \ {h}
    BY <1>1, <1>2, TransfersAssumption DEF Holders
  <1>4. i \notin contested => Holders(i) = {h}
    BY TransfersAssumption DEF ReadStillTrue
  <1> QED
    BY <1>1, <1>2, <1>3, <1>4 DEF Holding, Holders

(* What the calls have read and locked, when one of them ends. *)
LEMMA AnswerHolds ==
  ASSUME TypeOK, HeldApart, ReadStillTrue, NEW h \in Call, NEW i \in TransferId,
         call[h].step # "idle", call[h].of = i, Answer(h),
         UNCHANGED <<plan, contested>>,
         \A k \in TransferId : k # i => status'[k] = status[k]
  PROVE  HeldApart' /\ ReadStillTrue'
  <1>1. HeldApart'
    <2>1. \A g \in Call : call'[g].of = None <=> call'[g].step = "idle"
      BY AnswerFacts DEF HeldApart
    <2>2. ASSUME NEW g \in Call, NEW f \in Call, Holding(g)', Holding(f)', g # f
          PROVE  (Writes(call[g].of) \cap Writes(call[f].of) = {})'
      <3>1. /\ g # h /\ f # h /\ Holding(g) /\ Holding(f)
            /\ call'[g] = call[g] /\ call'[f] = call[f]
        BY <2>2, AnswerFacts
      <3>2. Writes(call[g].of) \cap Writes(call[f].of) = {}
        BY <2>2, <3>1 DEF HeldApart
      <3> QED
        BY <3>1, <3>2 DEF Writes
    <2> QED
      BY <2>1, <2>2 DEF HeldApart
  <1>2. ReadStillTrue'
    <2>1. ASSUME NEW g \in Call, call'[g].of # None, call'[g].of \notin contested'
          PROVE  /\ g # h /\ call'[g] = call[g] /\ call[g].of \in TransferId
                 /\ status'[call[g].of] = status[call[g].of]
                 /\ Holders(call[g].of)' = Holders(call[g].of)
      <3>1. g # h /\ call'[g] = call[g]
        BY <2>1, AnswerFacts
      <3>2. call[g].of \in TransferId
        BY <2>1, <3>1 DEF TypeOK
      <3>3. call[g].of # i
        BY <2>1, <3>1, AnswerFacts
      <3>4. \A k \in TransferId : k # i => Holders(k)' = Holders(k)
        BY AnswerFacts DEF Holders
      <3>5. PICK k \in TransferId : k = call[g].of
        BY <3>2
      <3>6. \A f : f \in Holders(k)' <=> f \in Holders(k)
        BY <3>3, <3>4, <3>5
      <3> QED
        BY <3>1, <3>2, <3>3, <3>4
    <2> QED
      BY <2>1 DEF ReadStillTrue
  <1> QED
    BY <1>1, <1>2

(* Approvals that are only ever given by the camps they stand for. *)
ApprovalsGrow ==
  /\ bySource' \in [TransferId -> Camp \cup {None}]
  /\ byTarget' \in [TransferId -> Camp \cup {None}]
  /\ \A i \in TransferId :
       bySource'[i] \in {bySource[i], plan[i].from} /\ byTarget'[i] \in {byTarget[i], plan[i].to}

(* Calls that are as they were, or have ended, still have the approvals. *)
LEMMA ApprovalsKept ==
  ASSUME TypeOK, HeldApart, ApprovalsStand, ApprovalsGrow, UNCHANGED plan,
         NEW g \in Call, call'[g] = call[g] \/ call'[g].step = "idle"
  PROVE  LET x == plan'[call'[g].of] IN
         /\ call'[g].step = "approveSource" => call'[g].by = x.from
         /\ call'[g].step = "approveTarget" => call'[g].by = x.to
         /\ call'[g].step \in {"approveTarget", "take"} \/ Holding(g)' =>
              bySource'[call'[g].of] = x.from
         /\ call'[g].step = "take" \/ Holding(g)' => byTarget'[call'[g].of] = x.to
  <1>1. CASE call'[g].step = "idle"
    BY <1>1 DEF Holding
  <1>2. CASE call'[g].step # "idle"
    <2>1. call'[g] = call[g] /\ call[g].step # "idle" /\ (Holding(g)' <=> Holding(g))
      BY <1>2 DEF Holding
    <2>2. call[g].of \in TransferId
      BY <2>1, OfTransfer
    <2>3. /\ bySource[call[g].of] = plan[call[g].of].from =>
               bySource'[call[g].of] = plan[call[g].of].from
          /\ byTarget[call[g].of] = plan[call[g].of].to =>
               byTarget'[call[g].of] = plan[call[g].of].to
      BY <2>2 DEF ApprovalsGrow
    <2> QED
      BY <2>1, <2>3 DEF ApprovalsStand
  <1> QED
    BY <1>1, <1>2

(* Moves and their approvals, when nothing moves. *)
LEMMA MovesSame ==
  ASSUME TypeOK, MovesTogether, ApprovalsGrow, UNCHANGED <<plan, journey, moved>>
  PROVE  MovesTogether'
  <1>1. \A i \in TransferId, p \in Person : TransferLogs(i, p)' = TransferLogs(i, p)
    BY DEF TransferLogs
  <1> QED
    BY <1>1 DEF MovesTogether, ApprovalsGrow

(* The travellers of the calls that go on, when nobody moves. *)
LEMMA TravellersKept ==
  ASSUME TravellersStay, UNCHANGED <<plan, home>>,
         NEW g \in Call, call'[g] = call[g] \/ call'[g].step = "idle"
  PROVE  LET x == plan'[call'[g].of] IN
         /\ call'[g].step = "take" \/ Holding(g)' => Provisioned(call[g].of)'
         /\ call'[g].step = "commit" => \A p \in x.people : home'[p] = x.from
  BY DEF TravellersStay, Holding, Provisioned

(* Calls that are as they were, or have ended, can afford what they took. *)
LEMMA AffordableKept ==
  ASSUME LockedAffordable, UNCHANGED <<plan, stock>>,
         NEW g \in Call, call'[g] = call[g] \/ call'[g].step = "idle", Holding(g)'
  PROVE  Affordable(Movement(plan[call[g].of]))'
  <1>1. call'[g] = call[g] /\ Holding(g)
    BY DEF Holding
  <1> QED
    BY <1>1 DEF LockedAffordable, Affordable

(***************************************************************************)
(* A call that ends without moving anything: scheduled, approved,          *)
(* rejected, or rolled back.                                               *)
(***************************************************************************)
LEMMA EndInv ==
  ASSUME TransferInv, NEW h \in Call, NEW i \in TransferId,
         call[h].step # "idle", call[h].of = i, Answer(h),
         UNCHANGED <<stock, ledger, home, health, journey, plan, moved, contested>>,
         NEW s \in {"NONE"} \cup Open \cup Closed, status' = [status EXCEPT ![i] = s],
         s = status[i] \/ (i \notin contested => moved[i] = 0 /\ s # "COMPLETED"),
         date' \in [TransferId -> Date], ApprovalsGrow,
         s \in {"APPROVED_SOURCE", "APPROVED_TARGET"} => bySource'[i] = plan[i].from,
         s = "APPROVED_TARGET" => byTarget'[i] = plan[i].to
  PROVE  TransferInv'
  <1> USE DEF TransferInv
  <1>1. status' \in [TransferId -> {"NONE"} \cup Open \cup Closed]
          /\ status'[i] = s /\ \A k \in TransferId : k # i => status'[k] = status[k]
    BY DEF TypeOK
  <1>2. call' \in [Call -> CallType]
    BY AnswerFacts
  <1>3. \A g \in Call : call'[g] = call[g] \/ call'[g].step = "idle"
    BY AnswerFacts
  <1>4. TypeOK'
    BY <1>1, <1>2 DEF TypeOK, ApprovalsGrow, CallType
  <1>5. HeldApart' /\ ReadStillTrue'
    BY <1>1, AnswerHolds
  <1>6. LockedAffordable'
    BY <1>3, AffordableKept DEF LockedAffordable
  <1>7. CompletedOnce'
    BY <1>1 DEF CompletedOnce
  <1>8. ApprovalsStand'
    <2>1. \A k \in TransferId :
            /\ status'[k] \in {"APPROVED_SOURCE", "APPROVED_TARGET"} => bySource'[k] = plan[k].from
            /\ status'[k] = "APPROVED_TARGET" => byTarget'[k] = plan[k].to
      BY <1>1 DEF ApprovalsStand, ApprovalsGrow
    <2> QED
      BY <1>3, <2>1, ApprovalsKept DEF ApprovalsStand
  <1>9. TravellersStay'
    BY <1>3, TravellersKept DEF TravellersStay
  <1> QED
    BY <1>4, <1>5, <1>6, <1>7, <1>8, <1>9

(* The calls that end by an update of the transfer's row, or by ROLLBACK. *)
LEMMA EndsInv ==
  ASSUME TransferInv, NEW h \in Call,
         \/ Schedule(h) \/ ApproveSource(h) \/ ApproveTarget(h) \/ Reject(h)
         \/ Abort(h) /\ call[h].step # "idle"
  PROVE  TransferInv' /\ (MovesTogether => MovesTogether')
  <1> USE DEF TransferInv
  <1>1. call[h].step # "idle" /\ Answer(h)
    BY DEF Schedule, ApproveSource, ApproveTarget, Reject, Abort
  <1>2. UNCHANGED <<stock, ledger, home, health, journey, plan, moved, contested>>
    BY DEF Schedule, ApproveSource, ApproveTarget, Reject, Abort
  <1>3. PICK i \in TransferId : call[h].of = i
    BY <1>1, OfTransfer
  <1>4. /\ call[h].by \in Camp \cup {None} /\ call[h].date \in Date
        /\ plan[i] \in Proposal /\ i \in TransferId
    BY <1>1, <1>3, OfTransfer DEF CallType
  <1>5. i \notin contested => moved[i] = 0 /\ status[i] \in Open
    BY <1>3, TransfersAssumption DEF ReadStillTrue, CompletedOnce, Open
  <1>6. CASE Schedule(h) \/ Abort(h)
    <2>1. date' \in [TransferId -> Date] /\ UNCHANGED <<status, bySource, byTarget>>
      BY <1>3, <1>4, <1>6 DEF Schedule, Abort, TypeOK, Date
    <2>2. ApprovalsGrow
      BY <2>1 DEF ApprovalsGrow, TypeOK
    <2>3. status' = [status EXCEPT ![i] = status[i]] /\ status[i] \in {"NONE"} \cup Open \cup Closed
      BY <2>1 DEF TypeOK
    <2>4. /\ status[i] \in {"APPROVED_SOURCE", "APPROVED_TARGET"} => bySource'[i] = plan[i].from
          /\ status[i] = "APPROVED_TARGET" => byTarget'[i] = plan[i].to
      BY <2>1 DEF ApprovalsStand
    <2> QED
      BY <1>1, <1>2, <1>3, <2>1, <2>2, <2>3, <2>4, EndInv, MovesSame
  <1>7. CASE ApproveSource(h)
    <2>1. /\ bySource' = [bySource EXCEPT ![i] = plan[i].from] /\ UNCHANGED byTarget
          /\ status' = [status EXCEPT ![i] = "APPROVED_SOURCE"]
          /\ date' = [date EXCEPT ![i] = call[h].date]
      BY <1>3, <1>7 DEF ApproveSource, ApprovalsStand
    <2>2. plan[i].from \in Camp
      BY <1>4, MovementFacts DEF ProposalType
    <2>3. ApprovalsGrow /\ bySource'[i] = plan[i].from
      BY <2>1, <2>2 DEF ApprovalsGrow, TypeOK
    <2>4. date' \in [TransferId -> Date]
      BY <1>4, <2>1 DEF TypeOK
    <2> QED
      BY <1>1, <1>2, <1>3, <1>5, <2>1, <2>3, <2>4, EndInv, MovesSame DEF Open
  <1>8. CASE ApproveTarget(h)
    <2>1. /\ byTarget' = [byTarget EXCEPT ![i] = plan[i].to] /\ UNCHANGED <<bySource, date>>
          /\ status' = [status EXCEPT ![i] = "APPROVED_TARGET"]
          /\ bySource[i] = plan[i].from
      BY <1>3, <1>8 DEF ApproveTarget, ApprovalsStand
    <2>2. plan[i].to \in Camp
      BY <1>4, MovementFacts DEF ProposalType
    <2>3. ApprovalsGrow /\ byTarget'[i] = plan[i].to /\ bySource'[i] = plan[i].from
      BY <2>1, <2>2 DEF ApprovalsGrow, TypeOK
    <2>4. date' \in [TransferId -> Date]
      BY <2>1 DEF TypeOK
    <2> QED
      BY <1>1, <1>2, <1>3, <1>5, <2>1, <2>3, <2>4, EndInv, MovesSame DEF Open
  <1>9. CASE Reject(h)
    <2>1. /\ status' = [status EXCEPT ![i] = "REJECTED"] /\ UNCHANGED <<bySource, byTarget, date>>
      BY <1>3, <1>9 DEF Reject
    <2>2. ApprovalsGrow /\ date' \in [TransferId -> Date]
      BY <2>1 DEF ApprovalsGrow, TypeOK
    <2> QED
      BY <1>1, <1>2, <1>3, <1>5, <2>1, <2>2, EndInv, MovesSame DEF Closed
  <1> QED
    BY <1>6, <1>7, <1>8, <1>9

-----------------------------------------------------------------------------
(***************************************************************************)
(* A call that has read a transfer: the second one to do so while another  *)
(* holds it makes it contested, and otherwise what it read is so.          *)
(***************************************************************************)
LEMMA ProceedInv ==
  ASSUME TransferInv, NEW h \in Call, NEW i \in TransferId, NEW next \in CallType,
         Proceed(h, i, next), next.of = i, status[i] \in Open,
         next.step \in {"schedule", "approveSource", "approveTarget", "reject", "take"},
         next.step = "approveSource" => status[i] = "PENDING" /\ next.by = plan[i].from,
         next.step = "approveTarget" => status[i] = "APPROVED_SOURCE" /\ next.by = plan[i].to,
         next.step = "take" => status[i] = "APPROVED_TARGET" /\ Provisioned(i)
  PROVE  TransferInv'
  <1> USE DEF TransferInv
  <1>1. /\ call[h] = Idle /\ call' = [call EXCEPT ![h] = next]
        /\ contested' = IF Holders(i) # {} THEN contested \cup {i} ELSE contested
        /\ UNCHANGED <<stock, ledger, home, health, journey, status, plan, date,
                       bySource, byTarget, moved>>
    BY DEF Proceed
  <1>2. /\ call' \in [Call -> CallType] /\ call'[h] = next
        /\ \A g \in Call : g # h => call'[g] = call[g]
    BY <1>1, OneCall
  <1>3. i # None /\ call[h].of = None /\ call[h].step = "idle"
    BY <1>1, TransfersAssumption DEF Idle
  <1>4. ~Holding(h)' /\ ~Holding(h) /\ \A g \in Call : g # h => (Holding(g)' <=> Holding(g))
    BY <1>2, <1>3 DEF Holding
  <1>5. TypeOK'
    BY <1>1, <1>2 DEF TypeOK, CallType
  <1>6. HeldApart'
    <2>1. \A g \in Call : call'[g].of = None <=> call'[g].step = "idle"
      BY <1>2, <1>3 DEF HeldApart
    <2>2. ASSUME NEW g \in Call, NEW f \in Call, Holding(g)', Holding(f)', g # f
          PROVE  (Writes(call[g].of) \cap Writes(call[f].of) = {})'
      <3>1. /\ Holding(g) /\ Holding(f) /\ call'[g] = call[g] /\ call'[f] = call[f]
        BY <1>2, <1>4, <2>2
      <3>2. Writes(call[g].of) \cap Writes(call[f].of) = {}
        BY <2>2, <3>1 DEF HeldApart
      <3> QED
        BY <1>1, <3>1, <3>2 DEF Writes
    <2> QED
      BY <2>1, <2>2 DEF HeldApart
  <1>7. ReadStillTrue'
    <2>1. \A k \in TransferId : k # i => Holders(k)' = Holders(k) /\ (k \notin contested' => k \notin contested)
      BY <1>1, <1>2, <1>3, TransfersAssumption DEF Holders
    <2>2. i \notin contested' => Holders(i)' = {h} /\ i \notin contested
      BY <1>1, <1>2 DEF Holders
    <2>3. ASSUME NEW g \in Call, call'[g].of # None, call'[g].of \notin contested'
          PROVE  /\ Holders(call[g].of)' = {g}
                 /\ status'[call'[g].of] \in Open
                 /\ call'[g].step = "approveSource" => status'[call'[g].of] = "PENDING"
                 /\ call'[g].step = "approveTarget" => status'[call'[g].of] = "APPROVED_SOURCE"
                 /\ call'[g].step \in {"take", "people", "commit"} =>
                      status'[call'[g].of] = "APPROVED_TARGET"
      <3>1. CASE call'[g].of = i
        <4>1. g = h
          BY <2>2, <2>3, <3>1 DEF Holders
        <4> QED
          BY <1>1, <1>2, <2>2, <2>3, <3>1, <4>1
      <3>2. CASE call'[g].of # i
        <4>1. g # h /\ call'[g] = call[g]
          BY <1>2, <3>2
        <4>2. PICK k \in TransferId : k = call[g].of
          BY <2>3, <4>1 DEF TypeOK
        <4>3. Holders(k)' = Holders(k) /\ k \notin contested
          BY <2>1, <2>3, <3>2, <4>1, <4>2
        <4>4. Holders(k) = {g}
          BY <2>3, <4>1, <4>2, <4>3 DEF ReadStillTrue
        <4>5. Holders(call[g].of)' = {g}
          BY <4>1, <4>2, <4>3, <4>4
        <4> QED
          BY <1>1, <2>3, <4>1, <4>2, <4>3, <4>5 DEF ReadStillTrue
      <3> QED
        BY <3>1, <3>2
    <2> QED
      BY <2>3 DEF ReadStillTrue
  <1>8. LockedAffordable'
    BY <1>1, <1>2, <1>4 DEF LockedAffordable, Affordable
  <1>9. CompletedOnce'
    BY <1>1 DEF CompletedOnce
  <1>10. ApprovalsStand'
    <2>1. ApprovalsGrow
      BY <1>1 DEF ApprovalsGrow, TypeOK
    <2>2. \A g \in Call :
            LET x == plan'[call'[g].of] IN
            /\ call'[g].step = "approveSource" => call'[g].by = x.from
            /\ call'[g].step = "approveTarget" => call'[g].by = x.to
            /\ call'[g].step \in {"approveTarget", "take"} \/ Holding(g)' =>
                 bySource'[call'[g].of] = x.from
            /\ call'[g].step = "take" \/ Holding(g)' => byTarget'[call'[g].of] = x.to
      <3> TAKE g \in Call
      <3>1. CASE g = h
        BY <1>1, <1>2, <1>4, <3>1 DEF ApprovalsStand
      <3>2. CASE g # h
        BY <1>1, <1>2, <2>1, <3>2, ApprovalsKept
      <3> QED
        BY <3>1, <3>2
    <2> QED
      BY <1>1, <2>2 DEF ApprovalsStand
  <1>11. TravellersStay'
    <2>1. \A g \in Call :
            LET x == plan'[call'[g].of] IN
            /\ call'[g].step = "take" \/ Holding(g)' => Provisioned(call[g].of)'
            /\ call'[g].step = "commit" => \A p \in x.people : home'[p] = x.from
      <3> TAKE g \in Call
      <3>1. CASE g = h
        BY <1>1, <1>2, <1>4, <3>1 DEF Provisioned
      <3>2. CASE g # h
        BY <1>1, <1>2, <3>2, TravellersKept
      <3> QED
        BY <3>1, <3>2
    <2> QED
      BY <2>1 DEF TravellersStay
  <1> QED
    BY <1>5, <1>6, <1>7, <1>8, <1>9, <1>10, <1>11

LEMMA ReadsInv ==
  ASSUME TransferInv, NEW h \in Call, NEW i \in TransferId, NEW c \in Camp, Reads(h, i, c)
  PROVE  TransferInv' /\ (MovesTogether => MovesTogether')
  <1>1. TypeOK
    BY DEF TransferInv
  <1>2. ASSUME NEW next \in CallType, Proceed(h, i, next)
        PROVE  MovesTogether => MovesTogether'
    <2>1. UNCHANGED <<plan, journey, moved>> /\ ApprovalsGrow
      BY <1>1, <1>2 DEF Proceed, ApprovalsGrow, TypeOK
    <2> QED
      BY <1>1, <2>1, MovesSame
  <1>3. Idle \in CallType
    BY TransfersAssumption DEF Idle, CallType, Date
  <1>4. CASE ReadForSchedule(h, i, c)
    <2> DEFINE next == [Idle EXCEPT !.step = "schedule", !.of = i, !.by = c]
    <2>1. next \in CallType /\ next.of = i /\ next.step = "schedule"
      BY <1>3 DEF CallType, Steps, Idle
    <2>2. Proceed(h, i, next) /\ status[i] \in Open
      BY <1>4 DEF ReadForSchedule
    <2> QED
      BY <1>2, <2>1, <2>2, ProceedInv
  <1>5. ASSUME NEW d \in Date, ReadForSource(h, i, c, d)
        PROVE  TransferInv' /\ (MovesTogether => MovesTogether')
    <2> DEFINE effective == IF d = "none" THEN date[i] ELSE d
               next == [Idle EXCEPT !.step = "approveSource", !.of = i, !.by = c, !.date = effective]
    <2>1. effective \in Date
      BY <1>1 DEF TypeOK
    <2>2. Proceed(h, i, next) /\ status[i] = "PENDING" /\ c = plan[i].from
      BY <1>5 DEF ReadForSource
    <2> HIDE DEF effective
    <2>3. next \in CallType /\ next.of = i /\ next.step = "approveSource" /\ next.by = c
      BY <1>3, <2>1 DEF CallType, Steps, Idle
    <2> QED
      BY <1>2, <2>2, <2>3, ProceedInv DEF Open
  <1>6. CASE ReadForTarget(h, i, c)
    <2> DEFINE next == [Idle EXCEPT !.step = "approveTarget", !.of = i, !.by = c]
    <2>1. next \in CallType /\ next.of = i /\ next.step = "approveTarget" /\ next.by = c
      BY <1>3 DEF CallType, Steps, Idle
    <2>2. Proceed(h, i, next) /\ status[i] = "APPROVED_SOURCE" /\ c = plan[i].to
      BY <1>6 DEF ReadForTarget
    <2> QED
      BY <1>2, <2>1, <2>2, ProceedInv DEF Open
  <1>7. CASE ReadForReject(h, i, c)
    <2> DEFINE next == [Idle EXCEPT !.step = "reject", !.of = i, !.by = c]
    <2>1. next \in CallType /\ next.of = i /\ next.step = "reject"
      BY <1>3 DEF CallType, Steps, Idle
    <2>2. Proceed(h, i, next) /\ status[i] \in Open
      BY <1>7 DEF ReadForReject
    <2> QED
      BY <1>2, <2>1, <2>2, ProceedInv
  <1>8. ASSUME NEW s \in Status, ReadForComplete(h, i, c, s)
        PROVE  TransferInv' /\ (MovesTogether => MovesTogether')
    <2> DEFINE next == [Idle EXCEPT !.step = "take", !.of = i, !.by = c, !.health = s]
    <2>1. next \in CallType /\ next.of = i /\ next.step = "take"
      BY <1>3 DEF CallType, Steps, Idle
    <2>2. Proceed(h, i, next) /\ status[i] = "APPROVED_TARGET" /\ Provisioned(i)
      BY <1>8 DEF ReadForComplete
    <2> QED
      BY <1>2, <2>1, <2>2, ProceedInv DEF Open
  <1> QED
    BY <1>4, <1>5, <1>6, <1>7, <1>8 DEF Reads

-----------------------------------------------------------------------------
(* A completion that goes on: what it has locked and seen is with it. *)
LEMMA AdvanceInv ==
  ASSUME TransferInv, NEW h \in Call, NEW step \in {"people", "commit"}, Advance(h, step),
         call[h].step = "take" \/ Holding(h),
         \A r \in Writes(call[h].of) : \A g \in Call : g # h /\ Holding(g) => r \notin Writes(call[g].of),
         Affordable(Movement(plan[call[h].of])),
         step = "commit" => \A p \in plan[call[h].of].people : home[p] = plan[call[h].of].from
  PROVE  TransferInv' /\ (MovesTogether => MovesTogether')
  <1> USE DEF TransferInv
  <1> DEFINE c == [call[h] EXCEPT !.step = step]
  <1>1. /\ call' = [call EXCEPT ![h] = c]
        /\ UNCHANGED <<stock, ledger, home, health, journey, status, plan, date,
                       bySource, byTarget, moved, contested>>
    BY DEF Advance, TypeOK
  <1>2. call[h].step \in {"take", "people", "commit"}
    BY DEF Holding
  <1>3. c \in CallType /\ c.step = step /\ c.of = call[h].of /\ c.by = call[h].by
    BY <1>2, OfTransfer DEF CallType, Steps
  <1> HIDE DEF c
  <1>4. /\ call' \in [Call -> CallType] /\ call'[h] = c
        /\ \A g \in Call : g # h => call'[g] = call[g] /\ (Holding(g)' <=> Holding(g))
        /\ \A g \in Call : call'[g].of = call[g].of
        /\ Holding(h)'
    BY <1>1, <1>3, OneCall DEF Holding
  <1>5. TypeOK'
    BY <1>1, <1>4 DEF TypeOK, CallType
  <1>6. HeldApart'
    <2>1. \A g \in Call : call'[g].of = None <=> call'[g].step = "idle"
      BY <1>2, <1>3, <1>4 DEF HeldApart
    <2>2. \A g \in Call : Writes(call[g].of)' = Writes(call[g].of)
      BY <1>1, <1>4 DEF Writes
    <2>3. ASSUME NEW g \in Call, NEW f \in Call, Holding(g)', Holding(f)', g # f
          PROVE  Writes(call[g].of) \cap Writes(call[f].of) = {}
      BY <1>4, <2>3 DEF HeldApart
    <2> QED
      BY <2>1, <2>2, <2>3 DEF HeldApart
  <1>7. ReadStillTrue'
    <2>1. \A k : Holders(k)' = Holders(k)
      BY <1>4 DEF Holders
    <2>2. \A g \in Call : call'[g].of # None => Holders(call[g].of)' = Holders(call[g].of)
      BY <1>4 DEF Holders
    <2>3. \A g \in Call : g # h => call'[g].step = call[g].step
      BY <1>4
    <2>4. call'[h].step \in {"people", "commit"}
      BY <1>3, <1>4
    <2> QED
      BY <1>1, <1>2, <1>4, <2>2, <2>3, <2>4 DEF ReadStillTrue
  <1>8. LockedAffordable'
    <2> SUFFICES ASSUME NEW g \in Call, Holding(g)'
                 PROVE  Affordable(Movement(plan[call[g].of]))'
      BY DEF LockedAffordable
    <2>1. CASE g = h
      BY <1>1, <1>4, <2>1 DEF Affordable
    <2>2. CASE g # h
      BY <1>1, <1>4, <2>2 DEF LockedAffordable, Affordable
    <2> QED
      BY <2>1, <2>2
  <1>9. CompletedOnce'
    BY <1>1 DEF CompletedOnce
  <1>10. ApprovalsGrow
    BY <1>1 DEF ApprovalsGrow, TypeOK
  <1>11. ApprovalsStand'
    <2>1. \A g \in Call :
            LET x == plan'[call'[g].of] IN
            /\ call'[g].step = "approveSource" => call'[g].by = x.from
            /\ call'[g].step = "approveTarget" => call'[g].by = x.to
            /\ call'[g].step \in {"approveTarget", "take"} \/ Holding(g)' =>
                 bySource'[call'[g].of] = x.from
            /\ call'[g].step = "take" \/ Holding(g)' => byTarget'[call'[g].of] = x.to
      <3> TAKE g \in Call
      <3>1. CASE g = h
        BY <1>1, <1>2, <1>3, <1>4, <3>1 DEF ApprovalsStand
      <3>2. CASE g # h
        BY <1>1, <1>4, <1>10, <3>2, ApprovalsKept
      <3> QED
        BY <3>1, <3>2
    <2> QED
      BY <1>1, <2>1 DEF ApprovalsStand
  <1>12. TravellersStay'
    <2>1. \A g \in Call :
            LET x == plan'[call'[g].of] IN
            /\ call'[g].step = "take" \/ Holding(g)' => Provisioned(call[g].of)'
            /\ call'[g].step = "commit" => \A p \in x.people : home'[p] = x.from
      <3> TAKE g \in Call
      <3>1. CASE g = h
        BY <1>1, <1>2, <1>3, <1>4, <3>1 DEF Provisioned, TravellersStay
      <3>2. CASE g # h
        BY <1>1, <1>4, <3>2, TravellersKept
      <3> QED
        BY <3>1, <3>2
    <2> QED
      BY <2>1 DEF TravellersStay
  <1>13. MovesTogether => MovesTogether'
    BY <1>1, <1>10, MovesSame
  <1> QED
    BY <1>5, <1>6, <1>7, <1>8, <1>9, <1>11, <1>12, <1>13

LEMMA TakesAndChecksInv ==
  ASSUME TransferInv, NEW h \in Call, TakeResources(h) \/ CheckPeople(h)
  PROVE  TransferInv' /\ (MovesTogether => MovesTogether')
  <1>1. call[h].step \in {"take", "people"} /\ call[h].step # "idle"
    BY DEF TakeResources, CheckPeople
  <1>2. CASE Abort(h)
    BY <1>1, <1>2, EndsInv
  <1>3. CASE TakeResources(h) /\ ~Abort(h)
    <2>1. /\ call[h].step = "take" /\ Advance(h, "people")
          /\ Affordable(Movement(plan[call[h].of]))
          /\ \A r \in Writes(call[h].of) : ~Locked(r)
      BY <1>3 DEF TakeResources
    <2> QED
      BY <2>1, AdvanceInv DEF Locked
  <1>4. CASE CheckPeople(h) /\ ~Abort(h)
    <2>1. /\ call[h].step = "people" /\ Advance(h, "commit") /\ Holding(h)
          /\ \A p \in plan[call[h].of].people : home[p] = plan[call[h].of].from
      BY <1>4 DEF CheckPeople, Holding
    <2>2. \A r \in Writes(call[h].of) : \A g \in Call :
             g # h /\ Holding(g) => r \notin Writes(call[g].of)
      BY <2>1 DEF TransferInv, HeldApart
    <2>3. Affordable(Movement(plan[call[h].of]))
      BY <2>1 DEF TransferInv, LockedAffordable
    <2> QED
      BY <2>1, <2>2, <2>3, AdvanceInv
  <1> QED
    BY <1>2, <1>3, <1>4

-----------------------------------------------------------------------------
(* What the others have locked stays affordable when o leaves it alone. *)
LEMMA OthersAffordable ==
  ASSUME TransferInv, NEW o, o.delta \in [Row -> Int], Apply(o), UNCHANGED plan,
         NEW g \in Call, Holding(g), call'[g] = call[g],
         \A r \in Writes(call[g].of) : r \in Row => o.delta[r] = 0
  PROVE  Affordable(Movement(plan[call[g].of]))'
  <1>1. call[g].step # "idle"
    BY DEF Holding
  <1>2. PICK k \in TransferId : k = call[g].of
    BY <1>1, OfTransfer DEF TransferInv
  <1>3. plan[k] \in Proposal /\ plan' = plan
    BY DEF TransferInv, TypeOK
  <1>4. Affordable(Movement(plan[k])) /\ \A r \in Range(Movement(plan[k]).order) : r \in Row => o.delta[r] = 0
    BY <1>2 DEF TransferInv, LockedAffordable, Writes
  <1>5. PICK x \in Proposal : x = plan[k]
    BY <1>3
  <1>6. Affordable(Movement(x))'
    BY <1>4, <1>5, StaysAffordable DEF TransferInv, TypeOK
  <1> QED
    BY <1>2, <1>3, <1>5, <1>6

(* A completion has not been overtaken by another that carries its people. *)
LEMMA NobodyOvertakes ==
  ASSUME TransferInv, NEW h \in Call, NEW g \in Call, g # h,
         call[h].step = "commit", call[g].step = "commit", NEW p \in Person
  PROVE  ~(p \in plan[call[h].of].people /\ p \in plan[call[g].of].people)
  <1> SUFFICES ASSUME p \in plan[call[h].of].people, p \in plan[call[g].of].people
               PROVE  FALSE
    OBVIOUS
  <1>1. Holding(h) /\ Holding(g)
    BY DEF Holding
  <1>2. call[h].of \in TransferId /\ call[g].of \in TransferId
    BY OfTransfer DEF TransferInv
  <1>3. Provisioned(call[h].of) /\ Provisioned(call[g].of)
    BY <1>1 DEF TransferInv, TravellersStay
  <1>4. plan[call[h].of].from = plan[call[g].of].from
    BY DEF TransferInv, TravellersStay
  <1>5. /\ <<plan[call[h].of].from, Ration>> \in Writes(call[h].of)
        /\ <<plan[call[g].of].from, Ration>> \in Writes(call[g].of)
    BY <1>2, <1>3, RationsTaken DEF TransferInv, TypeOK
  <1> QED
    BY <1>1, <1>4, <1>5 DEF TransferInv, HeldApart

LEMMA CompleteInv ==
  ASSUME TransferInv, NEW h \in Call, Complete(h)
  PROVE  TransferInv'
  <1> USE DEF TransferInv
  <1>1. call[h].step = "commit" /\ call[h].step # "idle" /\ Holding(h) /\ Answer(h)
    BY DEF Complete, Holding
  <1>2. PICK i \in TransferId : call[h].of = i
    BY <1>1, OfTransfer
  <1> DEFINE x == plan[i]
             m == Movement(x)
  <1>3. /\ Apply(m)
        /\ home' = [p \in Person |-> IF p \in x.people THEN x.to ELSE home[p]]
        /\ health' = [p \in Person |-> IF p \in x.people THEN call[h].health ELSE health[p]]
        /\ journey' = [p \in Person |->
                         IF p \in x.people
                         THEN Append(journey[p], [transfer |-> i, from |-> x.from, to |-> x.to])
                         ELSE journey[p]]
        /\ status' = [status EXCEPT ![i] = "COMPLETED"]
        /\ moved' = [moved EXCEPT ![i] = @ + 1]
        /\ UNCHANGED <<plan, date, bySource, byTarget, contested>>
    BY <1>2 DEF Complete
  <1>4. /\ x \in Proposal /\ x.from \in Camp /\ x.to \in Camp
        /\ m.delta \in [Row -> Int] /\ \A r \in Row : r \notin Writes(i) => m.delta[r] = 0
    BY MovementFacts DEF TypeOK, ProposalType, Writes
  <1> HIDE DEF m
  <1>5. call[h].health \in Status
    BY <1>1, OfTransfer DEF CallType
  <1>6. call' \in [Call -> CallType]
    BY <1>1, <1>2, AnswerFacts
  <1>7. TypeOK'
    <2>1. stock' \in [Row -> Int] /\ ledger' \in [Row -> Int]
      BY <1>3, <1>4, AppliedTyped DEF TypeOK
    <2>2. home' \in [Person -> Camp] /\ health' \in [Person -> Status]
      BY <1>3, <1>4, <1>5 DEF TypeOK
    <2>3. journey' \in [Person -> Seq([transfer : TransferId, from : Camp, to : Camp])]
      <3> DEFINE Leg == [transfer : TransferId, from : Camp, to : Camp]
                 leg == [transfer |-> i, from |-> x.from, to |-> x.to]
      <3>1. leg \in Leg /\ journey \in [Person -> Seq(Leg)]
        BY <1>4 DEF TypeOK
      <3>2. journey' = [p \in Person |-> IF p \in x.people THEN Append(journey[p], leg) ELSE journey[p]]
        BY <1>3
      <3> HIDE DEF Leg, leg, x
      <3>3. \A p \in Person : Append(journey[p], leg) \in Seq(Leg) /\ journey[p] \in Seq(Leg)
        BY <3>1
      <3>4. journey' \in [Person -> Seq(Leg)]
        BY <3>2, <3>3
      <3> QED
        BY <3>4 DEF Leg
    <2>4. status' \in [TransferId -> {"NONE"} \cup Open \cup Closed] /\ moved' \in [TransferId -> Nat]
      BY <1>3 DEF TypeOK, Closed
    <2> QED
      BY <1>3, <1>6, <2>1, <2>2, <2>3, <2>4 DEF TypeOK, CallType
  <1>8. status'[i] = "COMPLETED" /\ \A k \in TransferId : k # i => status'[k] = status[k] /\ moved'[k] = moved[k]
    BY <1>3 DEF TypeOK
  <1>9. \A g \in Call : call'[g] = call[g] \/ call'[g].step = "idle"
    BY <1>1, <1>2, AnswerFacts
  <1>10. HeldApart' /\ ReadStillTrue'
    BY <1>1, <1>2, <1>3, <1>8, AnswerHolds
  <1>11. LockedAffordable'
    <2> SUFFICES ASSUME NEW g \in Call, Holding(g)'
                 PROVE  Affordable(Movement(plan[call[g].of]))'
      BY DEF LockedAffordable
    <2>1. g # h /\ call'[g] = call[g] /\ Holding(g)
      BY <1>1, <1>2, AnswerFacts
    <2>2. Writes(call[g].of) \cap Writes(i) = {}
      BY <1>1, <1>2, <2>1 DEF HeldApart
    <2> QED
      BY <1>3, <1>4, <2>1, <2>2, OthersAffordable
  <1>12. CompletedOnce'
    <2>1. i \notin contested => moved[i] = 0
      BY <1>1, <1>2, TransfersAssumption DEF ReadStillTrue, CompletedOnce
    <2>2. moved'[i] = moved[i] + 1
      BY <1>3 DEF TypeOK
    <2> QED
      BY <1>3, <1>8, <2>1, <2>2 DEF CompletedOnce
  <1>13. ApprovalsGrow
    BY <1>3 DEF ApprovalsGrow, TypeOK
  <1>14. ApprovalsStand'
    <2>1. \A k \in TransferId :
            /\ status'[k] \in {"APPROVED_SOURCE", "APPROVED_TARGET"} => bySource'[k] = plan'[k].from
            /\ status'[k] = "APPROVED_TARGET" => byTarget'[k] = plan'[k].to
      BY <1>3, <1>8 DEF ApprovalsStand
    <2> QED
      BY <1>3, <1>9, <1>13, <2>1, ApprovalsKept DEF ApprovalsStand
  <1>15. TravellersStay'
    <2> SUFFICES ASSUME NEW g \in Call, call'[g].step # "idle"
                 PROVE  LET y == plan'[call'[g].of] IN
                        /\ call'[g].step = "take" \/ Holding(g)' => Provisioned(call[g].of)'
                        /\ call'[g].step = "commit" => \A p \in y.people : home'[p] = y.from
      BY DEF TravellersStay, Holding
    <2>1. g # h /\ call'[g] = call[g] /\ (Holding(g)' <=> Holding(g))
      BY <1>1, <1>2, AnswerFacts
    <2>2. call'[g].step = "take" \/ Holding(g)' => Provisioned(call[g].of)'
      BY <1>3, <2>1 DEF TravellersStay, Provisioned
    <2>3. ASSUME call[g].step = "commit", NEW p \in plan[call[g].of].people
          PROVE  home'[p] = plan[call[g].of].from
      <3>1. call[g].of \in TransferId /\ p \in Person
        BY <2>3, OfTransfer, MovementFacts DEF ProposalType
      <3>2. p \notin x.people
        BY <1>1, <1>2, <2>1, <2>3, <3>1, NobodyOvertakes
      <3>3. home'[p] = home[p]
        BY <1>3, <3>1, <3>2
      <3> QED
        BY <2>3, <3>3 DEF TravellersStay
    <2> QED
      BY <1>3, <2>1, <2>2, <2>3
  <1> QED
    BY <1>7, <1>10, <1>11, <1>12, <1>14, <1>15

-----------------------------------------------------------------------------
(* A step that leaves calls, stock and the rows of transfers alone. *)
LEMMA CallsStay ==
  ASSUME TransferInv,
         UNCHANGED <<stock, ledger, home, journey, status, plan, bySource, byTarget,
                     moved, call, contested>>,
         health' \in [Person -> Status], date' \in [TransferId -> Date]
  PROVE  TransferInv' /\ (MovesTogether => MovesTogether')
  <1>1. TypeOK'
    BY DEF TransferInv, TypeOK
  <1>2. /\ \A h : Holding(h)' <=> Holding(h)
        /\ \A i : Holders(i)' = Holders(i) /\ Writes(i)' = Writes(i)
        /\ \A i : Provisioned(i)' <=> Provisioned(i)
    BY DEF Holding, Holders, Writes, Provisioned
  <1>3. ReadStillTrue' /\ CompletedOnce'
    BY <1>2 DEF TransferInv, ReadStillTrue, CompletedOnce
  <1>4. LockedAffordable' /\ HeldApart'
    BY <1>2 DEF TransferInv, LockedAffordable, HeldApart, Affordable
  <1>5. ApprovalsStand' /\ TravellersStay'
    BY <1>2 DEF TransferInv, ApprovalsStand, TravellersStay
  <1>6. ApprovalsGrow
    BY DEF TransferInv, TypeOK, ApprovalsGrow
  <1> QED
    BY <1>1, <1>3, <1>4, <1>5, <1>6, MovesSame DEF TransferInv

(* A transfer that is created has no calls, and nothing approved. *)
LEMMA CreateInv ==
  ASSUME TransferInv, NEW i \in TransferId, NEW d \in {"none", "ahead"}, CreateTransfer(i, d)
  PROVE  TransferInv' /\ (MovesTogether => MovesTogether')
  <1>1. /\ status[i] = "NONE" /\ status' = [status EXCEPT ![i] = "PENDING"]
        /\ date' = [date EXCEPT ![i] = d]
        /\ UNCHANGED <<stock, ledger, home, health, journey, plan, bySource, byTarget,
                       moved, call, contested>>
    BY DEF CreateTransfer
  <1>2. status'[i] = "PENDING" /\ \A k \in TransferId : k # i => status'[k] = status[k]
    BY <1>1 DEF TransferInv, TypeOK
  <1>3. TypeOK'
    BY <1>1 DEF TransferInv, TypeOK, Open, Date
  <1>4. /\ \A h : Holding(h)' <=> Holding(h)
        /\ \A k : Holders(k)' = Holders(k) /\ Writes(k)' = Writes(k)
        /\ \A k : Provisioned(k)' <=> Provisioned(k)
    BY <1>1 DEF Holding, Holders, Writes, Provisioned
  <1>5. \A h \in Call : call[h].of \notin contested => call[h].of # i
    BY <1>1, TransfersAssumption DEF TransferInv, ReadStillTrue, Open
  <1>6. ReadStillTrue'
    <2>1. \A h \in Call : call[h].of # None => call[h].of \in TransferId
      BY DEF TransferInv, TypeOK
    <2> QED
      BY <1>1, <1>2, <1>4, <1>5, <2>1 DEF TransferInv, ReadStillTrue
  <1>7. CompletedOnce'
    BY <1>1, <1>2 DEF TransferInv, CompletedOnce
  <1>8. LockedAffordable' /\ HeldApart'
    BY <1>1, <1>4 DEF TransferInv, LockedAffordable, HeldApart, Affordable
  <1>9. ApprovalsStand' /\ TravellersStay'
    BY <1>1, <1>2, <1>4 DEF TransferInv, ApprovalsStand, TravellersStay
  <1>10. ApprovalsGrow
    BY <1>1 DEF TransferInv, TypeOK, ApprovalsGrow
  <1> QED
    BY <1>1, <1>3, <1>6, <1>7, <1>8, <1>9, <1>10, MovesSame DEF TransferInv

(* What others take and bring is not of the rows a completion holds. *)
LEMMA TrafficInv ==
  ASSUME TransferInv, OtherTraffic
  PROVE  TransferInv' /\ (MovesTogether => MovesTogether')
  <1>1. PICK o \in Workload : (\A r \in Range(o.order) : ~Locked(r)) /\ Apply(o)
    BY DEF OtherTraffic
  <1>2. UNCHANGED <<home, health, journey, status, plan, date, bySource, byTarget,
                    moved, call, contested>>
    BY DEF OtherTraffic
  <1>3. o.delta \in [Row -> Int] /\ \A r \in Row : o.delta[r] # 0 => r \in Range(o.order)
    BY WorkloadWellFormed DEF WellFormed, OperationType
  <1>4. TypeOK'
    BY <1>1, <1>2, <1>3, AppliedTyped DEF TransferInv, TypeOK
  <1>5. /\ \A h : Holding(h)' <=> Holding(h)
        /\ \A k : Holders(k)' = Holders(k) /\ Writes(k)' = Writes(k)
        /\ \A k : Provisioned(k)' <=> Provisioned(k)
    BY <1>2 DEF Holding, Holders, Writes, Provisioned
  <1>6. ReadStillTrue' /\ CompletedOnce'
    BY <1>2, <1>5 DEF TransferInv, ReadStillTrue, CompletedOnce
  <1>7. LockedAffordable'
    <2> SUFFICES ASSUME NEW g \in Call, Holding(g)'
                 PROVE  Affordable(Movement(plan[call[g].of]))'
      BY DEF LockedAffordable
    <2>1. Holding(g) /\ call'[g] = call[g]
      BY <1>2, <1>5
    <2>2. \A r \in Writes(call[g].of) : r \in Row => o.delta[r] = 0
      BY <1>1, <1>3, <2>1 DEF Locked
    <2> QED
      BY <1>1, <1>2, <1>3, <2>1, <2>2, OthersAffordable
  <1>8. HeldApart'
    BY <1>2, <1>5 DEF TransferInv, HeldApart
  <1>9. ApprovalsStand' /\ TravellersStay'
    BY <1>2, <1>5 DEF TransferInv, ApprovalsStand, TravellersStay
  <1>10. ApprovalsGrow
    BY <1>2 DEF TransferInv, TypeOK, ApprovalsGrow
  <1> QED
    BY <1>2, <1>4, <1>6, <1>7, <1>8, <1>9, <1>10, MovesSame DEF TransferInv

-----------------------------------------------------------------------------
(* The logs of transfer k in a journey. *)
LegsOf(legs, k) == {n \in DOMAIN legs : legs[n].transfer = k}

(* A leg that is appended to the journey of p is one log more of its transfer. *)
LEMMA LegCounted ==
  ASSUME NEW Leg, NEW legs \in Seq(Leg), NEW leg \in Leg, NEW k
  PROVE  /\ Cardinality(LegsOf(legs, k)) \in Nat
         /\ Cardinality(LegsOf(Append(legs, leg), k)) =
              IF leg.transfer = k THEN Cardinality(LegsOf(legs, k)) + 1
                                  ELSE Cardinality(LegsOf(legs, k))
  <1> DEFINE next == Append(legs, leg)
             l == Len(legs)
             S == LegsOf(legs, k)
             T == LegsOf(next, k)
  <1>1. /\ l \in Nat /\ DOMAIN legs = 1 .. l /\ DOMAIN next = 1 .. l + 1
        /\ next[l + 1] = leg /\ \A n \in 1 .. l : next[n] = legs[n]
    OBVIOUS
  <1>2. IsFiniteSet(S) /\ Cardinality(S) \in Nat
    <2>1. IsFiniteSet(1 .. l)
      BY <1>1, FS_Interval
    <2>2. S \in SUBSET (1 .. l)
      BY <1>1 DEF LegsOf
    <2>3. IsFiniteSet(S)
      BY <2>1, <2>2, FS_Subset
    <2> QED
      BY <2>3, FS_CardinalityType
  <1>3. T = IF leg.transfer = k THEN S \cup {l + 1} ELSE S
    <2> HIDE DEF next, l
    <2> QED
      BY <1>1 DEF LegsOf
  <1>4. l + 1 \notin S
    BY <1>1 DEF LegsOf
  <1> HIDE DEF S, T
  <1>5. Cardinality(S \cup {l + 1}) = Cardinality(S) + 1
    <2> DEFINE e == l + 1
    <2>1. e \notin S
      BY <1>4
    <2> HIDE DEF e
    <2>2. Cardinality(S \cup {e}) = Cardinality(S) + 1
      BY <1>2, <2>1, FS_AddElement
    <2> QED
      BY <2>2 DEF e
  <1>6. CASE leg.transfer = k
    <2>1. Cardinality(T) = Cardinality(S) + 1
      BY <1>3, <1>5, <1>6
    <2> QED
      BY <1>2, <1>6, <2>1 DEF S, T
  <1>7. CASE leg.transfer # k
    <2>1. Cardinality(T) = Cardinality(S)
      BY <1>3, <1>7
    <2> QED
      BY <1>2, <1>7, <2>1 DEF S, T
  <1> QED
    BY <1>6, <1>7

(* A completion moves its people, and logs the move of each of them once. *)
LEMMA CompleteMoves ==
  ASSUME TransferInv, MovesTogether, NEW h \in Call, Complete(h)
  PROVE  MovesTogether'
  <1>1. call[h].step = "commit" /\ call[h].step # "idle" /\ Holding(h)
    BY DEF Complete, Holding
  <1>2. PICK i \in TransferId : call[h].of = i
    BY <1>1, OfTransfer DEF TransferInv
  <1> DEFINE x == plan[i]
             leg == [transfer |-> i, from |-> x.from, to |-> x.to]
             Leg == [transfer : TransferId, from : Camp, to : Camp]
  <1>3. /\ journey' = [p \in Person |-> IF p \in x.people THEN Append(journey[p], leg) ELSE journey[p]]
        /\ moved' = [moved EXCEPT ![i] = @ + 1]
        /\ UNCHANGED <<plan, bySource, byTarget>>
    BY <1>2 DEF Complete
  <1>4. bySource[i] = x.from /\ byTarget[i] = x.to
    BY <1>1, <1>2 DEF TransferInv, ApprovalsStand
  <1>5. leg \in Leg /\ leg.transfer = i /\ journey \in [Person -> Seq(Leg)]
    <2>1. x \in Proposal
      BY DEF TransferInv, TypeOK
    <2>2. x.from \in Camp /\ x.to \in Camp
      BY <2>1, TransfersAssumption DEF ProposalType
    <2> QED
      BY <2>2 DEF TransferInv, TypeOK
  <1>6. moved \in [TransferId -> Nat] /\ moved'[i] = moved[i] + 1
          /\ \A k \in TransferId : k # i => moved'[k] = moved[k]
    BY <1>3 DEF TransferInv, TypeOK
  <1> HIDE DEF leg, Leg, x
  <1>7. ASSUME NEW k \in TransferId, NEW p \in Person
        PROVE  TransferLogs(k, p)' = TransferLogs(k, p) + (IF p \in x.people /\ k = i THEN 1 ELSE 0)
                 /\ TransferLogs(k, p) \in Nat
    <2>1. journey'[p] = IF p \in x.people THEN Append(journey[p], leg) ELSE journey[p]
      BY <1>3
    <2>2. journey[p] \in Seq(Leg)
      BY <1>5
    <2>3. TransferLogs(k, p)' = Cardinality(LegsOf(journey'[p], k))
            /\ TransferLogs(k, p) = Cardinality(LegsOf(journey[p], k))
      BY DEF TransferLogs, LegsOf
    <2>4. /\ Cardinality(LegsOf(journey[p], k)) \in Nat
          /\ Cardinality(LegsOf(Append(journey[p], leg), k)) =
               IF leg.transfer = k THEN Cardinality(LegsOf(journey[p], k)) + 1
                                   ELSE Cardinality(LegsOf(journey[p], k))
      BY <1>5, <2>2, LegCounted
    <2> QED
      BY <1>5, <2>1, <2>3, <2>4
  <1>8. \A k \in TransferId : \A p \in Person :
          TransferLogs(k, p)' = IF p \in plan'[k].people THEN moved'[k] ELSE 0
    <2> TAKE k \in TransferId
    <2> TAKE p \in Person
    <2>1. TransferLogs(k, p) = IF p \in plan[k].people THEN moved[k] ELSE 0
      BY DEF MovesTogether
    <2> QED
      BY <1>3, <1>6, <1>7, <2>1 DEF x
  <1>9. \A k \in TransferId : moved'[k] > 0 => bySource'[k] = plan'[k].from /\ byTarget'[k] = plan'[k].to
    BY <1>3, <1>4, <1>6 DEF MovesTogether, x
  <1> QED
    BY <1>8, <1>9 DEF MovesTogether

(* The camp p was in is where the leg that is appended begins. *)
LEMMA LegConnects ==
  ASSUME NEW Leg, NEW legs \in Seq(Leg), NEW leg \in Leg, NEW start, NEW here,
         here = IF legs = <<>> THEN start ELSE legs[Len(legs)].to,
         \A k \in DOMAIN legs : legs[k].from = IF k = 1 THEN start ELSE legs[k - 1].to,
         leg.from = here
  PROVE  LET next == Append(legs, leg) IN
         /\ next # <<>> /\ next[Len(next)] = leg
         /\ \A k \in DOMAIN next : next[k].from = IF k = 1 THEN start ELSE next[k - 1].to
  <1> DEFINE next == Append(legs, leg)
             l == Len(legs)
  <1>1. /\ l \in Nat /\ DOMAIN legs = 1 .. l /\ DOMAIN next = 1 .. l + 1 /\ Len(next) = l + 1
        /\ next[l + 1] = leg /\ \A n \in 1 .. l : next[n] = legs[n]
        /\ next # <<>> /\ (legs = <<>> <=> l = 0)
    OBVIOUS
  <1> HIDE DEF next, l
  <1>2. ASSUME NEW k \in 1 .. l + 1
        PROVE  next[k].from = IF k = 1 THEN start ELSE next[k - 1].to
    <2>1. CASE k = l + 1
      BY <1>1, <2>1 DEF l
    <2>2. CASE k # l + 1
      <3>1. k \in 1 .. l /\ (k # 1 => k - 1 \in 1 .. l)
        BY <1>1, <2>2
      <3> QED
        BY <1>1, <3>1
    <2> QED
      BY <2>1, <2>2
  <1> QED
    BY <1>1, <1>2 DEF next

LEMMA CompleteConnects ==
  ASSUME TransferInv, JourneysConnect, NEW h \in Call, Complete(h)
  PROVE  JourneysConnect'
  <1>1. call[h].step = "commit" /\ call[h].step # "idle"
    BY DEF Complete
  <1>2. PICK i \in TransferId : call[h].of = i
    BY <1>1, OfTransfer DEF TransferInv
  <1> DEFINE x == plan[i]
             leg == [transfer |-> i, from |-> x.from, to |-> x.to]
             Leg == [transfer : TransferId, from : Camp, to : Camp]
  <1>3. /\ home' = [p \in Person |-> IF p \in x.people THEN x.to ELSE home[p]]
        /\ journey' = [p \in Person |-> IF p \in x.people THEN Append(journey[p], leg) ELSE journey[p]]
    BY <1>2 DEF Complete
  <1>4. leg \in Leg /\ leg.from = x.from /\ leg.to = x.to /\ journey \in [Person -> Seq(Leg)]
    <2>1. x \in Proposal
      BY DEF TransferInv, TypeOK
    <2>2. x.from \in Camp /\ x.to \in Camp
      BY <2>1, TransfersAssumption DEF ProposalType
    <2> QED
      BY <2>2 DEF TransferInv, TypeOK
  <1>5. \A p \in x.people : home[p] = x.from
    BY <1>1, <1>2 DEF TransferInv, TravellersStay
  <1> HIDE DEF leg, Leg, x
  <1>6. ASSUME NEW p \in Person
        PROVE  LET legs == journey'[p] IN
               /\ home'[p] = IF legs = <<>> THEN Birth[p] ELSE legs[Len(legs)].to
               /\ \A k \in DOMAIN legs : legs[k].from = IF k = 1 THEN Birth[p] ELSE legs[k - 1].to
    <2>1. /\ home[p] = IF journey[p] = <<>> THEN Birth[p] ELSE journey[p][Len(journey[p])].to
          /\ \A k \in DOMAIN journey[p] :
               journey[p][k].from = IF k = 1 THEN Birth[p] ELSE journey[p][k - 1].to
      BY DEF JourneysConnect
    <2>2. CASE p \in x.people
      <3>1. journey'[p] = Append(journey[p], leg) /\ home'[p] = x.to /\ home[p] = leg.from
        BY <1>3, <1>4, <1>5, <2>2
      <3>2. journey[p] \in Seq(Leg) /\ leg \in Leg
        BY <1>4
      <3>3. LET next == Append(journey[p], leg) IN
            /\ next # <<>> /\ next[Len(next)] = leg
            /\ \A k \in DOMAIN next : next[k].from = IF k = 1 THEN Birth[p] ELSE next[k - 1].to
        BY <2>1, <3>1, <3>2, LegConnects
      <3> QED
        BY <1>4, <3>1, <3>3
    <2>3. CASE p \notin x.people
      <3>1. journey'[p] = journey[p] /\ home'[p] = home[p]
        BY <1>3, <2>3
      <3> QED
        BY <2>1, <3>1
    <2> QED
      BY <2>2, <2>3
  <1> QED
    BY <1>6 DEF JourneysConnect

-----------------------------------------------------------------------------
(* Only a completion moves people: no other step touches home or journey. *)
LEMMA OthersStay ==
  ASSUME Next, \A h \in Call : ~Complete(h)
  PROVE  UNCHANGED <<home, journey>>
  <1>1. ASSUME NEW h \in Call, Fail(h) \/ Continue(h)
        PROVE  UNCHANGED <<home, journey>>
    BY <1>1 DEF Fail, Abort, Advance, Continue, Schedule, ApproveSource, ApproveTarget, Reject,
                TakeResources, CheckPeople
  <1>2. ASSUME NEW h \in Call, NEW i \in TransferId, NEW c \in Camp, Reads(h, i, c)
        PROVE  UNCHANGED <<home, journey>>
    <2>1. ASSUME NEW next, Proceed(h, i, next)
          PROVE  UNCHANGED <<home, journey>>
      BY <2>1 DEF Proceed
    <2>2. ASSUME NEW d \in Date, ReadForSource(h, i, c, d)
          PROVE  UNCHANGED <<home, journey>>
      BY <2>1, <2>2 DEF ReadForSource
    <2>3. ASSUME NEW s \in Status, ReadForComplete(h, i, c, s)
          PROVE  UNCHANGED <<home, journey>>
      BY <2>1, <2>3 DEF ReadForComplete
    <2> QED
      BY <1>2, <2>1, <2>2, <2>3 DEF Reads, ReadForSchedule, ReadForTarget, ReadForReject
  <1> QED
    BY <1>1, <1>2 DEF Next, CreateTransfer, OtherTraffic, ChangeHealth, DatePasses

LEMMA JourneysStay ==
  ASSUME JourneysConnect, UNCHANGED <<home, journey>>
  PROVE  JourneysConnect'
  BY DEF JourneysConnect

(***************************************************************************)
(* TransferInv is inductive, and under it every step keeps moves together  *)
(* and journeys connected.                                                 *)
(***************************************************************************)
LEMMA TransferStep ==
  TransferInv /\ [Next]_vars =>
    TransferInv' /\ (MovesTogether => MovesTogether') /\ (JourneysConnect => JourneysConnect')
  <1> SUFFICES ASSUME TransferInv, [Next]_vars
               PROVE  /\ TransferInv'
                      /\ MovesTogether => MovesTogether'
                      /\ JourneysConnect => JourneysConnect'
    OBVIOUS
  <1>1. ASSUME NEW i \in TransferId, NEW d \in {"none", "ahead"}, CreateTransfer(i, d)
        PROVE  TransferInv' /\ (MovesTogether => MovesTogether')
    BY <1>1, CreateInv
  <1>2. ASSUME NEW h \in Call, NEW i \in TransferId, NEW c \in Camp, Reads(h, i, c)
        PROVE  TransferInv' /\ (MovesTogether => MovesTogether')
    BY <1>2, ReadsInv
  <1>3. ASSUME NEW h \in Call, Continue(h)
        PROVE  TransferInv' /\ (MovesTogether => MovesTogether')
    <2>1. CASE Schedule(h) \/ ApproveSource(h) \/ ApproveTarget(h) \/ Reject(h)
      BY <2>1, EndsInv
    <2>2. CASE TakeResources(h) \/ CheckPeople(h)
      BY <2>2, TakesAndChecksInv
    <2>3. CASE Complete(h)
      BY <2>3, CompleteInv, CompleteMoves
    <2> QED
      BY <1>3, <2>1, <2>2, <2>3 DEF Continue
  <1>4. ASSUME NEW h \in Call, Fail(h)
        PROVE  TransferInv' /\ (MovesTogether => MovesTogether')
    BY <1>4, EndsInv DEF Fail
  <1>5. ASSUME OtherTraffic
        PROVE  TransferInv' /\ (MovesTogether => MovesTogether')
    BY <1>5, TrafficInv
  <1>6. ASSUME NEW p \in Person, NEW s \in Status, ChangeHealth(p, s)
        PROVE  TransferInv' /\ (MovesTogether => MovesTogether')
    <2>1. health' \in [Person -> Status] /\ date' \in [TransferId -> Date]
      BY <1>6 DEF ChangeHealth, TransferInv, TypeOK
    <2> QED
      BY <1>6, <2>1, CallsStay DEF ChangeHealth
  <1>7. ASSUME NEW i \in TransferId, DatePasses(i)
        PROVE  TransferInv' /\ (MovesTogether => MovesTogether')
    <2>1. health' \in [Person -> Status] /\ date' \in [TransferId -> Date]
      BY <1>7 DEF DatePasses, TransferInv, TypeOK, Date
    <2> QED
      BY <1>7, <2>1, CallsStay DEF DatePasses
  <1>8. ASSUME UNCHANGED vars
        PROVE  TransferInv' /\ (MovesTogether => MovesTogether')
    <2>1. health' \in [Person -> Status] /\ date' \in [TransferId -> Date]
      BY <1>8 DEF vars, TransferInv, TypeOK
    <2> QED
      BY <1>8, <2>1, CallsStay DEF vars
  <1>9. TransferInv' /\ (MovesTogether => MovesTogether')
    BY <1>1, <1>2, <1>3, <1>4, <1>5, <1>6, <1>7, <1>8 DEF Next
  <1>10. JourneysConnect => JourneysConnect'
    <2> SUFFICES ASSUME JourneysConnect
                 PROVE  JourneysConnect'
      OBVIOUS
    <2>1. CASE \E h \in Call : Complete(h)
      BY <2>1, CompleteConnects
    <2>2. CASE Next /\ ~ \E h \in Call : Complete(h)
      BY <2>2, OthersStay, JourneysStay
    <2>3. CASE UNCHANGED vars
      BY <2>3, JourneysStay DEF vars
    <2> QED
      BY <2>1, <2>2, <2>3
  <1> QED
    BY <1>9, <1>10

(***************************************************************************)
(* What transfers.service.ts may rely on although no update looks at the   *)
(* status again: a transfer that nobody contests is completed once, what a *)
(* completion has locked stays affordable, no two completions hold one     *)
(* row, and approvals and travellers stand until the commit.               *)
(***************************************************************************)
THEOREM TransfersStayConsistent == Spec => []TransferInv
  <1>1. Init => TransferInv
    BY TransferInit
  <1>2. TransferInv /\ [Next]_vars => TransferInv'
    BY TransferStep
  <1> QED
    BY <1>1, <1>2, PTL DEF Spec

(***************************************************************************)
(* completeTransfer is all or nothing across tables: as many movements of  *)
(* stock as moves of each of its people, and only after both approvals,    *)
(* however the calls of two users overlap.                                 *)
(***************************************************************************)
THEOREM PeopleMoveWithResources == Spec => []MovesTogether
  <1>1. Init => TransferInv /\ MovesTogether
    BY TransferInit
  <1>2. TransferInv /\ MovesTogether /\ [Next]_vars => TransferInv' /\ MovesTogether'
    BY TransferStep
  <1> QED
    BY <1>1, <1>2, PTL DEF Spec

(***************************************************************************)
(* person_transfer_logs is a journey: no completion moves a person from a  *)
(* camp the person has already been moved away from.                       *)
(***************************************************************************)
THEOREM NobodyMovesFromElsewhere == Spec => []JourneysConnect
  <1>1. Init => TransferInv /\ JourneysConnect
    BY TransferInit
  <1>2. TransferInv /\ JourneysConnect /\ [Next]_vars => TransferInv' /\ JourneysConnect'
    BY TransferStep
  <1> QED
    BY <1>1, <1>2, PTL DEF Spec
=============================================================================
