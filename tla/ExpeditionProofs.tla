-------------------------- MODULE ExpeditionProofs --------------------------
(***************************************************************************)
(* Theorems about Expeditions, for every set of camps, people, statuses,   *)
(* expeditions, proposals and calls.  ExpeditionInv and MembersAreAway are *)
(* inductive together: that expeditions which share a person were planned  *)
(* together (RivalsShare) holds because who is out is AWAY when the next   *)
(* one reads its members, and who is out, or has been passed over by a     *)
(* call that sends them out (PassedAreAway), stays AWAY because nobody     *)
(* else who may write the status has gone unnoticed.                       *)
(***************************************************************************)
EXTENDS Expeditions, OperationProofs

-----------------------------------------------------------------------------
(* An operation leaves integers behind. *)
LEMMA AppliedTyped ==
  ASSUME stock \in [Row -> Int], ledger \in [Row -> Int], NEW o, o.delta \in [Row -> Int],
         Apply(o)
  PROVE  stock' \in [Row -> Int] /\ ledger' \in [Row -> Int]
  BY DEF Apply

(* What a proposal is, and what it takes along. *)
LEMMA PlanFacts ==
  ASSUME plan \in [ExpeditionId -> Proposal], NEW e \in ExpeditionId
  PROVE  /\ plan[e] \in ProposalType
         /\ plan[e].members \subseteq Person /\ plan[e].camp \in Camp
         /\ \A r \in Resource : Allocated(e, r) \in Nat
  <1>1. plan[e] \in Proposal /\ plan[e] \in ProposalType
    BY ExpeditionsAssumption
  <1>2. \A r \in Resource : plan[e].amount[r] \in Nat
    BY <1>1, BoundsAssumption DEF ProposalType, Qty
  <1> QED
    BY <1>1, <1>2 DEF Allocated, ProposalType

(* One call changes, the others stay. *)
LEMMA OneCall ==
  ASSUME TypeOK, NEW h \in Call, NEW c \in CallType, call' = [call EXCEPT ![h] = c]
  PROVE  /\ call' \in [Call -> CallType] /\ call'[h] = c
         /\ \A g \in Call : g # h => call'[g] = call[g]
  BY DEF TypeOK, CallType

(* A call that is open has an expedition. *)
LEMMA OfExpedition ==
  ASSUME TypeOK, CallsFit, NEW h \in Call, call[h].step # "idle"
  PROVE  call[h].of \in ExpeditionId /\ call[h] \in CallType
  BY ExpeditionsAssumption DEF CallsFit, TypeOK, CallType

(* A call that is not open has read nothing and writes nothing. *)
LEMMA IdleCall ==
  /\ Idle \in CallType
  /\ Idle.step = "idle" /\ Idle.of = None /\ Idle.create = FALSE
  /\ Idle.todo = {} /\ Idle.due = {} /\ Idle.target = AsIs
  BY DEF Idle, CallType, AsIs

-----------------------------------------------------------------------------
LEMMA ExpeditionInit == Init => ExpeditionInv /\ MembersAreAway
  <1> SUFFICES ASSUME Init
               PROVE  ExpeditionInv /\ MembersAreAway
    OBVIOUS
  <1>1. stock \in [Row -> Int] /\ ledger \in [Row -> Int]
    BY DeploymentAssumption DEF Init, LedgerInit
  <1>2. \A h \in Call : call[h] = Idle
    BY DEF Init
  <1>3. /\ Idle \in CallType /\ Idle.step = "idle" /\ Idle.of = None /\ Idle.create = FALSE
    BY IdleCall
  <1>4. Nothing \in [Resource -> Nat] /\ \A r \in Resource : Nothing[r] = 0
    BY DEF Nothing
  <1>5. TypeOK
    BY <1>1, <1>3, <1>4, ExpeditionsAssumption DEF Init, TypeOK, CallType, Stages
  <1>6. CallsFit /\ WritesMembers /\ PassedAreAway /\ ReadStillTrue
    BY <1>2, <1>3 DEF CallsFit, WritesMembers, PassedAreAway, Passed, ReadStillTrue
  <1>7. \A e \in ExpeditionId : ~Active(e)
    BY <1>2, <1>3, ExpeditionsAssumption DEF Init, Active, Holders
  <1>8. RivalsShare /\ MembersAreAway
    BY <1>7 DEF RivalsShare, MembersAreAway, Undisturbed, Init
  <1>9. \A e \in ExpeditionId, r \in Resource : Allocated(e, r) \in Nat
    BY <1>5, PlanFacts DEF TypeOK
  <1>10. ReturnedOnce /\ CreditsBounded
    BY <1>4, <1>9 DEF Init, ReturnedOnce, CreditsBounded
  <1> QED
    BY <1>5, <1>6, <1>8, <1>10 DEF ExpeditionInv

-----------------------------------------------------------------------------
(***************************************************************************)
(* A call that ends, leaving expedition e with status s: calls fit, nobody *)
(* becomes active, and what the other calls have read is still so.         *)
(***************************************************************************)
LEMMA EndsCall ==
  ASSUME TypeOK, CallsFit, WritesMembers, RivalsShare, ReadStillTrue,
         NEW h \in Call, call[h].step # "idle", Answer(h),
         NEW s \in Stages, status' = [status EXCEPT ![call[h].of] = s],
         UNCHANGED <<plan, overlaps>>
  PROVE  /\ call' \in [Call -> CallType] /\ status' \in [ExpeditionId -> Stages]
         /\ CallsFit' /\ WritesMembers' /\ RivalsShare' /\ ReadStillTrue'
  <1> DEFINE e == call[h].of
  <1>1. e \in ExpeditionId /\ h \in Holders(e)
    BY OfExpedition DEF Holders
  <1>2. Idle \in CallType /\ Idle.step = "idle" /\ Idle.of = None /\ Idle.create = FALSE
    BY IdleCall
  <1>3. /\ call' \in [Call -> CallType] /\ call'[h] = Idle
        /\ \A g \in Call : g # h => call'[g] = call[g]
    BY <1>2, OneCall DEF Answer
  <1>4. /\ status' \in [ExpeditionId -> Stages]
        /\ \A f \in ExpeditionId : f # e => status'[f] = status[f]
    BY <1>1 DEF TypeOK
  <1>5. CallsFit' /\ WritesMembers'
    <2>1. CallsFit'
      BY <1>2, <1>3 DEF CallsFit
    <2>2. ASSUME NEW g \in Call, call'[g].step # "idle"
          PROVE  MembersFit(call[g])'
      <3>1. call'[g] = call[g] /\ MembersFit(call[g])
        BY <1>2, <1>3, <2>2 DEF WritesMembers
      <3> QED
        BY <3>1 DEF MembersFit
    <2> QED
      BY <2>1, <2>2 DEF WritesMembers
  <1>6. \A f : f \in ExpeditionId => Holders(f)' = Holders(f) \ {h}
    BY <1>2, <1>3, ExpeditionsAssumption DEF Holders
  <1>7. \A f : f \in ExpeditionId /\ Active(f)' => Active(f)
    BY <1>1, <1>4, <1>6 DEF Active
  <1>8. RivalsShare'
    BY <1>7 DEF RivalsShare, overlaps
  <1>9. ReadStillTrue'
    <2> SUFFICES ASSUME NEW g \in Call, call'[g].of # None, call'[g].of \notin contested'
                 PROVE  LET f == call'[g].of IN
                        /\ {k \in Call : call'[k].of = f} = {g}
                        /\ call'[g].create => status'[f] = "NONE"
                        /\ ~call'[g].create /\ call'[g].step # "DELETED" =>
                             <<status'[f], call'[g].step>> \in Transition
                        /\ call'[g].step = "DELETED" => status'[f] \in {"PLANNED", "ONGOING"}
      BY DEF ReadStillTrue, Holders
    <2>1. g # h /\ call'[g] = call[g]
      BY <1>2, <1>3
    <2>2. call[g].of \in ExpeditionId /\ Holders(call[g].of) = {g}
      BY <2>1 DEF ReadStillTrue, TypeOK, CallType, overlaps
    <2>3. call[g].of # e
      BY <1>1, <2>1, <2>2
    <2>4. {k \in Call : call'[k].of = call[g].of} = {g}
      BY <1>2, <1>3, <2>1, <2>2, <2>3, ExpeditionsAssumption DEF Holders
    <2> QED
      BY <1>4, <2>1, <2>2, <2>3, <2>4 DEF ReadStillTrue, overlaps
  <1> QED
    BY <1>3, <1>4, <1>5, <1>8, <1>9

(***************************************************************************)
(* Whatever a call writes about the members of its expedition, who is out  *)
(* with another one, or about to be, is not among them, or an exception.   *)
(***************************************************************************)
LEMMA EndsAway ==
  ASSUME ExpeditionInv, MembersAreAway,
         NEW h \in Call, call[h].step # "idle", Answer(h), MembersDone(h), CommitMembers(h),
         NEW s \in Stages, status' = [status EXCEPT ![call[h].of] = s],
         s = "ONGOING" => call[h].step = "ONGOING",
         UNCHANGED <<plan, overlaps>>
  PROVE  health' \in [Person -> Status] /\ PassedAreAway' /\ MembersAreAway'
  <1> USE DEF ExpeditionInv
  <1> DEFINE e == call[h].of
  <1>1. e \in ExpeditionId /\ Active(e) /\ call[h] \in CallType /\ MembersFit(call[h])
    BY OfExpedition DEF Holders, Active, WritesMembers
  <1>2. \A p \in Person : health'[p] = IF call[h].target[p] = "as is" THEN health[p]
                                        ELSE call[h].target[p]
    BY DEF CommitMembers
  <1>3. health' \in [Person -> Status]
    BY <1>1 DEF CommitMembers, CallType, TypeOK
  <1>4. ASSUME NEW f \in Undisturbed, f # e, Active(f), NEW p \in plan[f].members \ meddled
        PROVE  health'[p] = health[p]
    <2>1. f \in ExpeditionId /\ f \notin shared /\ p \in Person
      BY <1>4, PlanFacts DEF Undisturbed, TypeOK
    <2>2. p \notin plan[e].members
      BY <1>1, <1>4, <2>1 DEF RivalsShare
    <2> QED
      BY <1>1, <1>2, <2>1, <2>2 DEF MembersFit
  <1>5. PassedAreAway'
    <2> SUFFICES ASSUME NEW g \in Call PROVE Passed(call[g])'
      BY DEF PassedAreAway
    <2>1. CASE g = h
      BY <2>1, OneCall, IdleCall DEF Passed, Answer
    <2>2. CASE g # h
      <3>1. call'[g] = call[g] /\ Passed(call[g])
        BY <2>2, OneCall, IdleCall DEF Answer, PassedAreAway
      <3> SUFFICES ASSUME call[g].of \in Undisturbed, call[g].step = "ONGOING", call[g].todo = {},
                          NEW p \in plan[call[g].of].members \ meddled
                   PROVE  call[g].target[p] = "AWAY" \/ health'[p] = "AWAY"
        BY <3>1 DEF Passed, Undisturbed, overlaps
      <3>2. call[g].of # e
        BY <2>2, ExpeditionsAssumption DEF ReadStillTrue, Undisturbed, Holders
      <3>3. Active(call[g].of)
        BY DEF Active, Holders
      <3> QED
        BY <1>4, <3>1, <3>2, <3>3 DEF Passed
    <2> QED
      BY <2>1, <2>2
  <1>6. MembersAreAway'
    <2> SUFFICES ASSUME NEW f \in Undisturbed, NEW p \in plan[f].members \ meddled,
                        status'[f] = "ONGOING"
                 PROVE  health'[p] = "AWAY"
      BY DEF MembersAreAway, Undisturbed, overlaps
    <2>1. f \in ExpeditionId /\ p \in Person
      BY PlanFacts DEF Undisturbed, TypeOK
    <2>2. CASE f = e
      <3>1. call[h].step = "ONGOING" /\ call[h].todo = {}
        BY <1>1, <2>1, <2>2 DEF TypeOK, MembersDone
      <3>2. call[h].target[p] = "AWAY" \/ health[p] = "AWAY"
        BY <2>2, <3>1 DEF PassedAreAway, Passed
      <3>3. call[h].target[p] \in {"as is", "AWAY"}
        BY <1>1, <2>1, <3>1 DEF MembersFit
      <3> QED
        BY <1>2, <2>1, <3>2, <3>3
    <2>3. CASE f # e
      <3>1. status[f] = "ONGOING" /\ Active(f)
        BY <1>1, <2>1, <2>3 DEF TypeOK, Active
      <3>2. health[p] = "AWAY"
        BY <3>1 DEF MembersAreAway
      <3> QED
        BY <1>4, <2>3, <3>1, <3>2
    <2> QED
      BY <2>2, <2>3
  <1> QED
    BY <1>3, <1>5, <1>6

(* The accounts of expeditions whose stock and number of returns stay. *)
LEMMA AccountsStay ==
  ASSUME TypeOK, ReturnedOnce, CreditsBounded,
         UNCHANGED <<plan, returns, credited, recorded>>, contested \subseteq contested',
         \A e \in ExpeditionId \ contested' :
           status'[e] = "RETURNED" <=> status[e] = "RETURNED"
  PROVE  ReturnedOnce' /\ CreditsBounded'
  <1>1. \A e, r : Allocated(e, r)' = Allocated(e, r)
    BY DEF Allocated
  <1>2. ReturnedOnce'
    BY <1>1 DEF ReturnedOnce
  <1>3. CreditsBounded'
    BY <1>1 DEF CreditsBounded
  <1> QED
    BY <1>2, <1>3

-----------------------------------------------------------------------------
(***************************************************************************)
(* A call that reads expedition e.  If e was not active, whoever is active *)
(* and shares a person with it is an exception by now.                     *)
(***************************************************************************)
LEMMA ReadInv ==
  ASSUME ExpeditionInv, MembersAreAway, NEW h \in Call, NEW e \in ExpeditionId,
         NEW step \in Steps, NEW create \in BOOLEAN, Read(h, e, step, create),
         create => status[e] = "NONE" /\ step \in {"PLANNED", "ONGOING"},
         ~create /\ step # "DELETED" => <<status[e], step>> \in Transition,
         step = "DELETED" => status[e] \in {"PLANNED", "ONGOING"},
         shared \subseteq shared', shared' \subseteq ExpeditionId,
         ~Active(e) => \A f \in ExpeditionId \ {e} : Active(f) =>
           plan[e].members \cap plan[f].members \subseteq meddled \/ {e, f} \subseteq shared'
  PROVE  ExpeditionInv' /\ MembersAreAway'
  <1> USE DEF ExpeditionInv
  <1> DEFINE c == [Idle EXCEPT !.step = step, !.of = e, !.create = create,
                               !.todo = IF step = "PLANNED" THEN {} ELSE plan[e].members]
  <1>1. call[h] = Idle /\ call' = [call EXCEPT ![h] = c]
    BY DEF Read
  <1>2. UNCHANGED <<stock, ledger, home, health, status, plan, returns, credited, recorded,
                    meddled>>
    BY DEF Read
  <1>3. /\ c \in CallType /\ c.step = step /\ c.of = e /\ c.create = create
        /\ c.todo \in {{}, plan[e].members} /\ c.due = {} /\ c.target = AsIs
        /\ c.todo = {} => step = "PLANNED" \/ plan[e].members = {}
    BY PlanFacts DEF CallType, Idle, AsIs, TypeOK
  <1> HIDE DEF c
  <1>4. /\ call' \in [Call -> CallType] /\ call'[h] = c
        /\ \A g \in Call : g # h => call'[g] = call[g]
    BY <1>1, <1>3, OneCall
  <1>5. contested \subseteq contested' /\ contested' \subseteq contested \cup {e}
    BY DEF Read
  <1>6. TypeOK'
    BY <1>2, <1>4, <1>5 DEF TypeOK, CallType
  <1>7. call[h].of = None /\ None \notin ExpeditionId
    BY <1>1, ExpeditionsAssumption DEF Idle
  <1>8. CallsFit'
    <2>1. step = "PLANNED" => create
      BY DEF Transition
    <2>2. step # "idle"
      BY DEF Steps
    <2> QED
      BY <1>3, <1>4, <1>7, <2>1, <2>2, ExpeditionsAssumption DEF CallsFit
  <1>9. \A f : f \in ExpeditionId => Holders(f)' = IF f = e THEN Holders(f) \cup {h} ELSE Holders(f)
    BY <1>3, <1>4, <1>7 DEF Holders
  <1>10. RivalsShare'
    <2>1. \A f : f \in ExpeditionId /\ f # e => (Active(f)' <=> Active(f))
      BY <1>2, <1>9 DEF Active
    <2>2. CASE Active(e)
      <3>1. \A f : f \in ExpeditionId /\ Active(f)' => Active(f)
        BY <2>1, <2>2
      <3> QED
        BY <1>2, <3>1 DEF RivalsShare
    <2>3. CASE ~Active(e)
      BY <1>2, <2>1, <2>3 DEF RivalsShare
    <2> QED
      BY <2>2, <2>3
  <1>11. ReadStillTrue'
    <2> SUFFICES ASSUME NEW g \in Call, call'[g].of # None, call'[g].of \notin contested'
                 PROVE  LET f == call'[g].of IN
                        /\ {k \in Call : call'[k].of = f} = {g}
                        /\ call'[g].create => status'[f] = "NONE"
                        /\ ~call'[g].create /\ call'[g].step # "DELETED" =>
                             <<status'[f], call'[g].step>> \in Transition
                        /\ call'[g].step = "DELETED" => status'[f] \in {"PLANNED", "ONGOING"}
      BY DEF ReadStillTrue, Holders
    <2>1. CASE g = h
      <3>1. Holders(e) = {}
        BY <1>3, <1>4, <2>1 DEF Read
      <3>2. {k \in Call : call'[k].of = e} = {h}
        BY <1>3, <1>4, <3>1 DEF Holders
      <3> QED
        BY <1>2, <1>3, <1>4, <2>1, <3>2
    <2>2. CASE g # h
      <3>1. call'[g] = call[g] /\ call[g].of \in ExpeditionId /\ Holders(call[g].of) = {g}
        BY <1>4, <1>5, <2>2 DEF ReadStillTrue, TypeOK, CallType
      <3>2. call[g].of # e
        BY <3>1 DEF Read
      <3>3. {k \in Call : call'[k].of = call[g].of} = {g}
        BY <1>3, <1>4, <1>7, <3>1, <3>2 DEF Holders
      <3> QED
        BY <1>2, <1>5, <3>1, <3>3 DEF ReadStillTrue
    <2> QED
      BY <2>1, <2>2
  <1>12. ReturnedOnce' /\ CreditsBounded'
    BY <1>2, <1>5, AccountsStay
  <1>13. Undisturbed' \subseteq Undisturbed
    BY <1>5 DEF Undisturbed
  <1>14. MembersAreAway'
    BY <1>2, <1>13 DEF MembersAreAway
  <1>15. WritesMembers'
    <2>1. MembersFit(c)
      BY <1>3 DEF MembersFit, AsIs
    <2>2. ASSUME NEW g \in Call, g # h, call[g].step # "idle"
          PROVE  MembersFit(call[g])'
      <3>1. call'[g] = call[g] /\ MembersFit(call[g])
        BY <1>4, <2>2 DEF WritesMembers
      <3> QED
        BY <1>2, <3>1 DEF MembersFit
    <2>3. MembersFit(call[h])'
      BY <1>2, <1>4, <2>1 DEF MembersFit
    <2> QED
      BY <1>4, <2>2, <2>3 DEF WritesMembers
  <1>16. PassedAreAway'
    <2>1. \A g \in Call : g # h => Passed(call[g])'
      BY <1>2, <1>4, <1>13 DEF PassedAreAway, Passed
    <2>2. Passed(call[h])'
      BY <1>2, <1>3, <1>4 DEF Passed
    <2> QED
      BY <2>1, <2>2 DEF PassedAreAway
  <1> QED
    BY <1>6, <1>8, <1>10, <1>11, <1>12, <1>14, <1>15, <1>16

(* The three reads. *)
LEMMA ReadsInv ==
  ASSUME ExpeditionInv, MembersAreAway, NEW h \in Call, NEW e \in ExpeditionId,
         NEW stage \in Stages,
         ReadMembers(h, e, stage) \/ ReadStatus(h, e, stage) \/ ReadForDelete(h, e)
  PROVE  ExpeditionInv' /\ MembersAreAway'
  <1>1. CASE ReadMembers(h, e, stage)
    <2>1. /\ status[e] = "NONE" /\ Holders(e) = {} /\ stage \in {"PLANNED", "ONGOING"}
          /\ \A p \in plan[e].members : health[p] = "HEALTHY"
          /\ Shares(e) /\ Read(h, e, stage, TRUE)
      BY <1>1 DEF ReadMembers
    <2>2. Rivals(e) \subseteq ExpeditionId
      BY DEF Rivals
    <2>3. shared \subseteq shared' /\ shared' \subseteq ExpeditionId
      BY <2>1, <2>2 DEF Shares, ExpeditionInv, TypeOK
    <2>4. ASSUME NEW f \in ExpeditionId \ {e}, Active(f),
                 ~(plan[e].members \cap plan[f].members \subseteq meddled)
          PROVE  {e, f} \subseteq shared'
      <3>1. PICK p \in plan[f].members \ meddled : p \in plan[e].members
        BY <2>4
      <3>2. f \in Rivals(e)
        <4>1. status[f] = "ONGOING" => f \in shared \cup contested
          BY <2>1, <3>1 DEF MembersAreAway, Undisturbed
        <4> QED
          BY <2>4, <3>1, <4>1 DEF Rivals, Active
      <3> QED
        BY <2>1, <3>2 DEF Shares
    <2>5. stage \in Steps
      BY <2>1 DEF Steps
    <2> QED
      BY <2>1, <2>3, <2>4, <2>5, ReadInv
  <1>2. CASE ReadStatus(h, e, stage)
    <2>1. /\ <<status[e], stage>> \in Transition /\ Read(h, e, stage, FALSE)
          /\ UNCHANGED shared
      BY <1>2 DEF ReadStatus
    <2>2. stage \in Steps /\ status[e] \in {"PLANNED", "ONGOING"} /\ stage # "DELETED"
      BY <2>1 DEF Transition, Steps
    <2>3. Active(e) /\ shared' \subseteq ExpeditionId
      BY <2>1, <2>2 DEF Active, ExpeditionInv, TypeOK
    <2> QED
      BY <2>1, <2>2, <2>3, ReadInv
  <1>3. CASE ReadForDelete(h, e)
    <2>1. /\ status[e] \in {"PLANNED", "ONGOING"} /\ Read(h, e, "DELETED", FALSE)
          /\ UNCHANGED shared
      BY <1>3 DEF ReadForDelete
    <2>2. "DELETED" \in Steps
      BY DEF Steps
    <2>3. Active(e) /\ shared' \subseteq ExpeditionId
      BY <2>1 DEF Active, ExpeditionInv, TypeOK
    <2> QED
      BY <2>1, <2>2, <2>3, ReadInv
  <1> QED
    BY <1>1, <1>2, <1>3

-----------------------------------------------------------------------------
(***************************************************************************)
(* A step inside a transaction, after which its call is c: nobody else can *)
(* see it, and what the call goes on to write are its members.             *)
(***************************************************************************)
LEMMA InsideInv ==
  ASSUME ExpeditionInv, MembersAreAway, NEW h \in Call, NEW c \in CallType, InTransaction(h, c),
         call[h].step # "idle", c.step = call[h].step, c.of = call[h].of,
         c.create = call[h].create, MembersFit(c), Passed(c)
  PROVE  ExpeditionInv' /\ MembersAreAway'
  <1> USE DEF ExpeditionInv
  <1>1. /\ call' = [call EXCEPT ![h] = c]
        /\ UNCHANGED <<stock, ledger, home, health, status, plan, returns, credited, recorded,
                       contested, shared, meddled>>
    BY DEF InTransaction, overlaps
  <1>2. /\ call' \in [Call -> CallType] /\ call'[h] = c
        /\ \A g \in Call : g # h => call'[g] = call[g]
    BY <1>1, OneCall
  <1>3. \A g \in Call : /\ call'[g].step = call[g].step /\ call'[g].of = call[g].of
                        /\ call'[g].create = call[g].create
    BY <1>2
  <1>4. TypeOK'
    BY <1>1, <1>2 DEF TypeOK
  <1>5. CallsFit'
    BY <1>2, <1>3 DEF CallsFit
  <1>6. WritesMembers'
    <2>1. ASSUME NEW g \in Call, g # h, call[g].step # "idle"
          PROVE  MembersFit(call[g])'
      <3>1. call'[g] = call[g] /\ MembersFit(call[g])
        BY <1>2, <2>1 DEF WritesMembers
      <3> QED
        BY <1>1, <3>1 DEF MembersFit
    <2>2. MembersFit(call[h])'
      BY <1>1, <1>2 DEF MembersFit
    <2> QED
      BY <1>3, <2>1, <2>2 DEF WritesMembers
  <1>7. PassedAreAway'
    BY <1>1, <1>2 DEF PassedAreAway, Passed, Undisturbed
  <1>8. \A e : Holders(e)' = Holders(e)
    BY <1>3 DEF Holders
  <1>9. RivalsShare' /\ MembersAreAway'
    BY <1>1, <1>8 DEF RivalsShare, Active, MembersAreAway, Undisturbed
  <1>10. ReadStillTrue'
    BY <1>1, <1>3, <1>8 DEF ReadStillTrue
  <1>11. ReturnedOnce' /\ CreditsBounded'
    BY <1>1, AccountsStay
  <1> QED
    BY <1>4, <1>5, <1>6, <1>7, <1>9, <1>10, <1>11

(***************************************************************************)
(* Whom changeMemberStatus passes over is AWAY when it reads; the others   *)
(* will be.                                                                *)
(***************************************************************************)
LEMMA LookInv ==
  ASSUME ExpeditionInv, MembersAreAway, NEW h \in Call, Look(h)
  PROVE  ExpeditionInv' /\ MembersAreAway'
  <1> DEFINE due == {p \in call[h].todo : health[p] # "AWAY"}
             c   == [call[h] EXCEPT !.todo = {}, !.due = due,
                       !.target = [p \in Person |-> IF p \in due THEN "AWAY" ELSE @[p]]]
  <1>1. /\ call[h].step = "ONGOING" /\ call[h].step # "idle" /\ call[h].todo # {}
        /\ InTransaction(h, c)
    BY DEF Look
  <1>2. call[h] \in CallType /\ MembersFit(call[h]) /\ call[h].of \in ExpeditionId
    BY <1>1, OfExpedition DEF ExpeditionInv, WritesMembers
  <1>3. call[h].todo = plan[call[h].of].members /\ due \subseteq Person
    BY <1>1, <1>2 DEF MembersFit, CallType
  <1>4. /\ c \in CallType /\ c.step = call[h].step /\ c.of = call[h].of
        /\ c.create = call[h].create /\ c.todo = {} /\ c.due = due
        /\ \A p \in Person : c.target[p] = IF p \in due THEN "AWAY" ELSE call[h].target[p]
    BY <1>2, <1>3, ExpeditionsAssumption DEF CallType
  <1> HIDE DEF c
  <1>5. MembersFit(c)
    BY <1>1, <1>2, <1>3, <1>4 DEF MembersFit
  <1>6. Passed(c)
    BY <1>3, <1>4 DEF Passed
  <1> QED
    BY <1>1, <1>4, <1>5, <1>6, InsideInv

(* The other changes look at one member after the other. *)
LEMMA LookAtInv ==
  ASSUME ExpeditionInv, MembersAreAway, NEW h \in Call, NEW p \in Person,
         NEW s \in Status \cup {"as is"}, LookAt(h, p, s)
  PROVE  ExpeditionInv' /\ MembersAreAway'
  <1> DEFINE c == IF s \in {"as is", health[p]} THEN [call[h] EXCEPT !.todo = @ \ {p}]
                  ELSE [call[h] EXCEPT !.todo = @ \ {p}, !.due = {p}, !.target[p] = s]
  <1>1. /\ call[h].step \in {"RETURNED", "CANCELLED", "DELETED"} /\ call[h].step # "idle"
        /\ p \in call[h].todo /\ call[h].due = {} /\ InTransaction(h, c)
    BY DEF LookAt
  <1>2. call[h] \in CallType /\ MembersFit(call[h]) /\ call[h].of \in ExpeditionId
    BY <1>1, OfExpedition DEF ExpeditionInv, WritesMembers
  <1>3. /\ c \in CallType /\ c.step = call[h].step /\ c.of = call[h].of
        /\ c.create = call[h].create /\ c.todo = call[h].todo \ {p}
        /\ \A q \in c.due : q = p /\ c.target[q] # "as is"
        /\ \A q \in Person : q # p => c.target[q] = call[h].target[q]
    BY <1>1, <1>2 DEF CallType
  <1> HIDE DEF c
  <1>4. MembersFit(c)
    BY <1>1, <1>2, <1>3 DEF MembersFit
  <1>5. Passed(c)
    BY <1>1, <1>3 DEF Passed
  <1> QED
    BY <1>1, <1>3, <1>4, <1>5, InsideInv

(* An update of a member that was due. *)
LEMMA WriteMemberInv ==
  ASSUME ExpeditionInv, MembersAreAway, NEW h \in Call, NEW p \in Person, WriteMember(h, p)
  PROVE  ExpeditionInv' /\ MembersAreAway'
  <1> DEFINE c == [call[h] EXCEPT !.due = @ \ {p}]
  <1>1. p \in call[h].due /\ InTransaction(h, c)
    BY DEF WriteMember
  <1>2. call[h].step # "idle"
    BY <1>1, IdleCall DEF ExpeditionInv, CallsFit
  <1>3. /\ call[h] \in CallType /\ MembersFit(call[h]) /\ Passed(call[h])
    BY <1>2, OfExpedition DEF ExpeditionInv, WritesMembers, PassedAreAway
  <1>4. /\ c \in CallType /\ c.step = call[h].step /\ c.of = call[h].of
        /\ c.create = call[h].create /\ c.todo = call[h].todo
        /\ c.due \subseteq call[h].due /\ c.target = call[h].target
    BY <1>3 DEF CallType
  <1> HIDE DEF c
  <1>5. MembersFit(c) /\ Passed(c)
    BY <1>3, <1>4 DEF MembersFit, Passed
  <1> QED
    BY <1>1, <1>2, <1>4, <1>5, InsideInv

-----------------------------------------------------------------------------
(* A call that ends without a write. *)
LEMMA AbortInv ==
  ASSUME ExpeditionInv, MembersAreAway, NEW h \in Call, call[h].step # "idle", Abort(h)
  PROVE  ExpeditionInv' /\ MembersAreAway'
  <1> USE DEF ExpeditionInv
  <1> DEFINE e == call[h].of
  <1>1. Answer(h) /\ UNCHANGED <<stock, ledger, home, health, status, plan, returns,
                                 credited, recorded, overlaps>>
    BY DEF Abort
  <1>2. e \in ExpeditionId
    BY OfExpedition
  <1>3. status[e] \in Stages /\ status' = [status EXCEPT ![call[h].of] = status[e]]
    BY <1>1, <1>2 DEF TypeOK
  <1>4. /\ call' \in [Call -> CallType]
        /\ CallsFit' /\ WritesMembers' /\ RivalsShare' /\ ReadStillTrue'
    BY <1>1, <1>3, EndsCall
  <1>5. TypeOK'
    BY <1>1, <1>4 DEF TypeOK, overlaps
  <1>6. ReturnedOnce' /\ CreditsBounded'
    BY <1>1, AccountsStay DEF overlaps
  <1>7. MembersAreAway'
    BY <1>1 DEF MembersAreAway, Undisturbed, overlaps
  <1>8. PassedAreAway'
    <2>1. \A g \in Call : g # h => Passed(call[g])'
      BY <1>1, OneCall, IdleCall DEF Answer, PassedAreAway, Passed, Undisturbed, overlaps
    <2>2. Passed(call[h])'
      BY <1>1, OneCall, IdleCall DEF Answer, Passed
    <2> QED
      BY <2>1, <2>2 DEF PassedAreAway
  <1> QED
    BY <1>4, <1>5, <1>6, <1>7, <1>8

LEMMA FailInv ==
  ASSUME ExpeditionInv, MembersAreAway, NEW h \in Call, Fail(h)
  PROVE  ExpeditionInv' /\ MembersAreAway'
  <1>1. call[h] # Idle /\ Abort(h)
    BY DEF Fail
  <1>2. call[h].step # "idle"
    BY <1>1 DEF ExpeditionInv, CallsFit
  <1> QED
    BY <1>1, <1>2, AbortInv

(***************************************************************************)
(* A call that commits a status and its members, and not the accounts:     *)
(* only a return may end in RETURNED.                                      *)
(***************************************************************************)
LEMMA WriteInv ==
  ASSUME ExpeditionInv, MembersAreAway, NEW h \in Call, call[h].step # "idle", Answer(h),
         MembersDone(h), CommitMembers(h),
         NEW s \in Stages, status' = [status EXCEPT ![call[h].of] = s],
         s = "ONGOING" => call[h].step = "ONGOING",
         call[h].of \notin contested => (s = "RETURNED" <=> status[call[h].of] = "RETURNED"),
         stock' \in [Row -> Int], ledger' \in [Row -> Int],
         UNCHANGED <<home, plan, returns, credited, recorded, overlaps>>
  PROVE  ExpeditionInv' /\ MembersAreAway'
  <1> DEFINE e == call[h].of
  <1>1. health' \in [Person -> Status] /\ PassedAreAway' /\ MembersAreAway'
    BY EndsAway
  <1> USE DEF ExpeditionInv
  <1>2. e \in ExpeditionId
    BY OfExpedition
  <1>3. /\ call' \in [Call -> CallType] /\ status' \in [ExpeditionId -> Stages]
        /\ CallsFit' /\ WritesMembers' /\ RivalsShare' /\ ReadStillTrue'
    BY EndsCall
  <1>4. TypeOK'
    BY <1>1, <1>3 DEF TypeOK, overlaps
  <1>5. \A f \in ExpeditionId \ contested' : status'[f] = "RETURNED" <=> status[f] = "RETURNED"
    BY <1>2 DEF TypeOK, overlaps
  <1>6. ReturnedOnce' /\ CreditsBounded'
    BY <1>5, AccountsStay DEF overlaps
  <1> QED
    BY <1>1, <1>3, <1>4, <1>6

(* What a call has read rules out that its expedition has returned. *)
LEMMA NotReturned ==
  ASSUME ExpeditionInv, NEW h \in Call, call[h].step # "idle", call[h].of \notin contested
  PROVE  status[call[h].of] # "RETURNED"
  <1>1. call[h].of \in ExpeditionId /\ call[h].of # None
    BY OfExpedition, ExpeditionsAssumption DEF ExpeditionInv
  <1> QED
    BY <1>1 DEF ExpeditionInv, ReadStillTrue, Transition

LEMMA CreateInv ==
  ASSUME ExpeditionInv, MembersAreAway, NEW h \in Call, Create(h)
  PROVE  ExpeditionInv' /\ MembersAreAway'
  <1> DEFINE e == call[h].of
             x == plan[e]
             out == Outflow(x.camp, x.items, x.amount)
  <1>1. /\ call[h].create /\ call[h].step \in {"PLANNED", "ONGOING"} /\ call[h].step # "idle"
        /\ MembersDone(h)
    BY DEF Create, ExpeditionInv, CallsFit
  <1>2. CASE x.items # <<>> /\ ~Affordable(out)
    BY <1>1, <1>2, AbortInv DEF Create
  <1>3. CASE ~(x.items # <<>> /\ ~Affordable(out))
    <2>1. /\ IF x.items = <<>> THEN UNCHANGED ledgerVars ELSE Apply(out)
          /\ status' = [status EXCEPT ![e] = call[h].step]
          /\ CommitMembers(h)
          /\ Answer(h)
          /\ UNCHANGED <<home, plan, returns, credited, recorded, overlaps>>
      BY <1>3 DEF Create
    <2>2. e \in ExpeditionId /\ x \in Proposal
      BY <1>1, OfExpedition DEF ExpeditionInv, TypeOK
    <2>3. stock \in [Row -> Int] /\ ledger \in [Row -> Int]
      BY DEF ExpeditionInv, TypeOK
    <2>4. stock' \in [Row -> Int] /\ ledger' \in [Row -> Int]
      <3>1. CASE x.items = <<>>
        BY <2>1, <2>3, <3>1 DEF ledgerVars
      <3>2. CASE x.items # <<>>
        <4>1. out \in Workload /\ Apply(out)
          BY <2>1, <2>2, <3>2, ExpeditionsAssumption
        <4>2. out.delta \in [Row -> Int]
          BY <4>1, WorkloadWellFormed DEF WellFormed, OperationType
        <4> QED
          BY <2>3, <4>1, <4>2, AppliedTyped
      <3> QED
        BY <3>1, <3>2
    <2>5. call[h].step \in Stages /\ call[h].step # "RETURNED"
      BY <1>1 DEF Stages
    <2>6. e \notin contested => status[e] # "RETURNED"
      BY <1>1, NotReturned
    <2> QED
      BY <1>1, <2>1, <2>4, <2>5, <2>6, WriteInv
  <1> QED
    BY <1>2, <1>3

LEMMA StartInv ==
  ASSUME ExpeditionInv, MembersAreAway, NEW h \in Call, Start(h)
  PROVE  ExpeditionInv' /\ MembersAreAway'
  <1>1. /\ call[h].step = "ONGOING" /\ MembersDone(h)
        /\ status' = [status EXCEPT ![call[h].of] = "ONGOING"]
        /\ CommitMembers(h)
        /\ Answer(h)
        /\ UNCHANGED <<stock, ledger, home, plan, returns, credited, recorded, overlaps>>
    BY DEF Start
  <1>2. "ONGOING" \in Stages /\ call[h].step # "idle"
    BY <1>1 DEF Stages
  <1>3. stock' \in [Row -> Int] /\ ledger' \in [Row -> Int]
    BY <1>1 DEF ExpeditionInv, TypeOK
  <1>4. call[h].of \notin contested => status[call[h].of] # "RETURNED"
    BY <1>1, NotReturned
  <1> QED
    BY <1>1, <1>2, <1>3, <1>4, WriteInv

(* Cancellation and deletion. *)
LEMMA CancelInv ==
  ASSUME ExpeditionInv, MembersAreAway, NEW h \in Call, Cancel(h)
  PROVE  ExpeditionInv' /\ MembersAreAway'
  <1>1. /\ call[h].step \in {"CANCELLED", "DELETED"} /\ MembersDone(h)
        /\ status' = [status EXCEPT ![call[h].of] = "CANCELLED"]
        /\ CommitMembers(h)
        /\ Answer(h)
        /\ UNCHANGED <<stock, ledger, home, plan, returns, credited, recorded, overlaps>>
    BY DEF Cancel
  <1>2. "CANCELLED" \in Stages /\ call[h].step # "idle"
    BY <1>1 DEF Stages, Terminal
  <1>3. stock' \in [Row -> Int] /\ ledger' \in [Row -> Int]
    BY <1>1 DEF ExpeditionInv, TypeOK
  <1>4. call[h].of \notin contested => status[call[h].of] # "RETURNED"
    BY <1>1, <1>2, NotReturned
  <1> QED
    BY <1>1, <1>2, <1>3, <1>4, WriteInv

-----------------------------------------------------------------------------
(* Crediting what comes back leaves integers behind. *)
LEMMA CreditsTyped ==
  ASSUME stock \in [Row -> Int], ledger \in [Row -> Int], NEW c \in Camp,
         NEW amount \in [Resource -> Nat], Credits(c, amount)
  PROVE  stock' \in [Row -> Int] /\ ledger' \in [Row -> Int]
  <1> DEFINE listed == {r \in Resource : amount[r] > 0}
             given  == [r \in Resource |-> IF r \in listed THEN amount[r] ELSE 1]
  <1>1. CASE listed = {}
    BY <1>1 DEF Credits, ledgerVars
  <1>2. CASE listed # {}
    <2>1. PICK items \in ItemLists : Apply(Return(c, items, given))
      BY <1>2 DEF Credits
    <2>2. \A r \in Row : r[2] \in Resource
      BY DEF Row
    <2>3. Return(c, items, given).delta \in [Row -> Int]
      BY <2>2 DEF Return
    <2> HIDE DEF given
    <2> QED
      BY <2>1, <2>3, AppliedTyped
  <1> QED
    BY <1>1, <1>2

(***************************************************************************)
(* One resource, when its expedition returns once more: c has come back so *)
(* far and r of it is recorded, in n returns of at most a each, and b is   *)
(* added.                                                                  *)
(***************************************************************************)
LEMMA OneReturn ==
  ASSUME NEW a \in Nat, NEW b \in Nat, b <= a, NEW n \in Nat, NEW c \in Nat, NEW r \in Nat,
         c <= n * a, r <= c, r <= a, c > 0 => r > 0
  PROVE  LET k == IF r > 0 THEN r ELSE b IN
         /\ c + b \in Nat /\ k \in Nat
         /\ c + b <= (n + 1) * a
         /\ k <= c + b /\ k <= a
         /\ c + b > 0 => k > 0
         /\ n = 0 => c = 0 /\ c + b <= a /\ k = c + b
  <1>1. n * a \in Nat /\ (n + 1) * a = n * a + a
    OBVIOUS
  <1>2. n = 0 => c = 0
    OBVIOUS
  <1> QED
    BY <1>1, <1>2

LEMMA ReturnAccounts ==
  ASSUME ExpeditionInv, NEW e \in ExpeditionId, NEW back \in [Resource -> Amounts],
         WithinAllocated(e, back),
         e \notin contested => status[e] # "RETURNED",
         credited' = [credited EXCEPT ![e] = [r \in Resource |-> @[r] + back[r]]],
         recorded' = [recorded EXCEPT ![e] =
                        [r \in Resource |-> IF @[r] > 0 THEN @[r] ELSE back[r]]],
         returns' = [returns EXCEPT ![e] = @ + 1],
         status' = [status EXCEPT ![e] = "RETURNED"],
         UNCHANGED <<plan, contested>>
  PROVE  /\ returns' \in [ExpeditionId -> Nat]
         /\ credited' \in [ExpeditionId -> [Resource -> Nat]]
         /\ recorded' \in [ExpeditionId -> [Resource -> Nat]]
         /\ ReturnedOnce' /\ CreditsBounded'
  <1> USE DEF ExpeditionInv
  <1>1. \A r \in Resource : /\ Allocated(e, r) \in Nat /\ back[r] \in Nat
                            /\ back[r] <= Allocated(e, r)
    BY PlanFacts, BoundsAssumption DEF TypeOK, Amounts, WithinAllocated
  <1>2. \A r \in Resource : /\ credited[e][r] \in Nat /\ recorded[e][r] \in Nat
                            /\ credited[e][r] <= returns[e] * Allocated(e, r)
                            /\ recorded[e][r] <= credited[e][r]
                            /\ recorded[e][r] <= Allocated(e, r)
                            /\ credited[e][r] > 0 => recorded[e][r] > 0
    BY DEF TypeOK, CreditsBounded
  <1>3. returns[e] \in Nat
    BY DEF TypeOK
  <1>4. /\ \A f \in ExpeditionId : f # e => /\ credited'[f] = credited[f]
                                            /\ recorded'[f] = recorded[f]
                                            /\ returns'[f] = returns[f]
                                            /\ status'[f] = status[f]
        /\ \A r \in Resource :
             /\ credited'[e][r] = credited[e][r] + back[r]
             /\ recorded'[e][r] = IF recorded[e][r] > 0 THEN recorded[e][r] ELSE back[r]
        /\ returns'[e] = returns[e] + 1 /\ status'[e] = "RETURNED"
    BY DEF TypeOK
  <1>5. \A r \in Resource :
          /\ credited'[e][r] \in Nat /\ recorded'[e][r] \in Nat
          /\ credited'[e][r] <= (returns[e] + 1) * Allocated(e, r)
          /\ recorded'[e][r] <= credited'[e][r] /\ recorded'[e][r] <= Allocated(e, r)
          /\ credited'[e][r] > 0 => recorded'[e][r] > 0
          /\ returns[e] = 0 => /\ credited'[e][r] <= Allocated(e, r)
                               /\ recorded'[e][r] = credited'[e][r]
    <2> TAKE r \in Resource
    <2> DEFINE a == Allocated(e, r)
               b == back[r]
               c == credited[e][r]
               k == recorded[e][r]
    <2>1. /\ a \in Nat /\ b \in Nat /\ b <= a /\ c \in Nat /\ k \in Nat
          /\ c <= returns[e] * a /\ k <= c /\ k <= a /\ (c > 0 => k > 0)
      BY <1>1, <1>2
    <2>2. credited'[e][r] = c + b /\ recorded'[e][r] = IF k > 0 THEN k ELSE b
      BY <1>4
    <2> HIDE DEF a, b, c, k
    <2> QED
      BY <1>3, <2>1, <2>2, OneReturn DEF a
  <1>6. \A f, r : Allocated(f, r)' = Allocated(f, r)
    BY DEF Allocated
  <1>7. returns' \in [ExpeditionId -> Nat]
    BY DEF TypeOK
  <1>8. credited' \in [ExpeditionId -> [Resource -> Nat]]
    <2>1. [r \in Resource |-> credited[e][r] + back[r]] \in [Resource -> Nat]
      BY <1>1, <1>2
    <2> QED
      BY <2>1 DEF TypeOK
  <1>9. recorded' \in [ExpeditionId -> [Resource -> Nat]]
    <2>1. [r \in Resource |-> IF recorded[e][r] > 0 THEN recorded[e][r] ELSE back[r]]
            \in [Resource -> Nat]
      BY <1>1, <1>2
    <2> QED
      BY <2>1 DEF TypeOK
  <1>10. CreditsBounded'
    BY <1>4, <1>5, <1>6 DEF CreditsBounded
  <1>11. ReturnedOnce'
    <2>1. e \notin contested => returns[e] = 0
      BY DEF ReturnedOnce
    <2> QED
      BY <1>4, <1>5, <1>6, <2>1 DEF ReturnedOnce
  <1> QED
    BY <1>7, <1>8, <1>9, <1>10, <1>11

LEMMA ReturnInv ==
  ASSUME ExpeditionInv, MembersAreAway, NEW h \in Call,
         NEW back \in [Resource -> Amounts], NEW found \in [Resource -> Finds],
         ReturnHome(h, back, found)
  PROVE  ExpeditionInv' /\ MembersAreAway'
  <1> USE DEF ExpeditionInv
  <1> DEFINE e == call[h].of
  <1>1. call[h].step = "RETURNED" /\ MembersDone(h)
    BY DEF ReturnHome
  <1>2. CASE ~WithinAllocated(e, back)
    BY <1>1, <1>2, AbortInv DEF ReturnHome
  <1>3. CASE WithinAllocated(e, back)
    <2>1. /\ Credits(plan[e].camp, [r \in Resource |-> back[r] + found[r]])
          /\ credited' = [credited EXCEPT ![e] = [r \in Resource |-> @[r] + back[r]]]
          /\ recorded' = [recorded EXCEPT ![e] =
                            [r \in Resource |-> IF @[r] > 0 THEN @[r] ELSE back[r]]]
          /\ returns' = [returns EXCEPT ![e] = @ + 1]
          /\ status' = [status EXCEPT ![e] = "RETURNED"]
          /\ CommitMembers(h)
          /\ Answer(h)
          /\ UNCHANGED <<home, plan, overlaps>>
      BY <1>3 DEF ReturnHome
    <2>2. e \in ExpeditionId /\ plan[e].camp \in Camp
      BY <1>1, OfExpedition, PlanFacts DEF TypeOK
    <2>3. stock' \in [Row -> Int] /\ ledger' \in [Row -> Int]
      <3>1. [r \in Resource |-> back[r] + found[r]] \in [Resource -> Nat]
        <4>1. Amounts \subseteq Nat /\ Finds \subseteq Nat
          BY BoundsAssumption, ExpeditionsAssumption DEF Amounts
        <4>2. \A r \in Resource : back[r] \in Nat /\ found[r] \in Nat
          BY <4>1
        <4>3. \A m, n \in Nat : m + n \in Nat
          OBVIOUS
        <4>4. \A r \in Resource : back[r] + found[r] \in Nat
          BY <4>2, <4>3
        <4> QED
          BY <4>4
      <3> QED
        BY <2>1, <2>2, <3>1, CreditsTyped DEF TypeOK
    <2>4. e \notin contested => status[e] # "RETURNED"
      BY <1>1, NotReturned
    <2>5. /\ returns' \in [ExpeditionId -> Nat]
          /\ credited' \in [ExpeditionId -> [Resource -> Nat]]
          /\ recorded' \in [ExpeditionId -> [Resource -> Nat]]
          /\ ReturnedOnce' /\ CreditsBounded'
      BY <1>3, <2>1, <2>2, <2>4, ReturnAccounts DEF overlaps
    <2>6. "RETURNED" \in Stages /\ call[h].step # "idle"
      BY <1>1 DEF Stages, Terminal
    <2>7. health' \in [Person -> Status] /\ PassedAreAway' /\ MembersAreAway'
      BY <1>1, <2>1, <2>6, EndsAway
    <2>8. /\ call' \in [Call -> CallType] /\ status' \in [ExpeditionId -> Stages]
          /\ CallsFit' /\ WritesMembers' /\ RivalsShare' /\ ReadStillTrue'
      BY <1>1, <2>1, <2>6, EndsCall
    <2>9. TypeOK'
      BY <2>1, <2>3, <2>5, <2>7, <2>8 DEF TypeOK, overlaps
    <2> QED
      BY <2>5, <2>7, <2>8, <2>9
  <1> QED
    BY <1>2, <1>3

-----------------------------------------------------------------------------
(* What the rest of the system does touches no expedition. *)
LEMMA OthersInv ==
  ASSUME ExpeditionInv, MembersAreAway,
         UNCHANGED <<status, plan, returns, credited, recorded, call, contested, shared>>,
         stock' \in [Row -> Int], ledger' \in [Row -> Int],
         home' \in [Person -> Camp], health' \in [Person -> Status],
         meddled \subseteq meddled', meddled' \subseteq Person,
         \A p \in Person \ meddled' : health'[p] = health[p]
  PROVE  ExpeditionInv' /\ MembersAreAway'
  <1> USE DEF ExpeditionInv
  <1>1. TypeOK'
    BY DEF TypeOK
  <1>2. CallsFit'
    BY DEF CallsFit
  <1>3. ReadStillTrue'
    BY DEF ReadStillTrue, Holders
  <1>4. \A e : Active(e)' <=> Active(e)
    BY DEF Active, Holders
  <1>5. RivalsShare'
    BY <1>4 DEF RivalsShare
  <1>6. ReturnedOnce' /\ CreditsBounded'
    BY AccountsStay
  <1>7. \A e \in ExpeditionId : plan[e].members \subseteq Person
    BY PlanFacts DEF TypeOK
  <1>8. MembersAreAway' /\ PassedAreAway'
    BY <1>7 DEF MembersAreAway, PassedAreAway, Passed, Undisturbed
  <1>9. WritesMembers'
    BY DEF WritesMembers, MembersFit
  <1> QED
    BY <1>1, <1>2, <1>3, <1>5, <1>6, <1>8, <1>9

LEMMA ExpeditionStep ==
  ASSUME ExpeditionInv, MembersAreAway, [Next]_vars
  PROVE  ExpeditionInv' /\ MembersAreAway'
  <1>1. ASSUME NEW h \in Call, NEW e \in ExpeditionId, NEW stage \in Stages,
               ReadMembers(h, e, stage) \/ ReadStatus(h, e, stage)
        PROVE  ExpeditionInv' /\ MembersAreAway'
    BY <1>1, ReadsInv
  <1>2. ASSUME NEW h \in Call, NEW e \in ExpeditionId, ReadForDelete(h, e)
        PROVE  ExpeditionInv' /\ MembersAreAway'
    <2>1. "NONE" \in Stages
      BY DEF Stages
    <2> QED
      BY <1>2, <2>1, ReadsInv
  <1>3. ASSUME NEW h \in Call, Look(h) \/ Create(h) \/ Start(h) \/ Cancel(h) \/ Fail(h)
        PROVE  ExpeditionInv' /\ MembersAreAway'
    BY <1>3, LookInv, CreateInv, StartInv, CancelInv, FailInv
  <1>4. ASSUME NEW h \in Call, NEW back \in [Resource -> Amounts],
               NEW found \in [Resource -> Finds], ReturnHome(h, back, found)
        PROVE  ExpeditionInv' /\ MembersAreAway'
    BY <1>4, ReturnInv
  <1>5. ASSUME NEW h \in Call, NEW p \in Person,
               (\E s \in Status \cup {"as is"} : LookAt(h, p, s)) \/ WriteMember(h, p)
        PROVE  ExpeditionInv' /\ MembersAreAway'
    BY <1>5, LookAtInv, WriteMemberInv
  <1>6. /\ stock \in [Row -> Int] /\ ledger \in [Row -> Int]
        /\ home \in [Person -> Camp] /\ health \in [Person -> Status] /\ meddled \subseteq Person
    BY DEF ExpeditionInv, TypeOK
  <1>7. CASE OtherTraffic
    <2>1. PICK o \in Workload : Apply(o)
      BY <1>7 DEF OtherTraffic
    <2>2. o.delta \in [Row -> Int]
      BY <2>1, WorkloadWellFormed DEF WellFormed, OperationType
    <2>3. stock' \in [Row -> Int] /\ ledger' \in [Row -> Int]
      BY <1>6, <2>1, <2>2, AppliedTyped
    <2> QED
      BY <1>6, <1>7, <2>3, OthersInv DEF OtherTraffic, overlaps
  <1>8. ASSUME NEW p \in Person, NEW s \in Status, ChangeHealth(p, s)
        PROVE  ExpeditionInv' /\ MembersAreAway'
    BY <1>6, <1>8, OthersInv DEF ChangeHealth
  <1>9. ASSUME NEW p \in Person, NEW c \in Camp, NEW s \in Status, MovePerson(p, c, s)
        PROVE  ExpeditionInv' /\ MembersAreAway'
    BY <1>6, <1>9, OthersInv DEF MovePerson, overlaps
  <1>10. CASE UNCHANGED vars
    BY <1>6, <1>10, OthersInv DEF vars, overlaps
  <1> QED
    BY <1>1, <1>2, <1>3, <1>4, <1>5, <1>7, <1>8, <1>9, <1>10 DEF Next

(***************************************************************************)
(* An expedition nobody contests returns once, with no more than it took,  *)
(* recorded as credited, and what a call has read of it stays so; and who  *)
(* is out with an expedition is AWAY, the named exceptions apart.          *)
(***************************************************************************)
LEMMA ExpeditionInvariance == Spec => [](ExpeditionInv /\ MembersAreAway)
  <1>1. Init => ExpeditionInv /\ MembersAreAway
    BY ExpeditionInit
  <1>2. ExpeditionInv /\ MembersAreAway /\ [Next]_vars => ExpeditionInv' /\ MembersAreAway'
    BY ExpeditionStep
  <1> QED
    BY <1>1, <1>2, PTL DEF Spec

(***************************************************************************)
(* The expedition nobody contests: it returns once, within what it took,   *)
(* recorded as credited, and what a call has read of it stays so.          *)
(***************************************************************************)
THEOREM ExpeditionsReturnOnce == Spec => []ExpeditionInv
  BY ExpeditionInvariance, PTL

(***************************************************************************)
(* However calls overlap, an expedition gives back at most what it took    *)
(* each time it returns, and records no more than was credited.            *)
(***************************************************************************)
THEOREM ReturnsAreBounded == Spec => []CreditsBounded
  <1>1. ExpeditionInv => CreditsBounded
    BY DEF ExpeditionInv
  <1> QED
    BY <1>1, ExpeditionInvariance, PTL

(***************************************************************************)
(* Who is out with an expedition is AWAY until it is over, unless two of   *)
(* its calls overlapped, it was planned with the same people as another,   *)
(* or the status was set by hand or by a transfer.                         *)
(***************************************************************************)
THEOREM MembersStayAway == Spec => []MembersAreAway
  BY ExpeditionInvariance, PTL

-----------------------------------------------------------------------------
(***************************************************************************)
(* A step of the system that changes a status is the end of a call that    *)
(* read it, and has checked the transition.                                *)
(***************************************************************************)
LEMMA StatusStep ==
  ASSUME ExpeditionInv, Next, NEW e \in ExpeditionId \ contested',
         status'[e] # status[e], status[e] # "NONE"
  PROVE  <<status[e], status'[e]>> \in Transition
  <1>1. PICK h \in Call :
          /\ contested' = contested /\ call[h].step # "idle"
          /\ \/ /\ call[h].create \/ call[h].step \in {"ONGOING", "RETURNED", "CANCELLED"}
                /\ status' = [status EXCEPT ![call[h].of] = call[h].step]
             \/ call[h].step = "DELETED" /\ status' = [status EXCEPT ![call[h].of] = "CANCELLED"]
    <2>1. ASSUME NEW h \in Call, NEW f \in ExpeditionId, NEW stage \in Stages,
                 ReadMembers(h, f, stage) \/ ReadStatus(h, f, stage)
          PROVE  FALSE
      BY <2>1 DEF ReadMembers, ReadStatus, Read
    <2>2. ASSUME NEW h \in Call, NEW f \in ExpeditionId, ReadForDelete(h, f)
          PROVE  FALSE
      BY <2>2 DEF ReadForDelete, Read
    <2>3. ASSUME NEW h \in Call, Fail(h)
          PROVE  FALSE
      BY <2>3 DEF Fail, Abort
    <2>4. ASSUME NEW h \in Call, Create(h)
          PROVE  /\ contested' = contested /\ call[h].create /\ call[h].step # "idle"
                 /\ status' = [status EXCEPT ![call[h].of] = call[h].step]
      <3>1. call[h].create /\ call[h].step # "idle"
        BY <2>4 DEF Create, ExpeditionInv, CallsFit
      <3>2. ~Abort(h)
        BY DEF Abort
      <3> QED
        BY <2>4, <3>1, <3>2 DEF Create, overlaps
    <2>5. ASSUME NEW h \in Call, Start(h)
          PROVE  /\ contested' = contested /\ call[h].step = "ONGOING"
                 /\ status' = [status EXCEPT ![call[h].of] = call[h].step]
      BY <2>5 DEF Start, overlaps
    <2>6. ASSUME NEW h \in Call, NEW back \in [Resource -> Amounts],
                 NEW found \in [Resource -> Finds], ReturnHome(h, back, found)
          PROVE  /\ contested' = contested /\ call[h].step = "RETURNED"
                 /\ status' = [status EXCEPT ![call[h].of] = call[h].step]
      <3>1. ~Abort(h)
        BY DEF Abort
      <3> QED
        BY <2>6, <3>1 DEF ReturnHome, overlaps
    <2>7. ASSUME NEW h \in Call, Cancel(h)
          PROVE  /\ contested' = contested /\ call[h].step \in {"CANCELLED", "DELETED"}
                 /\ status' = [status EXCEPT ![call[h].of] = "CANCELLED"]
      BY <2>7 DEF Cancel, overlaps
    <2>8. ASSUME NEW h \in Call, NEW p, Look(h) \/ WriteMember(h, p) \/ \E s : LookAt(h, p, s)
          PROVE  FALSE
      BY <2>8 DEF Look, WriteMember, LookAt, InTransaction
    <2>9. ~OtherTraffic
      BY DEF OtherTraffic
    <2>10. ASSUME NEW p \in Person, NEW s \in Status, ChangeHealth(p, s)
           PROVE  FALSE
      BY <2>10 DEF ChangeHealth
    <2>11. ASSUME NEW p \in Person, NEW c \in Camp, NEW s \in Status, MovePerson(p, c, s)
           PROVE  FALSE
      BY <2>11 DEF MovePerson
    <2> QED
      BY <2>1, <2>2, <2>3, <2>4, <2>5, <2>6, <2>7, <2>8, <2>9, <2>10, <2>11 DEF Next
  <1>2. call[h].of = e
    BY <1>1 DEF ExpeditionInv, TypeOK
  <1>3. e # None /\ e \notin contested
    BY <1>1, ExpeditionsAssumption
  <1>4. /\ call[h].create => status[e] = "NONE"
        /\ ~call[h].create /\ call[h].step # "DELETED" => <<status[e], call[h].step>> \in Transition
        /\ call[h].step = "DELETED" => status[e] \in {"PLANNED", "ONGOING"}
    BY <1>2, <1>3 DEF ExpeditionInv, ReadStillTrue
  <1>5. CASE call[h].step = "DELETED"
    <2>1. ~call[h].create
      BY <1>5 DEF ExpeditionInv, CallsFit
    <2>2. status'[e] = "CANCELLED"
      BY <1>1, <1>2, <1>5, <2>1 DEF ExpeditionInv, TypeOK
    <2> QED
      BY <1>4, <1>5, <2>2 DEF Transition
  <1>6. CASE call[h].step # "DELETED"
    <2>1. status'[e] = call[h].step
      BY <1>1, <1>2, <1>6 DEF ExpeditionInv, TypeOK
    <2> QED
      BY <1>4, <1>6, <2>1
  <1> QED
    BY <1>5, <1>6

(***************************************************************************)
(* While nobody contests an expedition, its status only moves along the    *)
(* transitions that validateStatusTransition allows.                       *)
(***************************************************************************)
THEOREM TransitionsAreLegal == Spec => LegalUnlessContested
  <1>1. ExpeditionInv /\ [Next]_vars =>
          [\A e \in ExpeditionId \ contested' :
             status'[e] # status[e] /\ status[e] # "NONE" =>
               <<status[e], status'[e]>> \in Transition]_vars
    BY StatusStep
  <1> QED
    BY <1>1, ExpeditionsReturnOnce, PTL DEF Spec, LegalUnlessContested
=============================================================================
