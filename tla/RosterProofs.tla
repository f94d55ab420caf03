---------------------------- MODULE RosterProofs ----------------------------
(***************************************************************************)
(* Theorems about the people: Roster, for every set of people, camps,      *)
(* statuses, professions and calls, and after it Admission, which creates  *)
(* them.                                                                   *)
(*                                                                         *)
(* RosterInv is inductive because a person who is not contested has at     *)
(* most one open call, and what that call has read of the person is still  *)
(* so when it writes.                                                      *)
(***************************************************************************)
EXTENDS Roster, Admission, FiniteSetTheorems, WellFoundedInduction, TLAPS

(* Nobody has been admitted and no call has begun. *)
LEMMA RosterInit == Init => RosterInv
  BY RosterAssumption
  DEF Init, RosterInv, TypeOK, Handling, New, Kind, End, RowsFilled, RowFilled, CallsFilled,
      Open, ReadStillTrue, HistoryConnects

-----------------------------------------------------------------------------
(* Who holds whom. *)

(* A call that opens adds itself to the holders of its person. *)
LEMMA ProceedCalls ==
  ASSUME TypeOK, NEW h \in Call, NEW p \in Person, NEW next \in Handling,
         next.step \in {"checked", "read"}, next.of = p, Proceed(h, p, next)
  PROVE  /\ call' \in [Call -> Handling]
         /\ call'[h] = next
         /\ ~Open(h) /\ Open(h)'
         /\ \A g \in Call \ {h} : call'[g] = call[g] /\ (Open(g)' <=> Open(g))
         /\ Holders(p)' = Holders(p) \cup {h}
         /\ \A q \in Person \ {p} : Holders(q)' = Holders(q)
         /\ contested' \subseteq Person
         /\ contested \subseteq contested' /\ contested' \subseteq contested \cup {p}
         /\ p \notin contested' => Holders(p) = {}
  <1>1. /\ call \in [Call -> Handling] /\ call[h] = New
        /\ call' = [call EXCEPT ![h] = next]
        /\ contested \subseteq Person
        /\ contested' = IF Holders(p) # {} THEN contested \cup {p} ELSE contested
    BY DEF TypeOK, Proceed
  <1>2. call' \in [Call -> Handling] /\ call'[h] = next /\ \A g \in Call \ {h} : call'[g] = call[g]
    BY <1>1
  <1>3. ~Open(h) /\ Open(h)'
    BY <1>1, <1>2 DEF Open, New
  <1>4. \A g \in Call \ {h} : Open(g)' <=> Open(g)
    BY <1>2 DEF Open
  <1>5. Holders(p)' = Holders(p) \cup {h}
    BY <1>2, <1>3, <1>4 DEF Holders
  <1>6. \A q \in Person \ {p} : Holders(q)' = Holders(q)
    BY <1>2, <1>3, <1>4 DEF Holders
  <1> QED
    BY <1>1, <1>2, <1>3, <1>4, <1>5, <1>6

(* A call that is answered holds nobody any more. *)
LEMMA AnswerCalls ==
  ASSUME TypeOK, NEW h \in Call, Open(h), Answer(h)
  PROVE  /\ call' \in [Call -> Handling]
         /\ ~Open(h)'
         /\ \A g \in Call \ {h} : call'[g] = call[g] /\ (Open(g)' <=> Open(g))
         /\ \A q \in Person : Holders(q)' = Holders(q) \ {h}
  <1>1. /\ call \in [Call -> Handling]
        /\ call' = [call EXCEPT ![h].step = "done"]
    BY DEF TypeOK, Answer
  <1>2. call[h] \in Handling /\ [call[h] EXCEPT !.step = "done"] \in Handling
    BY <1>1 DEF Handling
  <1>3. /\ call' \in [Call -> Handling]
        /\ call'[h] = [call[h] EXCEPT !.step = "done"]
        /\ \A g \in Call \ {h} : call'[g] = call[g]
    BY <1>1, <1>2
  <1>4. ~Open(h)'
    BY <1>2, <1>3 DEF Open, Handling
  <1>5. \A g \in Call \ {h} : Open(g)' <=> Open(g)
    BY <1>3 DEF Open
  <1> QED
    BY <1>3, <1>4, <1>5 DEF Holders

-----------------------------------------------------------------------------
(* Logs that are left alone still connect, and so does one more entry. *)

(* A person of whom no row and no log changes stays connected. *)
LEMMA SameConnected ==
  ASSUME NEW p \in Person, Connected(p), admitted'[p] = admitted[p],
         home'[p] = home[p], health'[p] = health[p], statusLog'[p] = statusLog[p],
         journey'[p] = journey[p], reassigned'[p] = reassigned[p]
  PROVE  Connected(p)'
  BY DEF Connected, StatusesConnect, CampsConnect, OneReassignment, Active

(* So do the statuses of a person of whom neither status nor log changes. *)
LEMMA SameStatuses ==
  ASSUME NEW p \in Person, StatusesConnect(p), admitted'[p] = admitted[p],
         health'[p] = health[p], statusLog'[p] = statusLog[p]
  PROVE  StatusesConnect(p)'
  BY DEF StatusesConnect

(* A change of status that logs the status of the row as the old one leaves no gap. *)
LEMMA LogStatusConnects ==
  ASSUME TypeOK, NEW p \in Person, NEW s \in Status, health[p] \in Status, StatusesConnect(p),
         LogStatus(p, health[p], s), health'[p] = s, admitted' = admitted
  PROVE  StatusesConnect(p)'
  <1> DEFINE entry == [old |-> health[p], new |-> s]
  <1>1. /\ statusLog[p] \in Seq([old : Status, new : Status])
        /\ entry \in [old : Status, new : Status]
        /\ statusLog'[p] = Append(statusLog[p], entry)
    BY DEF TypeOK, LogStatus
  <1> HIDE DEF entry
  <1>2. /\ Len(statusLog'[p]) = Len(statusLog[p]) + 1
        /\ statusLog'[p] # <<>>
        /\ statusLog'[p][Len(statusLog[p]) + 1] = entry
        /\ \A k \in DOMAIN statusLog[p] : statusLog'[p][k] = statusLog[p][k]
        /\ DOMAIN statusLog'[p] = 1 .. Len(statusLog[p]) + 1
        /\ DOMAIN statusLog[p] = 1 .. Len(statusLog[p])
        /\ Len(statusLog[p]) \in Nat
    BY <1>1
  <1>3. entry.old = health[p] /\ entry.new = s
    BY DEF entry
  <1>4. health'[p] = statusLog'[p][Len(statusLog'[p])].new
    BY <1>2, <1>3
  <1>5. ASSUME NEW k \in DOMAIN statusLog'[p]
        PROVE  statusLog'[p][k].old
                 = IF k = 1 THEN admitted'[p].status ELSE statusLog'[p][k - 1].new
    <2>1. CASE k \in DOMAIN statusLog[p]
      <3>1. statusLog[p][k].old
              = IF k = 1 THEN admitted[p].status ELSE statusLog[p][k - 1].new
        BY <2>1 DEF StatusesConnect
      <3>2. k # 1 => k - 1 \in DOMAIN statusLog[p]
        BY <2>1, <1>2
      <3> QED
        BY <2>1, <3>1, <3>2, <1>2
    <2>2. CASE k = Len(statusLog[p]) + 1
      BY <2>2, <1>2, <1>3 DEF StatusesConnect
    <2> QED
      BY <2>1, <2>2, <1>2
  <1> QED
    BY <1>2, <1>4, <1>5 DEF StatusesConnect

(* A transfer that logs the camp of the row as the source leaves no gap. *)
LEMMA LegConnects ==
  ASSUME TypeOK, NEW p \in Person, NEW c \in Camp, home[p] \in Camp, CampsConnect(p),
         journey' = [journey EXCEPT ![p] = Append(@, [from |-> home[p], to |-> c])],
         home'[p] = c, admitted' = admitted
  PROVE  CampsConnect(p)'
  <1> DEFINE leg == [from |-> home[p], to |-> c]
  <1>1. /\ journey[p] \in Seq([from : Camp, to : Camp])
        /\ leg \in [from : Camp, to : Camp]
        /\ journey'[p] = Append(journey[p], leg)
    BY DEF TypeOK
  <1> HIDE DEF leg
  <1>2. /\ Len(journey'[p]) = Len(journey[p]) + 1
        /\ journey'[p] # <<>>
        /\ journey'[p][Len(journey[p]) + 1] = leg
        /\ \A k \in DOMAIN journey[p] : journey'[p][k] = journey[p][k]
        /\ DOMAIN journey'[p] = 1 .. Len(journey[p]) + 1
        /\ DOMAIN journey[p] = 1 .. Len(journey[p])
        /\ Len(journey[p]) \in Nat
    BY <1>1
  <1>3. leg.from = home[p] /\ leg.to = c
    BY DEF leg
  <1>4. home'[p] = journey'[p][Len(journey'[p])].to
    BY <1>2, <1>3
  <1>5. ASSUME NEW k \in DOMAIN journey'[p]
        PROVE  journey'[p][k].from
                 = IF k = 1 THEN admitted'[p].camp ELSE journey'[p][k - 1].to
    <2>1. CASE k \in DOMAIN journey[p]
      <3>1. journey[p][k].from
              = IF k = 1 THEN admitted[p].camp ELSE journey[p][k - 1].to
        BY <2>1 DEF CampsConnect
      <3>2. k # 1 => k - 1 \in DOMAIN journey[p]
        BY <2>1, <1>2
      <3> QED
        BY <2>1, <3>1, <3>2, <1>2
    <2>2. CASE k = Len(journey[p]) + 1
      BY <2>2, <1>2, <1>3 DEF CampsConnect
    <2> QED
      BY <2>1, <2>2, <1>2
  <1> QED
    BY <1>2, <1>4, <1>5 DEF CampsConnect

-----------------------------------------------------------------------------
(***************************************************************************)
(* A call that opens: what it has read is true now, and if another call is *)
(* open for the same person, the person becomes contested.                 *)
(***************************************************************************)
LEMMA ProceedInv ==
  ASSUME RosterInv, NEW h \in Call, NEW p \in Person, NEW next \in Handling,
         next.step \in {"checked", "read"}, next.of = p, Proceed(h, p, next),
         Filled(next), StillTrue(next), listed' \subseteq Person
  PROVE  RosterInv'
  <1>1. UNCHANGED <<admitted, present, home, health, profession, statusLog, journey, reassigned>>
    BY DEF Proceed, row, logs
  <1>2. TypeOK
    BY DEF RosterInv
  <1>3. /\ call' \in [Call -> Handling] /\ call'[h] = next
        /\ \A g \in Call \ {h} : call'[g] = call[g] /\ (Open(g)' <=> Open(g))
        /\ Holders(p)' = Holders(p) \cup {h}
        /\ \A q \in Person \ {p} : Holders(q)' = Holders(q)
        /\ contested' \subseteq Person /\ contested \subseteq contested'
        /\ p \notin contested' => Holders(p) = {}
    BY <1>2, ProceedCalls
  <1>4. TypeOK'
    BY <1>1, <1>2, <1>3 DEF TypeOK
  <1>5. RowsFilled'
    BY <1>1 DEF RosterInv, RowsFilled, RowFilled
  <1>6. CallsFilled'
    <2>1. ASSUME NEW g \in Call, Open(g)' PROVE Filled(call'[g])
      <3>1. CASE g = h
        BY <1>3, <3>1
      <3>2. CASE g # h
        BY <1>3, <2>1, <3>2 DEF RosterInv, CallsFilled
      <3> QED
        BY <3>1, <3>2
    <2> QED
      BY <2>1 DEF CallsFilled, Filled
  <1>7. ReadStillTrue'
    <2>1. \A x : StillTrue(x)' <=> StillTrue(x)
      BY <1>1 DEF StillTrue, Active
    <2>2. ASSUME NEW g \in Call, NEW x, Open(g)', x = call'[g], x.of \notin contested'
          PROVE  Holders(x.of)' = {g} /\ StillTrue(x)'
      <3>1. CASE g = h
        BY <1>3, <2>1, <2>2, <3>1
      <3>2. CASE g # h
        <4>1. Open(g) /\ x = call[g] /\ x.of \notin contested
          BY <1>3, <2>2, <3>2
        <4>2. Holders(x.of) = {g} /\ StillTrue(x) /\ x.of \in Person
          BY <4>1 DEF RosterInv, ReadStillTrue, CallsFilled, Filled
        <4>3. x.of # p
          BY <1>3, <2>2, <4>2
        <4> QED
          BY <1>3, <2>1, <4>2, <4>3
      <3> QED
        BY <3>1, <3>2
    <2> QED
      BY <2>2 DEF ReadStillTrue, StillTrue, Active, Holders
  <1>8. HistoryConnects'
    <2>1. ASSUME NEW q \in present \ contested' PROVE Connected(q)'
      <3>1. q \in Person /\ Connected(q)
        BY <1>2, <1>3, <2>1 DEF RosterInv, HistoryConnects, TypeOK
      <3> QED
        BY <1>1, <3>1, SameConnected
    <2> QED
      BY <1>1, <2>1 DEF HistoryConnects
  <1> QED
    BY <1>4, <1>5, <1>6, <1>7, <1>8 DEF RosterInv

(***************************************************************************)
(* A call that is answered, with what it writes of its person, p, and of   *)
(* nobody else.  If p is not contested no other call is about p, so that   *)
(* what the others have read is still so.                                  *)
(***************************************************************************)
LEMMA AnswerInv ==
  ASSUME RosterInv, NEW h \in Call, Open(h), Answer(h), UNCHANGED contested,
         NEW p \in Person, p = call[h].of,
         \A q \in Person \ {p} :
           /\ admitted'[q] = admitted[q] /\ home'[q] = home[q] /\ health'[q] = health[q]
           /\ profession'[q] = profession[q] /\ statusLog'[q] = statusLog[q]
           /\ journey'[q] = journey[q] /\ reassigned'[q] = reassigned[q]
           /\ q \in present' <=> q \in present,
         call' \in [Call -> Handling] => TypeOK',
         RowFilled(p)',
         p \in present' \ contested => Connected(p)'
  PROVE  RosterInv'
  <1>1. TypeOK
    BY DEF RosterInv
  <1>2. /\ call' \in [Call -> Handling] /\ ~Open(h)'
        /\ \A g \in Call \ {h} : call'[g] = call[g] /\ (Open(g)' <=> Open(g))
        /\ \A q \in Person : Holders(q)' = Holders(q) \ {h}
    BY <1>1, AnswerCalls
  <1>3. TypeOK'
    BY <1>2
  <1>4. RowsFilled'
    BY DEF RosterInv, RowsFilled, RowFilled
  <1>5. CallsFilled'
    BY <1>2 DEF RosterInv, CallsFilled, Filled
  <1>6. ReadStillTrue'
    <2>1. ASSUME NEW g \in Call, NEW x, Open(g)', x = call'[g], x.of \notin contested'
          PROVE  Holders(x.of)' = {g} /\ StillTrue(x)'
      <3>1. g # h /\ Open(g) /\ x = call[g] /\ x.of \notin contested
        BY <1>2, <2>1
      <3>2. Holders(x.of) = {g} /\ StillTrue(x) /\ x.of \in Person
        BY <3>1 DEF RosterInv, ReadStillTrue, CallsFilled, Filled
      <3>3. x.of # p
        BY <3>1, <3>2 DEF Holders
      <3>4. StillTrue(x)'
        BY <3>2, <3>3 DEF StillTrue, Active
      <3> QED
        BY <1>2, <3>1, <3>2, <3>4
    <2> QED
      BY <2>1 DEF ReadStillTrue, StillTrue, Active, Holders
  <1>7. HistoryConnects'
    <2>1. ASSUME NEW q \in present' \ contested', q # p PROVE Connected(q)'
      <3>1. q \in Person
        BY <1>3, <2>1 DEF TypeOK
      <3>2. Connected(q)
        BY <2>1, <3>1 DEF RosterInv, HistoryConnects
      <3> QED
        BY <2>1, <3>1, <3>2, SameConnected
    <2> QED
      BY <2>1 DEF HistoryConnects
  <1> QED
    BY <1>3, <1>4, <1>5, <1>6, <1>7 DEF RosterInv

-----------------------------------------------------------------------------
(* The actions that open a call. *)

(* Each of the reads of people.service.ts, and that of a transfer. *)
LEMMA BeginInv ==
  ASSUME RosterInv, NEW h \in Call, NEW p \in Person, NEW c \in Camp, Begin(h, p, c)
  PROVE  RosterInv'
  <1>1. listed \subseteq Person
    BY DEF RosterInv, TypeOK
  <1>2. p \in present => home[p] \in Camp /\ health[p] \in Status /\ profession[p] \in Profession
    BY DEF RosterInv, RowsFilled, RowFilled
  <1> DEFINE Opens(next) == /\ next \in Handling
                            /\ next.step \in {"checked", "read"} /\ next.of = p
                            /\ Filled(next) /\ StillTrue(next)
  <1>3. ASSUME NEW s \in Status \cup {None}, NEW f \in Profession \cup {None},
               CheckForUpdate(h, p, c, s, f)
        PROVE  RosterInv'
    <2> DEFINE next == [New EXCEPT !.step = "checked", !.kind = "update", !.of = p, !.camp = c,
                                   !.status = s, !.profession = f]
    <2>1. Proceed(h, p, next) /\ home[p] = c /\ p \in present /\ listed' \subseteq Person
      BY <1>1, <1>3 DEF CheckForUpdate, Proceed
    <2>2. Opens(next)
      BY <2>1 DEF Handling, New, Kind, End, Filled, StillTrue
    <2> QED
      BY <2>1, <2>2, ProceedInv
  <1>4. ASSUME CheckForDelete(h, p, c) PROVE RosterInv'
    <2> DEFINE next == [New EXCEPT !.step = "checked", !.kind = "delete", !.of = p, !.camp = c]
    <2>1. Proceed(h, p, next) /\ home[p] = c /\ p \in present /\ listed' \subseteq Person
      BY <1>1, <1>4 DEF CheckForDelete, Proceed
    <2>2. Opens(next)
      BY <2>1 DEF Handling, New, Kind, End, Filled, StillTrue
    <2> QED
      BY <2>1, <2>2, ProceedInv
  <1>5. ASSUME NEW s \in Status, ReadForStatus(h, p, c, s) PROVE RosterInv'
    <2> DEFINE next == [New EXCEPT !.step = "read", !.kind = "status", !.of = p, !.camp = c,
                                   !.status = s, !.seen = health[p]]
    <2>1. Proceed(h, p, next) /\ home[p] = c /\ p \in present /\ listed' \subseteq Person
      BY <1>1, <1>5 DEF ReadForStatus, Proceed
    <2>2. Opens(next)
      BY <1>2, <2>1 DEF Handling, New, Kind, End, Filled, StillTrue
    <2> QED
      BY <2>1, <2>2, ProceedInv
  <1>6. ASSUME NEW f \in Profession, NEW e \in End, ReadForReassign(h, p, c, f, e)
        PROVE  RosterInv'
    <2> DEFINE next == [New EXCEPT !.step = "read", !.kind = "reassign", !.of = p, !.camp = c,
                                   !.profession = f, !.from = profession[p], !.end = e]
    <2>1. /\ Proceed(h, p, next) /\ home[p] = c /\ p \in present /\ listed' \subseteq Person
          /\ Active(p) = {} /\ health[p] # "DEAD"
      BY <1>1, <1>6 DEF ReadForReassign, Proceed
    <2>2. Opens(next)
      BY <1>2, <2>1 DEF Handling, New, Kind, End, Filled, StillTrue
    <2> QED
      BY <2>1, <2>2, ProceedInv
  <1>7. ASSUME NEW to \in Camp, NEW s \in Status, ReadForTransfer(h, p, c, to, s)
        PROVE  RosterInv'
    <2> DEFINE next == [New EXCEPT !.step = "read", !.kind = "transfer", !.of = p, !.camp = c,
                                   !.to = to, !.status = s, !.seen = health[p]]
    <2>1. Proceed(h, p, next) /\ home[p] = c /\ p \in present /\ listed' \subseteq Person
      BY <1>1, <1>7 DEF ReadForTransfer, Proceed
    <2>2. Opens(next)
      BY <1>2, <2>1 DEF Handling, New, Kind, End, Filled, StillTrue
    <2> QED
      BY <2>1, <2>2, ProceedInv
  <1> QED
    BY <1>3, <1>4, <1>5, <1>6, <1>7 DEF Begin

(* The read of an expedition, which looks at no camp. *)
LEMMA ReadForMemberInv ==
  ASSUME RosterInv, NEW h \in Call, NEW p \in Person, NEW s \in Status, ReadForMember(h, p, s)
  PROVE  RosterInv'
  <1> DEFINE next == [New EXCEPT !.step = "read", !.kind = "member", !.of = p,
                                 !.status = s, !.seen = health[p]]
  <1>1. Proceed(h, p, next) /\ p \in present /\ listed' \subseteq Person
    BY DEF ReadForMember, Proceed, RosterInv, TypeOK
  <1>2. health[p] \in Status
    BY <1>1 DEF RosterInv, RowsFilled, RowFilled
  <1>3. /\ next \in Handling /\ next.step \in {"checked", "read"} /\ next.of = p
        /\ Filled(next) /\ StillTrue(next)
    BY <1>1, <1>2 DEF Handling, New, Kind, End, Filled, StillTrue
  <1> QED
    BY <1>1, <1>3, ProceedInv

(* createPerson: a row that is new has no logs to be connected with. *)
LEMMA CreateInv ==
  ASSUME RosterInv, NEW p \in Person, NEW c \in Camp, NEW s \in Status, NEW f \in Profession,
         CreatePerson(p, c, s, f)
  PROVE  RosterInv'
  <1>1. TypeOK /\ p \notin present
          /\ statusLog[p] = <<>> /\ journey[p] = <<>> /\ reassigned[p] = <<>>
    BY DEF CreatePerson, RosterInv, RowsFilled, RowFilled
  <1>2. /\ admitted'[p] = [camp |-> c, status |-> s]
        /\ home'[p] = c /\ health'[p] = s /\ profession'[p] = f
        /\ present' = present \cup {p}
        /\ UNCHANGED <<statusLog, journey, reassigned, listed, call, contested>>
        /\ \A q \in Person \ {p} : /\ admitted'[q] = admitted[q] /\ home'[q] = home[q]
                                   /\ health'[q] = health[q] /\ profession'[q] = profession[q]
    BY <1>1 DEF CreatePerson, TypeOK, logs
  <1>3. TypeOK'
    BY <1>1 DEF CreatePerson, TypeOK, logs
  <1>4. RowsFilled'
    BY <1>1, <1>2, RosterAssumption DEF RosterInv, RowsFilled, RowFilled
  <1>5. CallsFilled'
    BY <1>2 DEF RosterInv, CallsFilled, Open, Filled
  <1>6. ReadStillTrue'
    <2>1. ASSUME NEW g \in Call, NEW x, Open(g), x = call[g], x.of \notin contested
          PROVE  Holders(x.of) = {g} /\ StillTrue(x)'
      <3>1. Holders(x.of) = {g} /\ StillTrue(x) /\ x.of \in Person
        BY <2>1 DEF RosterInv, ReadStillTrue, CallsFilled, Filled
      <3>2. x.of # p
        BY <1>1, <3>1 DEF StillTrue
      <3> QED
        BY <1>2, <3>1, <3>2 DEF StillTrue, Active
    <2> QED
      BY <1>2, <2>1 DEF ReadStillTrue, StillTrue, Active, Holders, Open
  <1>7. Connected(p)'
    BY <1>1, <1>2 DEF Connected, StatusesConnect, CampsConnect, OneReassignment, Active
  <1>8. ASSUME NEW q \in present' \ contested', q # p PROVE Connected(q)'
    <2>1. q \in Person /\ Connected(q)
      BY <1>1, <1>2, <1>8 DEF RosterInv, HistoryConnects, TypeOK
    <2> QED
      BY <1>2, <1>8, <2>1, SameConnected
  <1> QED
    BY <1>3, <1>4, <1>5, <1>6, <1>7, <1>8 DEF RosterInv, HistoryConnects

(* The second read of updatePerson: the status it will compare with. *)
LEMMA ReadForUpdateInv ==
  ASSUME RosterInv, NEW h \in Call, ReadForUpdate(h)
  PROVE  RosterInv'
  <1>1. /\ call[h] \in Handling /\ call[h].of \in present /\ Open(h)
        /\ call[h].step = "checked" /\ call[h].kind = "update"
        /\ call[h].of \in Person /\ health[call[h].of] \in Status
    BY DEF ReadForUpdate, RosterInv, TypeOK, Open, RowsFilled, RowFilled
  <1>2. /\ call \in [Call -> Handling]
        /\ call' = [call EXCEPT ![h].step = "read", ![h].seen = health[call[h].of]]
        /\ UNCHANGED <<admitted, present, home, health, profession, statusLog, journey,
                       reassigned, listed, contested>>
    BY DEF ReadForUpdate, RosterInv, TypeOK, row, logs
  <1>3. /\ call'[h] = [call[h] EXCEPT !.step = "read", !.seen = health[call[h].of]]
        /\ \A g \in Call \ {h} : call'[g] = call[g]
    BY <1>1, <1>2 DEF Handling
  <1>4. call'[h] \in Handling /\ call' \in [Call -> Handling]
    <2>1. [call[h] EXCEPT !.step = "read", !.seen = health[call[h].of]] \in Handling
      BY <1>1 DEF Handling
    <2> QED
      BY <1>2, <1>3, <2>1
  <1>5. TypeOK'
    BY <1>2, <1>4 DEF RosterInv, TypeOK
  <1>6. /\ call'[h].step = "read" /\ call'[h].seen = health[call[h].of]
        /\ call'[h].kind = "update" /\ call'[h].of = call[h].of /\ call'[h].camp = call[h].camp
    BY <1>1, <1>3 DEF Handling
  <1>7. /\ \A g \in Call : (Open(g)' <=> Open(g)) /\ call'[g].of = call[g].of
        /\ \A q \in Person : Holders(q)' = Holders(q)
    <2>1. Open(h)'
      BY <1>6 DEF Open
    <2>2. \A g \in Call \ {h} : (Open(g)' <=> Open(g)) /\ call'[g].of = call[g].of
      BY <1>3 DEF Open
    <2>3. \A g \in Call : (Open(g)' <=> Open(g)) /\ call'[g].of = call[g].of
      BY <1>1, <1>6, <2>1, <2>2
    <2> QED
      BY <2>3 DEF Holders
  <1>8. RowsFilled' /\ CallsFilled'
    BY <1>1, <1>2, <1>3, <1>6, <1>7 DEF RosterInv, RowsFilled, RowFilled, CallsFilled, Filled
  <1>9. ReadStillTrue'
    <2>1. ASSUME NEW g \in Call, NEW x, Open(g)', x = call'[g], x.of \notin contested'
          PROVE  Holders(x.of)' = {g} /\ StillTrue(x)'
      <3>1. Open(g) /\ x.of = call[g].of /\ x.of \notin contested
        BY <1>2, <1>7, <2>1
      <3>2. x.of \in Person /\ Holders(x.of) = {g} /\ StillTrue(call[g])
        BY <3>1 DEF RosterInv, ReadStillTrue, CallsFilled, Filled
      <3>3. StillTrue(x)
        <4>1. CASE g # h
          BY <1>3, <2>1, <3>2, <4>1
        <4>2. CASE g = h
          BY <1>1, <1>6, <2>1, <3>2, <4>2 DEF StillTrue
        <4> QED
          BY <4>1, <4>2
      <3> QED
        BY <1>2, <1>7, <3>2, <3>3 DEF StillTrue, Active
    <2> QED
      BY <2>1 DEF ReadStillTrue, StillTrue, Active, Holders
  <1>10. HistoryConnects'
    <2>1. ASSUME NEW q \in present \ contested PROVE Connected(q)'
      <3>1. q \in Person /\ Connected(q)
        BY <2>1 DEF RosterInv, HistoryConnects, TypeOK
      <3> QED
        BY <1>2, <3>1, SameConnected
    <2> QED
      BY <1>2, <2>1 DEF HistoryConnects
  <1> QED
    BY <1>5, <1>8, <1>9, <1>10 DEF RosterInv

-----------------------------------------------------------------------------
(* The actions that end a call. *)

(* What an open call, h, about p can rely on when p's row is still there. *)
LEMMA OpenFacts ==
  ASSUME RosterInv, NEW h \in Call, Open(h), NEW p, p = call[h].of
  PROVE  /\ TypeOK /\ call[h] \in Handling /\ p \in Person /\ Filled(call[h]) /\ RowFilled(p)
         /\ p \in present => /\ admitted[p] # None
                             /\ home[p] \in Camp /\ health[p] \in Status
                             /\ profession[p] \in Profession
         /\ p \notin contested => p \in present /\ StillTrue(call[h]) /\ Connected(p)
  <1>1. TypeOK /\ call[h] \in Handling /\ Filled(call[h]) /\ p \in Person
    BY DEF RosterInv, TypeOK, CallsFilled, Filled
  <1>2. RowFilled(p)
    BY <1>1 DEF RosterInv, RowsFilled
  <1>3. p \notin contested => p \in present /\ StillTrue(call[h]) /\ Connected(p)
    BY DEF RosterInv, ReadStillTrue, StillTrue, HistoryConnects
  <1> QED
    BY <1>1, <1>2, <1>3 DEF RowFilled

(* One more entry keeps the log typed and leaves the logs of others alone. *)
LEMMA StatusLogged ==
  ASSUME TypeOK, NEW p \in Person, NEW s \in Status, NEW old \in Status, LogStatus(p, old, s)
  PROVE  /\ statusLog' \in [Person -> Seq([old : Status, new : Status])]
         /\ \A q \in Person \ {p} : statusLog'[q] = statusLog[q]
  <1>1. /\ [old |-> old, new |-> s] \in [old : Status, new : Status]
        /\ statusLog[p] \in Seq([old : Status, new : Status])
    BY DEF TypeOK
  <1>2. Append(statusLog[p], [old |-> old, new |-> s]) \in Seq([old : Status, new : Status])
    BY <1>1
  <1> QED
    BY <1>2 DEF TypeOK, LogStatus

(* updatePerson writes back the camp it has checked, and logs the status it has read. *)
LEMMA UpdateInv ==
  ASSUME RosterInv, NEW h \in Call, Update(h), NEW x, NEW p, x = call[h], p = x.of
  PROVE  RosterInv'
  <1>1. Open(h) /\ Answer(h) /\ p \in present /\ x.step = "read" /\ x.kind = "update"
    BY DEF Update, Writes, Open
  <1>2. /\ TypeOK /\ x \in Handling /\ p \in Person /\ Filled(x) /\ RowFilled(p)
        /\ admitted[p] # None /\ health[p] \in Status /\ profession[p] \in Profession
        /\ p \notin contested => StillTrue(x) /\ Connected(p)
    BY <1>1, OpenFacts
  <1>3. x.camp \in Camp /\ x.seen \in Status
          /\ x.status \in Status \cup {None} /\ x.profession \in Profession \cup {None}
    BY <1>1, <1>2 DEF Filled, Handling
  <1>4. /\ home' = [home EXCEPT ![p] = x.camp]
        /\ health' = [health EXCEPT ![p] = Given(x.status, health[p])]
        /\ profession' = [profession EXCEPT ![p] = Given(x.profession, profession[p])]
        /\ UNCHANGED <<admitted, present, journey, reassigned, listed, contested>>
    BY <1>2 DEF Update, TypeOK
  <1>5. Given(x.status, health[p]) \in Status /\ Given(x.profession, profession[p]) \in Profession
    BY <1>2, <1>3 DEF Given
  <1>6. IF x.status \in {None, x.seen} THEN statusLog' = statusLog
                                       ELSE LogStatus(p, x.seen, x.status)
    BY DEF Update
  <1>7. /\ statusLog' \in [Person -> Seq([old : Status, new : Status])]
        /\ \A q \in Person \ {p} : statusLog'[q] = statusLog[q]
    BY <1>2, <1>3, <1>6, StatusLogged DEF TypeOK
  <1>8. call' \in [Call -> Handling] => TypeOK'
    BY <1>2, <1>3, <1>4, <1>5, <1>7 DEF TypeOK
  <1>9. /\ home'[p] = x.camp /\ health'[p] = Given(x.status, health[p])
        /\ profession'[p] = Given(x.profession, profession[p])
    BY <1>2, <1>4 DEF TypeOK
  <1>10. RowFilled(p)'
    BY <1>1, <1>2, <1>3, <1>4, <1>5, <1>9 DEF RowFilled
  <1>11. ASSUME p \notin contested PROVE Connected(p)'
    <2>1. home[p] = x.camp /\ health[p] = x.seen /\ Connected(p)
      BY <1>1, <1>2, <1>11 DEF StillTrue
    <2>2. CASE x.status \in {None, x.seen}
      BY <1>2, <1>4, <1>6, <1>9, <2>1, <2>2, SameConnected DEF Given
    <2>3. CASE x.status \notin {None, x.seen}
      <3>1. x.status \in Status /\ health'[p] = x.status /\ LogStatus(p, health[p], x.status)
        BY <1>3, <1>6, <1>9, <2>1, <2>3 DEF Given
      <3>2. StatusesConnect(p)'
        BY <1>2, <1>4, <2>1, <3>1, LogStatusConnects DEF Connected
      <3>3. CampsConnect(p)'
        BY <1>4, <1>9, <2>1 DEF Connected, CampsConnect
      <3>4. OneReassignment(p)'
        BY <1>4, <2>1 DEF Connected, OneReassignment, Active
      <3> QED
        BY <3>2, <3>3, <3>4 DEF Connected
    <2> QED
      BY <2>2, <2>3
  <1>12. \A q \in Person \ {p} :
           /\ admitted'[q] = admitted[q] /\ home'[q] = home[q] /\ health'[q] = health[q]
           /\ profession'[q] = profession[q] /\ statusLog'[q] = statusLog[q]
           /\ journey'[q] = journey[q] /\ reassigned'[q] = reassigned[q]
           /\ q \in present' <=> q \in present
    BY <1>2, <1>4, <1>7 DEF TypeOK
  <1> QED
    BY <1>1, <1>2, <1>4, <1>8, <1>10, <1>11, <1>12, AnswerInv

(* deletePerson: nothing is promised of who has no row. *)
LEMMA DeleteInv ==
  ASSUME RosterInv, NEW h \in Call, Delete(h), NEW x, NEW p, x = call[h], p = x.of
  PROVE  RosterInv'
  <1>1. Open(h) /\ Answer(h) /\ p \in present
    BY DEF Delete, Open
  <1>2. TypeOK /\ p \in Person /\ RowFilled(p) /\ admitted[p] # None
    BY <1>1, OpenFacts
  <1>3. /\ present' = present \ {p}
        /\ statusLog' = [statusLog EXCEPT ![p] = <<>>]
        /\ reassigned' = [reassigned EXCEPT ![p] = <<>>]
        /\ UNCHANGED <<admitted, home, health, profession, journey, listed, contested>>
    BY DEF Delete, row
  <1>4. call' \in [Call -> Handling] => TypeOK'
    <2> DEFINE Statuses == Seq([old : Status, new : Status])
               Professions == Seq([from : Profession, to : Profession, end : End])
    <2>1. <<>> \in Statuses /\ <<>> \in Professions
      OBVIOUS
    <2>2. statusLog \in [Person -> Statuses] /\ reassigned \in [Person -> Professions]
      BY <1>2 DEF TypeOK
    <2> HIDE DEF Statuses, Professions
    <2>3. statusLog' \in [Person -> Statuses] /\ reassigned' \in [Person -> Professions]
      BY <1>3, <2>1, <2>2
    <2> USE DEF Statuses, Professions
    <2> QED
      BY <1>2, <1>3, <2>3 DEF TypeOK
  <1>5. RowFilled(p)'
    BY <1>2, <1>3 DEF RowFilled
  <1>6. \A q \in Person \ {p} :
          /\ admitted'[q] = admitted[q] /\ home'[q] = home[q] /\ health'[q] = health[q]
          /\ profession'[q] = profession[q] /\ statusLog'[q] = statusLog[q]
          /\ journey'[q] = journey[q] /\ reassigned'[q] = reassigned[q]
          /\ q \in present' <=> q \in present
    BY <1>2, <1>3 DEF TypeOK
  <1> QED
    BY <1>1, <1>2, <1>3, <1>4, <1>5, <1>6, AnswerInv

(* createProfessionReassignment: the new reassignment is the only active one. *)
LEMMA ReassignInv ==
  ASSUME RosterInv, NEW h \in Call, Reassign(h), NEW x, NEW p, x = call[h], p = x.of
  PROVE  RosterInv'
  <1> DEFINE entry == [from |-> x.from, to |-> x.profession, end |-> x.end]
             Entries == [from : Profession, to : Profession, end : End]
  <1>1. Open(h) /\ Answer(h) /\ p \in present /\ x.step = "read" /\ x.kind = "reassign"
    BY DEF Reassign, Writes, Open
  <1>2. /\ TypeOK /\ x \in Handling /\ p \in Person /\ Filled(x) /\ RowFilled(p)
        /\ admitted[p] # None
        /\ p \notin contested => StillTrue(x) /\ Connected(p)
    BY <1>1, OpenFacts
  <1>3. x.profession \in Profession /\ x.from \in Profession /\ x.end \in End
    BY <1>1, <1>2 DEF Filled, Handling
  <1>4. /\ profession' = [profession EXCEPT ![p] = x.profession]
        /\ reassigned' = [reassigned EXCEPT ![p] = Append(reassigned[p], entry)]
        /\ UNCHANGED <<admitted, present, home, health, statusLog, journey, listed, contested>>
    BY <1>2 DEF Reassign, TypeOK
  <1>5. entry \in Entries /\ reassigned[p] \in Seq(Entries)
    BY <1>2, <1>3 DEF TypeOK
  <1>6. Append(reassigned[p], entry) \in Seq(Entries)
    BY <1>5
  <1>7. call' \in [Call -> Handling] => TypeOK'
    BY <1>2, <1>3, <1>4, <1>6 DEF TypeOK
  <1>8. RowFilled(p)'
    BY <1>1, <1>2, <1>3, <1>4 DEF RowFilled, TypeOK
  <1>9. ASSUME p \notin contested PROVE Connected(p)'
    <2>1. Connected(p) /\ Active(p) = {}
      BY <1>1, <1>2, <1>9 DEF StillTrue
    <2>2. reassigned'[p] = Append(reassigned[p], entry)
      BY <1>2, <1>4 DEF TypeOK
    <2> HIDE DEF entry
    <2>3. Active(p)' \subseteq {Len(reassigned[p]) + 1}
      BY <1>5, <2>1, <2>2 DEF Active
    <2>4. OneReassignment(p)'
      BY <2>3 DEF OneReassignment
    <2>5. StatusesConnect(p)' /\ CampsConnect(p)'
      BY <1>4, <2>1 DEF Connected, StatusesConnect, CampsConnect
    <2> QED
      BY <2>4, <2>5 DEF Connected
  <1>10. \A q \in Person \ {p} :
           /\ admitted'[q] = admitted[q] /\ home'[q] = home[q] /\ health'[q] = health[q]
           /\ profession'[q] = profession[q] /\ statusLog'[q] = statusLog[q]
           /\ journey'[q] = journey[q] /\ reassigned'[q] = reassigned[q]
           /\ q \in present' <=> q \in present
    BY <1>2, <1>4 DEF TypeOK
  <1> QED
    BY <1>1, <1>2, <1>4, <1>7, <1>8, <1>9, <1>10, AnswerInv

(* createPersonStatusLog: the old status of the log is the one of the row. *)
LEMMA ChangeStatusInv ==
  ASSUME RosterInv, NEW h \in Call, ChangeStatus(h), NEW x, NEW p, x = call[h], p = x.of
  PROVE  RosterInv'
  <1>1. Open(h) /\ Answer(h) /\ p \in present /\ x.step = "read" /\ x.kind = "status"
    BY DEF ChangeStatus, Writes, Open
  <1>2. /\ TypeOK /\ x \in Handling /\ p \in Person /\ Filled(x) /\ RowFilled(p)
        /\ admitted[p] # None /\ home[p] \in Camp /\ profession[p] \in Profession
        /\ p \notin contested => StillTrue(x) /\ Connected(p)
    BY <1>1, OpenFacts
  <1>3. x.status \in Status /\ x.seen \in Status
    BY <1>1, <1>2 DEF Filled
  <1>4. /\ health' = [health EXCEPT ![p] = x.status]
        /\ LogStatus(p, x.seen, x.status)
        /\ UNCHANGED <<admitted, present, home, profession, journey, reassigned, listed, contested>>
    BY DEF ChangeStatus
  <1>5. /\ statusLog' \in [Person -> Seq([old : Status, new : Status])]
        /\ \A q \in Person \ {p} : statusLog'[q] = statusLog[q]
    BY <1>2, <1>3, <1>4, StatusLogged
  <1>6. call' \in [Call -> Handling] => TypeOK'
    BY <1>2, <1>3, <1>4, <1>5 DEF TypeOK
  <1>7. health'[p] = x.status
    BY <1>2, <1>4 DEF TypeOK
  <1>8. RowFilled(p)'
    BY <1>2, <1>3, <1>4, <1>7 DEF RowFilled
  <1>9. ASSUME p \notin contested PROVE Connected(p)'
    <2>1. health[p] = x.seen /\ Connected(p)
      BY <1>1, <1>2, <1>9 DEF StillTrue
    <2>2. StatusesConnect(p)'
      BY <1>2, <1>3, <1>4, <1>7, <2>1, LogStatusConnects DEF Connected
    <2>3. CampsConnect(p)'
      BY <1>4, <2>1 DEF Connected, CampsConnect
    <2>4. OneReassignment(p)'
      BY <1>4, <2>1 DEF Connected, OneReassignment, Active
    <2> QED
      BY <2>2, <2>3, <2>4 DEF Connected
  <1>10. \A q \in Person \ {p} :
           /\ admitted'[q] = admitted[q] /\ home'[q] = home[q] /\ health'[q] = health[q]
           /\ profession'[q] = profession[q] /\ statusLog'[q] = statusLog[q]
           /\ journey'[q] = journey[q] /\ reassigned'[q] = reassigned[q]
           /\ q \in present' <=> q \in present
    BY <1>2, <1>4, <1>5 DEF TypeOK
  <1> QED
    BY <1>1, <1>2, <1>4, <1>6, <1>8, <1>9, <1>10, AnswerInv

(* An expedition that changes the status of a member logs the change. *)
LEMMA MemberInv ==
  ASSUME RosterInv, NEW h \in Call, Member(h), NEW x, NEW p, x = call[h], p = x.of
  PROVE  RosterInv'
  <1>1. Open(h) /\ Answer(h) /\ p \in present /\ x.step = "read" /\ x.kind = "member"
    BY DEF Member, Writes, Open
  <1>2. /\ TypeOK /\ x \in Handling /\ p \in Person /\ Filled(x) /\ RowFilled(p)
        /\ admitted[p] # None /\ home[p] \in Camp /\ profession[p] \in Profession
        /\ p \notin contested => StillTrue(x) /\ Connected(p)
    BY <1>1, OpenFacts
  <1>3. x.status \in Status /\ x.seen \in Status
    BY <1>1, <1>2 DEF Filled
  <1>4. UNCHANGED <<admitted, present, home, profession, journey, reassigned, listed, contested>>
    BY DEF Member
  <1>5. CASE x.status = x.seen
    <2>1. UNCHANGED <<health, statusLog>>
      BY <1>5 DEF Member
    <2>2. call' \in [Call -> Handling] => TypeOK'
      BY <1>2, <1>4, <2>1 DEF TypeOK
    <2>3. RowFilled(p)'
      BY <1>2, <1>4, <2>1 DEF RowFilled
    <2>4. p \notin contested => Connected(p)'
      BY <1>2, <1>4, <2>1, SameConnected
    <2> QED
      BY <1>1, <1>2, <1>4, <2>1, <2>2, <2>3, <2>4, AnswerInv
  <1>6. CASE x.status # x.seen
    <2>1. /\ health' = [health EXCEPT ![p] = x.status]
          /\ LogStatus(p, x.seen, x.status)
      BY <1>6 DEF Member
    <2>2. /\ statusLog' \in [Person -> Seq([old : Status, new : Status])]
          /\ \A q \in Person \ {p} : statusLog'[q] = statusLog[q]
      BY <1>2, <1>3, <2>1, StatusLogged
    <2>3. call' \in [Call -> Handling] => TypeOK'
      BY <1>2, <1>3, <1>4, <2>1, <2>2 DEF TypeOK
    <2>4. health'[p] = x.status
      BY <1>2, <2>1 DEF TypeOK
    <2>5. RowFilled(p)'
      BY <1>2, <1>3, <1>4, <2>4 DEF RowFilled
    <2>6. ASSUME p \notin contested PROVE Connected(p)'
      <3>1. health[p] = x.seen /\ Connected(p)
        BY <1>1, <1>2, <2>6 DEF StillTrue
      <3>2. StatusesConnect(p)'
        BY <1>2, <1>3, <1>4, <2>1, <2>4, <3>1, LogStatusConnects DEF Connected
      <3>3. CampsConnect(p)'
        BY <1>4, <3>1 DEF Connected, CampsConnect
      <3>4. OneReassignment(p)'
        BY <1>4, <3>1 DEF Connected, OneReassignment, Active
      <3> QED
        BY <3>2, <3>3, <3>4 DEF Connected
    <2>7. \A q \in Person \ {p} : health'[q] = health[q]
      BY <1>2, <2>1 DEF TypeOK
    <2> QED
      BY <1>1, <1>2, <1>4, <2>2, <2>3, <2>5, <2>6, <2>7, AnswerInv
  <1> QED
    BY <1>5, <1>6

(* A transfer moves a person from where the person is, and logs that. *)
LEMMA TransferInv ==
  ASSUME RosterInv, NEW h \in Call, Transfer(h), NEW x, NEW p, x = call[h], p = x.of
  PROVE  RosterInv'
  <1>1. Open(h) /\ Answer(h) /\ p \in present /\ x.step = "read" /\ x.kind = "transfer"
    BY DEF Transfer, Writes, Open
  <1>2. /\ TypeOK /\ x \in Handling /\ p \in Person /\ Filled(x) /\ RowFilled(p)
        /\ admitted[p] # None /\ profession[p] \in Profession
        /\ p \notin contested => StillTrue(x) /\ Connected(p)
    BY <1>1, OpenFacts
  <1>3. x.status \in Status /\ x.seen \in Status /\ x.camp \in Camp /\ x.to \in Camp
    BY <1>1, <1>2 DEF Filled
  <1>4. /\ home' = [home EXCEPT ![p] = x.to]
        /\ health' = [health EXCEPT ![p] = x.status]
        /\ journey' = [journey EXCEPT ![p] = Append(@, [from |-> x.camp, to |-> x.to])]
        /\ UNCHANGED <<admitted, present, profession, reassigned, listed, contested>>
    BY DEF Transfer
  <1>5. IF x.status = x.seen THEN statusLog' = statusLog ELSE LogStatus(p, x.seen, x.status)
    BY DEF Transfer
  <1>6. /\ statusLog' \in [Person -> Seq([old : Status, new : Status])]
        /\ \A q \in Person \ {p} : statusLog'[q] = statusLog[q]
    BY <1>2, <1>3, <1>5, StatusLogged DEF TypeOK
  <1>7. /\ [from |-> x.camp, to |-> x.to] \in [from : Camp, to : Camp]
        /\ journey[p] \in Seq([from : Camp, to : Camp])
    BY <1>2, <1>3 DEF TypeOK
  <1>8. Append(journey[p], [from |-> x.camp, to |-> x.to]) \in Seq([from : Camp, to : Camp])
    BY <1>7
  <1>9. call' \in [Call -> Handling] => TypeOK'
    BY <1>2, <1>3, <1>4, <1>6, <1>8 DEF TypeOK
  <1>10. home'[p] = x.to /\ health'[p] = x.status
    BY <1>2, <1>4 DEF TypeOK
  <1>11. RowFilled(p)'
    BY <1>2, <1>3, <1>4, <1>10 DEF RowFilled
  <1>12. ASSUME p \notin contested PROVE Connected(p)'
    <2>1. home[p] = x.camp /\ health[p] = x.seen /\ Connected(p)
      BY <1>1, <1>2, <1>12 DEF StillTrue
    <2>2. StatusesConnect(p)'
      <3>1. CASE x.status = x.seen
        <4>1. /\ statusLog'[p] = statusLog[p] /\ health'[p] = health[p]
              /\ admitted'[p] = admitted[p] /\ StatusesConnect(p)
          BY <1>4, <1>5, <1>10, <2>1, <3>1 DEF Connected
        <4> QED
          BY <1>2, <4>1, SameStatuses
      <3>2. CASE x.status # x.seen
        BY <1>2, <1>3, <1>4, <1>5, <1>10, <2>1, <3>2, LogStatusConnects DEF Connected
      <3> QED
        BY <3>1, <3>2
    <2>3. CampsConnect(p)'
      <3>1. journey' = [journey EXCEPT ![p] = Append(@, [from |-> home[p], to |-> x.to])]
        BY <1>4, <2>1
      <3>2. home[p] \in Camp /\ CampsConnect(p) /\ home'[p] = x.to /\ admitted' = admitted
        BY <1>3, <1>4, <1>10, <2>1 DEF Connected
      <3> QED
        BY <1>2, <1>3, <3>1, <3>2, LegConnects
    <2>4. OneReassignment(p)'
      BY <1>4, <2>1 DEF Connected, OneReassignment, Active
    <2> QED
      BY <2>2, <2>3, <2>4 DEF Connected
  <1>13. \A q \in Person \ {p} :
           /\ admitted'[q] = admitted[q] /\ home'[q] = home[q] /\ health'[q] = health[q]
           /\ profession'[q] = profession[q] /\ statusLog'[q] = statusLog[q]
           /\ journey'[q] = journey[q] /\ reassigned'[q] = reassigned[q]
           /\ q \in present' <=> q \in present
    BY <1>2, <1>4, <1>6 DEF TypeOK
  <1> QED
    BY <1>1, <1>2, <1>4, <1>9, <1>11, <1>12, <1>13, AnswerInv

(* A call that fails writes nothing. *)
LEMMA FailInv ==
  ASSUME RosterInv, NEW h \in Call, Fail(h), NEW x, NEW p, x = call[h], p = x.of
  PROVE  RosterInv'
  <1>1. Open(h) /\ Answer(h)
        /\ UNCHANGED <<admitted, present, home, health, profession, statusLog, journey,
                       reassigned, listed, contested>>
    BY DEF Fail, row, logs
  <1>2. /\ TypeOK /\ p \in Person /\ RowFilled(p)
        /\ p \notin contested => Connected(p)
    BY <1>1, OpenFacts
  <1>3. call' \in [Call -> Handling] => TypeOK'
    BY <1>1, <1>2 DEF TypeOK
  <1>4. RowFilled(p)'
    BY <1>1, <1>2 DEF RowFilled
  <1>5. p \notin contested => Connected(p)'
    BY <1>1, <1>2, SameConnected
  <1> QED
    BY <1>1, <1>2, <1>3, <1>4, <1>5, AnswerInv

-----------------------------------------------------------------------------
(* A reassignment that ends takes one from the active ones of its person. *)
LEMMA EndsActive ==
  ASSUME TypeOK, NEW p \in Person, NEW k \in DOMAIN reassigned[p],
         reassigned' = [reassigned EXCEPT ![p][k].end = "past"]
  PROVE  /\ reassigned' \in [Person -> Seq([from : Profession, to : Profession, end : End])]
         /\ \A q \in Person \ {p} : reassigned'[q] = reassigned[q]
         /\ reassigned[p] # <<>>
         /\ Active(p)' \subseteq Active(p)
  <1> DEFINE Entries == [from : Profession, to : Profession, end : End]
             ended == [reassigned[p][k] EXCEPT !.end = "past"]
  <1>1. reassigned[p] \in Seq(Entries) /\ reassigned[p][k] \in Entries
    <2>1. reassigned[p] \in Seq(Entries)
      BY DEF TypeOK
    <2> HIDE DEF Entries
    <2> QED
      BY <2>1
  <1>2. ended \in Entries /\ ended.end = "past"
    BY <1>1 DEF End
  <1>3. /\ reassigned \in [Person -> Seq(Entries)]
        /\ reassigned' = [reassigned EXCEPT ![p] = [reassigned[p] EXCEPT ![k] = ended]]
    BY DEF TypeOK
  <1> HIDE DEF ended
  <1>4. [reassigned[p] EXCEPT ![k] = ended] \in Seq(Entries)
    BY <1>1, <1>2
  <1>5. /\ reassigned' \in [Person -> Seq(Entries)]
        /\ \A q \in Person \ {p} : reassigned'[q] = reassigned[q]
        /\ reassigned'[p] = [reassigned[p] EXCEPT ![k] = ended]
    BY <1>3, <1>4
  <1>6. reassigned[p] # <<>>
    BY <1>1
  <1>7. Active(p)' \subseteq Active(p)
    BY <1>1, <1>2, <1>5 DEF Active
  <1> QED
    BY <1>5, <1>6, <1>7

(* No call relies on a reassignment being active. *)
LEMMA ReassignmentEndsInv ==
  ASSUME RosterInv, NEW p \in Person, ReassignmentEnds(p)
  PROVE  RosterInv'
  <1>1. TypeOK
        /\ UNCHANGED <<admitted, present, home, health, profession, statusLog, journey,
                       listed, call, contested>>
    BY DEF RosterInv, ReassignmentEnds, row
  <1>2. PICK k \in DOMAIN reassigned[p] : reassigned' = [reassigned EXCEPT ![p][k].end = "past"]
    BY DEF ReassignmentEnds
  <1>3. /\ reassigned' \in [Person -> Seq([from : Profession, to : Profession, end : End])]
        /\ \A q \in Person \ {p} : reassigned'[q] = reassigned[q]
        /\ reassigned[p] # <<>>
        /\ Active(p)' \subseteq Active(p)
    BY <1>1, <1>2, EndsActive
  <1>4. TypeOK'
    BY <1>1, <1>3 DEF TypeOK
  <1>5. RowsFilled'
    BY <1>1, <1>3 DEF RosterInv, RowsFilled, RowFilled
  <1>6. \A q \in Person : Active(q)' \subseteq Active(q)
    BY <1>3 DEF Active
  <1>7. CallsFilled'
    BY <1>1 DEF RosterInv, CallsFilled, Open, Filled
  <1>8. ReadStillTrue'
    <2>1. ASSUME NEW g \in Call, NEW x, Open(g), x = call[g], x.of \notin contested
          PROVE  Holders(x.of) = {g} /\ StillTrue(x)'
      <3>1. Holders(x.of) = {g} /\ StillTrue(x) /\ x.of \in Person
        BY <2>1 DEF RosterInv, ReadStillTrue, CallsFilled, Filled
      <3> QED
        BY <1>1, <1>6, <3>1 DEF StillTrue
    <2> QED
      BY <1>1, <2>1 DEF ReadStillTrue, StillTrue, Active, Holders, Open
  <1>9. HistoryConnects'
    <2>1. ASSUME NEW q \in present \ contested PROVE Connected(q)'
      <3>1. q \in Person /\ Connected(q)
        BY <1>1, <2>1 DEF RosterInv, HistoryConnects, TypeOK
      <3>2. StatusesConnect(q)' /\ CampsConnect(q)'
        BY <1>1, <3>1 DEF Connected, StatusesConnect, CampsConnect
      <3>3. OneReassignment(q)'
        BY <1>6, <3>1 DEF Connected, OneReassignment
      <3> QED
        BY <3>2, <3>3 DEF Connected
    <2> QED
      BY <1>1, <2>1 DEF HistoryConnects
  <1> QED
    BY <1>4, <1>5, <1>7, <1>8, <1>9 DEF RosterInv

-----------------------------------------------------------------------------
(* A step that changes nothing. *)
LEMMA RosterStutters ==
  ASSUME RosterInv, UNCHANGED vars
  PROVE  RosterInv'
  <1>1. UNCHANGED <<admitted, present, home, health, profession, statusLog, journey, reassigned,
                    listed, call, contested>>
    BY DEF vars, row, logs
  <1>2. TypeOK' /\ RowsFilled' /\ CallsFilled'
    BY <1>1 DEF RosterInv, TypeOK, RowsFilled, RowFilled, CallsFilled, Filled, Open
  <1>3. ReadStillTrue'
    BY <1>1 DEF RosterInv, ReadStillTrue, StillTrue, Holders, Open, Active
  <1>4. HistoryConnects'
    BY <1>1 DEF RosterInv, HistoryConnects, Connected, StatusesConnect, CampsConnect,
                OneReassignment, Active
  <1> QED
    BY <1>2, <1>3, <1>4 DEF RosterInv

(* Every step by which an open call goes on. *)
LEMMA ContinueInv ==
  ASSUME RosterInv, NEW h \in Call, Continue(h)
  PROVE  RosterInv'
  BY ReadForUpdateInv, UpdateInv, DeleteInv, ChangeStatusInv, ReassignInv, TransferInv, MemberInv,
     FailInv DEF Continue

(* RosterInv is inductive. *)
LEMMA RosterStep == RosterInv /\ [Next]_vars => RosterInv'
  <1> SUFFICES ASSUME RosterInv, [Next]_vars PROVE RosterInv'
    OBVIOUS
  <1>1. ASSUME NEW p \in Person, NEW c \in Camp, NEW s \in Status, NEW f \in Profession,
               CreatePerson(p, c, s, f)
        PROVE  RosterInv'
    BY <1>1, CreateInv
  <1>2. ASSUME NEW h \in Call, NEW p \in Person, NEW c \in Camp, Begin(h, p, c) PROVE RosterInv'
    BY <1>2, BeginInv
  <1>3. ASSUME NEW h \in Call, NEW p \in Person, NEW s \in Status, ReadForMember(h, p, s)
        PROVE  RosterInv'
    BY <1>3, ReadForMemberInv
  <1>4. ASSUME NEW h \in Call, Continue(h) PROVE RosterInv'
    BY <1>4, ContinueInv
  <1>5. ASSUME NEW p \in Person, ReassignmentEnds(p) PROVE RosterInv'
    BY <1>5, ReassignmentEndsInv
  <1>6. CASE UNCHANGED vars
    BY <1>6, RosterStutters
  <1> QED
    BY <1>1, <1>2, <1>3, <1>4, <1>5, <1>6 DEF Next

(***************************************************************************)
(* What a call has read of a person whom no other call holds is still so   *)
(* when the call writes, so that the logs of a person whose calls never    *)
(* overlapped lead from admission to the row (people.service.ts).          *)
(***************************************************************************)
THEOREM RosterInvariance == Spec => []RosterInv
  BY RosterInit, RosterStep, PTL DEF Spec

-----------------------------------------------------------------------------
(***************************************************************************)
(* What the logs of a person name they name for as long as the row is      *)
(* there; with the row and the calls looked at one by one that is enough.  *)
(***************************************************************************)
NamesKept(p) == NamedCamps(p) \subseteq NamedCamps(p)' /\ NamedStatuses(p) \subseteq NamedStatuses(p)'

CallNamed(h) == Open(h) => admitted[call[h].of] # None /\ ReadNamed(call[h])

LEMMA SameNames ==
  ASSUME NEW p, admitted'[p] = admitted[p], journey'[p] = journey[p], statusLog'[p] = statusLog[p]
  PROVE  /\ NamedCamps(p)' = NamedCamps(p) /\ NamedStatuses(p)' = NamedStatuses(p)
         /\ NamesKept(p)
         /\ home'[p] = home[p] /\ health'[p] = health[p] /\ RowNamed(p) => RowNamed(p)'
  BY DEF NamesKept, NamedCamps, NamedStatuses, RowNamed

LEMMA LongerLog ==
  ASSUME NEW Entry, NEW log \in Seq(Entry), NEW entry \in Entry, NEW next \in {log, Append(log, entry)}
  PROVE  /\ \A k \in DOMAIN log : k \in DOMAIN next /\ next[k] = log[k]
         /\ next = Append(log, entry) => Len(log) + 1 \in DOMAIN next /\ next[Len(log) + 1] = entry
  <1>1. CASE next = Append(log, entry)
    BY <1>1
  <1>2. CASE next = log /\ next # Append(log, entry)
    BY <1>2
  <1> QED
    BY <1>1, <1>2

(* One more entry in a log, or none, takes no name away. *)
LEMMA LongerNames ==
  ASSUME TypeOK, NEW p \in Person, admitted'[p] = admitted[p],
         NEW leg \in [from : Camp, to : Camp], NEW entry \in [old : Status, new : Status],
         journey'[p] \in {journey[p], Append(journey[p], leg)},
         statusLog'[p] \in {statusLog[p], Append(statusLog[p], entry)}
  PROVE  /\ NamesKept(p)
         /\ journey'[p] = Append(journey[p], leg) => leg.to \in NamedCamps(p)'
         /\ statusLog'[p] = Append(statusLog[p], entry) => entry.new \in NamedStatuses(p)'
  <1>1. /\ journey[p] \in Seq([from : Camp, to : Camp])
        /\ statusLog[p] \in Seq([old : Status, new : Status])
    BY DEF TypeOK
  <1>2. /\ \A k \in DOMAIN journey[p] : k \in DOMAIN journey'[p] /\ journey'[p][k] = journey[p][k]
        /\ journey'[p] = Append(journey[p], leg) =>
             Len(journey[p]) + 1 \in DOMAIN journey'[p] /\ journey'[p][Len(journey[p]) + 1] = leg
    BY <1>1, LongerLog
  <1>3. /\ \A k \in DOMAIN statusLog[p] :
             k \in DOMAIN statusLog'[p] /\ statusLog'[p][k] = statusLog[p][k]
        /\ statusLog'[p] = Append(statusLog[p], entry) =>
             /\ Len(statusLog[p]) + 1 \in DOMAIN statusLog'[p]
             /\ statusLog'[p][Len(statusLog[p]) + 1] = entry
    BY <1>1, LongerLog
  <1>6. NamedCamps(p) \subseteq NamedCamps(p)'
    BY <1>2 DEF NamedCamps
  <1>7. NamedStatuses(p) \subseteq NamedStatuses(p)'
    BY <1>3 DEF NamedStatuses
  <1>8. journey'[p] = Append(journey[p], leg) => leg.to \in NamedCamps(p)'
    BY <1>2 DEF NamedCamps
  <1>9. statusLog'[p] = Append(statusLog[p], entry) => entry.new \in NamedStatuses(p)'
    BY <1>3 DEF NamedStatuses
  <1> QED
    BY <1>6, <1>7, <1>8, <1>9 DEF NamesKept

(* A call that stays as it is may still write what it has read. *)
LEMMA CallKept ==
  ASSUME NEW h \in Call, CallNamed(h), call'[h] = call[h], NEW p, p = call[h].of,
         admitted[p] # None => admitted'[p] = admitted[p],
         p \in present' => p \in present /\ NamesKept(p)
  PROVE  CallNamed(h)'
  <1> SUFFICES ASSUME Open(h)'
               PROVE  (admitted[call[h].of] # None)' /\ ReadNamed(call[h])'
    BY DEF CallNamed
  <1>1. Open(h)
    BY DEF Open
  <1>2. admitted[p] # None /\ ReadNamed(call[h])
    BY <1>1 DEF CallNamed
  <1>3. (admitted[call[h].of] # None)'
    BY <1>2
  <1>4. ReadNamed(call[h])'
    BY <1>2 DEF ReadNamed, NamesKept
  <1> QED
    BY <1>3, <1>4

-----------------------------------------------------------------------------
(* A call that opens, h, has read the row as it is. *)
LEMMA ProceedNames ==
  ASSUME RosterInv, LogsNameEverything, NEW h \in Call, NEW p \in Person, NEW next \in Handling,
         next.step \in {"checked", "read"}, next.of = p, Proceed(h, p, next),
         next.kind # "member" => next.camp = home[p],
         next.step = "read" /\ next.kind # "reassign" => next.seen = health[p]
  PROVE  LogsNameEverything'
  <1>1. UNCHANGED <<admitted, present, home, health, profession, statusLog, journey, reassigned>>
          /\ p \in present
    BY DEF Proceed, row, logs
  <1>2. /\ TypeOK /\ call'[h] = next
        /\ \A g \in Call \ {h} : call'[g] = call[g]
    BY ProceedCalls DEF RosterInv
  <1>3. \A q : NamesKept(q) /\ NamedCamps(q)' = NamedCamps(q) /\ NamedStatuses(q)' = NamedStatuses(q)
    BY <1>1 DEF NamesKept, NamedCamps, NamedStatuses
  <1>4. \A q \in present' : RowNamed(q)'
    BY <1>1, <1>3 DEF LogsNameEverything, RowNamed
  <1>5. ASSUME NEW g \in Call
        PROVE  CallNamed(g)'
    <2>1. CASE g # h
      <3>1. CallNamed(g)
        BY DEF LogsNameEverything, CallNamed
      <3> QED
        BY <1>1, <1>2, <1>3, <2>1, <3>1, CallKept
    <2>2. CASE g = h
      <3>1. admitted[p] # None /\ RowNamed(p)
        BY <1>1 DEF RosterInv, RowsFilled, RowFilled, LogsNameEverything
      <3>2. ReadNamed(next)'
        BY <1>1, <1>3, <3>1 DEF ReadNamed, RowNamed
      <3>3. (admitted[call[h].of] # None)' /\ ReadNamed(call[h])'
        BY <1>1, <1>2, <3>1, <3>2 DEF ReadNamed, NamedCamps, NamedStatuses
      <3> QED
        BY <2>2, <3>3 DEF CallNamed
    <2> QED
      BY <2>1, <2>2
  <1> QED
    BY <1>4, <1>5 DEF LogsNameEverything, CallNamed

(***************************************************************************)
(* A call that ends, h, with what it writes of its person, p: a camp it    *)
(* has read or logs, and a status it has read, logs or leaves.             *)
(***************************************************************************)
LEMMA AnswerNames ==
  ASSUME RosterInv, LogsNameEverything, NEW h \in Call, Open(h), Answer(h),
         NEW p \in Person, p = call[h].of, UNCHANGED admitted, present' \subseteq present,
         \A q \in Person \ {p} :
           /\ home'[q] = home[q] /\ health'[q] = health[q]
           /\ statusLog'[q] = statusLog[q] /\ journey'[q] = journey[q],
         p \in present' => NamesKept(p) /\ RowNamed(p)'
  PROVE  LogsNameEverything'
  <1>1. /\ TypeOK /\ ~Open(h)'
        /\ \A g \in Call \ {h} : call'[g] = call[g]
    BY AnswerCalls DEF RosterInv
  <1>2. \A q \in Person \ {p} : NamesKept(q) /\ (RowNamed(q) => RowNamed(q)')
    BY SameNames
  <1>3. ASSUME NEW q \in present'
        PROVE  RowNamed(q)'
    <2>1. q \in Person /\ RowNamed(q)
      BY <1>1, <1>3 DEF TypeOK, LogsNameEverything
    <2> QED
      BY <1>2, <1>3, <2>1
  <1>4. ASSUME NEW g \in Call
        PROVE  CallNamed(g)'
    <2>1. CASE g # h
      <3>1. CallNamed(g)
        BY DEF LogsNameEverything, CallNamed
      <3>2. CASE Open(g)
        <4>1. call[g].of \in Person
          BY <3>2 DEF RosterInv, CallsFilled, Filled
        <4>2. call[g].of \in present' => call[g].of \in present /\ NamesKept(call[g].of)
          BY <1>2, <4>1
        <4> QED
          BY <1>1, <2>1, <3>1, <4>2, CallKept
      <3>3. CASE ~Open(g)
        BY <1>1, <2>1, <3>3 DEF CallNamed, Open
      <3> QED
        BY <3>2, <3>3
    <2>2. CASE g = h
      BY <1>1, <2>2 DEF CallNamed
    <2> QED
      BY <2>1, <2>2
  <1> QED
    BY <1>3, <1>4 DEF LogsNameEverything, CallNamed

(* What an open call knows of the names of its person. *)
LEMMA OpenNames ==
  ASSUME RosterInv, LogsNameEverything, NEW h \in Call, Open(h), NEW x, NEW p, x = call[h], p = x.of
  PROVE  /\ TypeOK /\ p \in Person /\ Filled(x)
         /\ p \in present => RowNamed(p) /\ health[p] \in Status
                              /\ (x.kind # "member" => x.camp \in NamedCamps(p))
                              /\ (x.step = "read" /\ x.kind # "reassign" => x.seen \in NamedStatuses(p))
  <1>1. TypeOK /\ p \in Person /\ Filled(x) /\ (p \in present => health[p] \in Status)
    BY OpenFacts
  <1>2. ReadNamed(x) /\ (p \in present => RowNamed(p))
    BY DEF LogsNameEverything
  <1> QED
    BY <1>1, <1>2 DEF ReadNamed

(***************************************************************************)
(* What Update, ChangeStatus, Transfer and Member do to the row of p: the  *)
(* camp is one the call has read or the log now names, and the status the  *)
(* old one, the one the call has read, or the one the log now names.       *)
(***************************************************************************)
HomeWritten(p, c, to) ==
  \/ home'[p] \in {home[p], c} /\ journey'[p] = journey[p]
  \/ home'[p] = to /\ journey'[p] = Append(journey[p], [from |-> c, to |-> to])

StatusWritten(p, old, new) ==
  \/ health'[p] \in {health[p], old} /\ statusLog'[p] = statusLog[p]
  \/ health'[p] = new /\ statusLog'[p] = Append(statusLog[p], [old |-> old, new |-> new])

LEMMA WritesNamed ==
  ASSUME TypeOK, NEW p \in Person, RowNamed(p), UNCHANGED admitted,
         NEW c \in Camp, NEW to \in Camp, NEW old \in Status, NEW new \in Status,
         c \in NamedCamps(p), old \in NamedStatuses(p),
         HomeWritten(p, c, to), StatusWritten(p, old, new)
  PROVE  NamesKept(p) /\ RowNamed(p)'
  <1> DEFINE leg == [from |-> c, to |-> to]
             entry == [old |-> old, new |-> new]
  <1>1. /\ leg \in [from : Camp, to : Camp] /\ leg.to = to
        /\ entry \in [old : Status, new : Status] /\ entry.new = new
        /\ journey'[p] \in {journey[p], Append(journey[p], leg)}
        /\ statusLog'[p] \in {statusLog[p], Append(statusLog[p], entry)}
    BY DEF HomeWritten, StatusWritten
  <1>2. /\ home'[p] \in {home[p], c} \/ (home'[p] = leg.to /\ journey'[p] = Append(journey[p], leg))
        /\ \/ health'[p] \in {health[p], old}
           \/ health'[p] = entry.new /\ statusLog'[p] = Append(statusLog[p], entry)
    BY DEF HomeWritten, StatusWritten
  <1> HIDE DEF leg, entry
  <1>3. /\ NamesKept(p)
        /\ journey'[p] = Append(journey[p], leg) => leg.to \in NamedCamps(p)'
        /\ statusLog'[p] = Append(statusLog[p], entry) => entry.new \in NamedStatuses(p)'
    BY <1>1, LongerNames
  <1>4. home'[p] \in NamedCamps(p)'
    BY <1>2, <1>3 DEF NamesKept, RowNamed
  <1>5. health'[p] \in NamedStatuses(p)'
    BY <1>2, <1>3 DEF NamesKept, RowNamed
  <1> QED
    BY <1>3, <1>4, <1>5 DEF RowNamed

-----------------------------------------------------------------------------
LEMMA UpdateNames ==
  ASSUME RosterInv, LogsNameEverything, NEW h \in Call, Update(h),
         NEW x, NEW p, x = call[h], p = x.of
  PROVE  LogsNameEverything'
  <1>1. Open(h) /\ Answer(h) /\ p \in present /\ x.step = "read" /\ x.kind = "update"
    BY DEF Update, Writes, Open
  <1>2. /\ TypeOK /\ p \in Person /\ Filled(x) /\ RowNamed(p) /\ health[p] \in Status
        /\ x.camp \in NamedCamps(p) /\ x.seen \in NamedStatuses(p) /\ x.camp \in Camp /\ x.seen \in Status
    BY <1>1, OpenNames DEF Filled
  <1>3. /\ home' = [home EXCEPT ![p] = x.camp]
        /\ health' = [health EXCEPT ![p] = Given(x.status, @)]
        /\ IF x.status \in {None, x.seen} THEN UNCHANGED statusLog ELSE LogStatus(p, x.seen, x.status)
        /\ UNCHANGED <<admitted, present, journey>>
    BY DEF Update
  <1>4. x.status = None \/ x.status \in Status
    BY <1>1, OpenFacts DEF Handling
  <1>5. /\ home'[p] = x.camp
        /\ \A q \in Person \ {p} : home'[q] = home[q] /\ health'[q] = health[q]
                                     /\ statusLog'[q] = statusLog[q]
    BY <1>2, <1>3 DEF TypeOK, LogStatus
  <1>6. \/ health'[p] \in {health[p], x.seen} /\ statusLog'[p] = statusLog[p]
        \/ /\ x.status \in Status /\ health'[p] = x.status
           /\ statusLog'[p] = Append(statusLog[p], [old |-> x.seen, new |-> x.status])
    BY <1>2, <1>3, <1>4 DEF TypeOK, LogStatus, Given
  <1>7. HomeWritten(p, x.camp, x.camp)
    BY <1>3, <1>5 DEF HomeWritten
  <1>8. NamesKept(p) /\ RowNamed(p)'
    <2>1. CASE health'[p] \in {health[p], x.seen} /\ statusLog'[p] = statusLog[p]
      <3>1. StatusWritten(p, x.seen, x.seen)
        BY <2>1 DEF StatusWritten
      <3> QED
        BY <1>2, <1>3, <1>7, <3>1, WritesNamed
    <2>2. CASE ~(health'[p] \in {health[p], x.seen} /\ statusLog'[p] = statusLog[p])
      <3>1. x.status \in Status /\ StatusWritten(p, x.seen, x.status)
        BY <1>6, <2>2 DEF StatusWritten
      <3> QED
        BY <1>2, <1>3, <1>7, <3>1, WritesNamed
    <2> QED
      BY <2>1, <2>2
  <1> QED
    BY <1>1, <1>2, <1>3, <1>5, <1>8, AnswerNames

LEMMA ChangeStatusNames ==
  ASSUME RosterInv, LogsNameEverything, NEW h \in Call, ChangeStatus(h),
         NEW x, NEW p, x = call[h], p = x.of
  PROVE  LogsNameEverything'
  <1>1. Open(h) /\ Answer(h) /\ p \in present /\ x.step = "read" /\ x.kind = "status"
    BY DEF ChangeStatus, Writes, Open
  <1>2. /\ TypeOK /\ p \in Person /\ RowNamed(p) /\ x.status \in Status
        /\ x.camp \in NamedCamps(p) /\ x.seen \in NamedStatuses(p) /\ x.camp \in Camp /\ x.seen \in Status
    BY <1>1, OpenNames DEF Filled
  <1>3. /\ health' = [health EXCEPT ![p] = x.status] /\ LogStatus(p, x.seen, x.status)
        /\ UNCHANGED <<admitted, present, home, journey>>
    BY DEF ChangeStatus
  <1>4. /\ health'[p] = x.status
        /\ statusLog'[p] = Append(statusLog[p], [old |-> x.seen, new |-> x.status])
        /\ \A q \in Person \ {p} : health'[q] = health[q] /\ statusLog'[q] = statusLog[q]
    BY <1>2, <1>3 DEF TypeOK, LogStatus
  <1>5. NamesKept(p) /\ RowNamed(p)'
    <2>1. HomeWritten(p, x.camp, x.camp) /\ StatusWritten(p, x.seen, x.status)
      BY <1>3, <1>4 DEF HomeWritten, StatusWritten
    <2> QED
      BY <1>2, <1>3, <2>1, WritesNamed
  <1> QED
    BY <1>1, <1>2, <1>3, <1>4, <1>5, AnswerNames

LEMMA TransferNames ==
  ASSUME RosterInv, LogsNameEverything, NEW h \in Call, Transfer(h),
         NEW x, NEW p, x = call[h], p = x.of
  PROVE  LogsNameEverything'
  <1>1. Open(h) /\ Answer(h) /\ p \in present /\ x.step = "read" /\ x.kind = "transfer"
    BY DEF Transfer, Writes, Open
  <1>2. /\ TypeOK /\ p \in Person /\ RowNamed(p) /\ x.status \in Status /\ x.to \in Camp
        /\ x.camp \in NamedCamps(p) /\ x.seen \in NamedStatuses(p) /\ x.camp \in Camp /\ x.seen \in Status
    BY <1>1, OpenNames DEF Filled
  <1>3. /\ home' = [home EXCEPT ![p] = x.to]
        /\ health' = [health EXCEPT ![p] = x.status]
        /\ IF x.status = x.seen THEN UNCHANGED statusLog ELSE LogStatus(p, x.seen, x.status)
        /\ journey' = [journey EXCEPT ![p] = Append(@, [from |-> x.camp, to |-> x.to])]
        /\ UNCHANGED <<admitted, present>>
    BY DEF Transfer
  <1>4. /\ home'[p] = x.to /\ health'[p] = x.status
        /\ journey'[p] = Append(journey[p], [from |-> x.camp, to |-> x.to])
        /\ x.status = x.seen => statusLog'[p] = statusLog[p]
        /\ x.status # x.seen =>
             statusLog'[p] = Append(statusLog[p], [old |-> x.seen, new |-> x.status])
    BY <1>2, <1>3 DEF TypeOK, LogStatus
  <1>5. \A q \in Person \ {p} : /\ home'[q] = home[q] /\ health'[q] = health[q]
                                /\ statusLog'[q] = statusLog[q] /\ journey'[q] = journey[q]
    BY <1>2, <1>3 DEF TypeOK, LogStatus
  <1>6. NamesKept(p) /\ RowNamed(p)'
    <2>1. HomeWritten(p, x.camp, x.to) /\ StatusWritten(p, x.seen, x.status)
      BY <1>4 DEF HomeWritten, StatusWritten
    <2> QED
      BY <1>2, <1>3, <2>1, WritesNamed
  <1> QED
    BY <1>1, <1>2, <1>3, <1>5, <1>6, AnswerNames

(* A member who already has the status is left alone. *)
LEMMA MemberNames ==
  ASSUME RosterInv, LogsNameEverything, NEW h \in Call, Member(h),
         NEW x, NEW p, x = call[h], p = x.of
  PROVE  LogsNameEverything'
  <1>1. Open(h) /\ Answer(h) /\ p \in present /\ x.step = "read" /\ x.kind = "member"
    BY DEF Member, Writes, Open
  <1>2. /\ TypeOK /\ p \in Person /\ RowNamed(p) /\ x.status \in Status
        /\ x.seen \in NamedStatuses(p) /\ x.seen \in Status
    BY <1>1, OpenNames DEF Filled
  <1>3. UNCHANGED <<admitted, present, home, journey>>
    BY DEF Member
  <1>4. CASE x.status = x.seen
    <2>1. UNCHANGED <<health, statusLog>>
      BY <1>4 DEF Member
    <2>2. NamesKept(p) /\ RowNamed(p)'
      BY <1>2, <1>3, <2>1, SameNames
    <2> QED
      BY <1>1, <1>2, <1>3, <2>1, <2>2, AnswerNames
  <1>5. CASE x.status # x.seen
    <2>1. health' = [health EXCEPT ![p] = x.status] /\ LogStatus(p, x.seen, x.status)
      BY <1>5 DEF Member
    <2>2. /\ health'[p] = x.status
          /\ statusLog'[p] = Append(statusLog[p], [old |-> x.seen, new |-> x.status])
          /\ \A q \in Person \ {p} : health'[q] = health[q] /\ statusLog'[q] = statusLog[q]
      BY <1>2, <2>1 DEF TypeOK, LogStatus
    <2>3. home[p] \in Camp /\ home[p] \in NamedCamps(p)
      BY <1>1, <1>2 DEF RosterInv, RowsFilled, RowFilled, RowNamed
    <2>4. HomeWritten(p, home[p], home[p]) /\ StatusWritten(p, x.seen, x.status)
      BY <1>3, <2>2 DEF HomeWritten, StatusWritten
    <2>5. NamesKept(p) /\ RowNamed(p)'
      BY <1>2, <1>3, <2>3, <2>4, WritesNamed
    <2> QED
      BY <1>1, <1>2, <1>3, <2>2, <2>5, AnswerNames
  <1> QED
    BY <1>4, <1>5

(* Reassignments, refusals and deletions change no camp and no status. *)
LEMMA OtherAnswersNames ==
  ASSUME RosterInv, LogsNameEverything, NEW h \in Call, Reassign(h) \/ Delete(h) \/ Fail(h)
  PROVE  LogsNameEverything'
  <1>1. Open(h) /\ Answer(h)
    BY DEF Reassign, Delete, Fail, Writes, Open
  <1>2. PICK p : p = call[h].of
    OBVIOUS
  <1>3. TypeOK /\ p \in Person /\ (p \in present => RowNamed(p))
    BY <1>1, <1>2, OpenNames
  <1>4. UNCHANGED <<admitted, home, health, journey>> /\ present' \subseteq present
    BY DEF Reassign, Delete, Fail, row, logs
  <1>5. /\ \A q \in Person \ {p} : statusLog'[q] = statusLog[q]
        /\ p \in present' => statusLog'[p] = statusLog[p]
    BY <1>2, <1>3 DEF Reassign, Delete, Fail, row, logs, TypeOK
  <1>6. p \in present' => NamesKept(p) /\ RowNamed(p)'
    BY <1>3, <1>4, <1>5, SameNames
  <1> QED
    BY <1>1, <1>2, <1>3, <1>4, <1>5, <1>6, AnswerNames

-----------------------------------------------------------------------------
(* The reads that open a call, and the second one of updatePerson. *)
LEMMA BeginNames ==
  ASSUME RosterInv, LogsNameEverything, NEW h \in Call, NEW p \in Person, NEW c \in Camp, Begin(h, p, c)
  PROVE  LogsNameEverything'
  <1>1. p \in present => health[p] \in Status /\ profession[p] \in Profession
    BY DEF RosterInv, RowsFilled, RowFilled
  <1>2. ASSUME NEW s \in Status \cup {None}, NEW f \in Profession \cup {None},
               CheckForUpdate(h, p, c, s, f)
        PROVE  LogsNameEverything'
    <2> DEFINE next == [New EXCEPT !.step = "checked", !.kind = "update", !.of = p, !.camp = c,
                                   !.status = s, !.profession = f]
    <2>1. Proceed(h, p, next) /\ home[p] = c /\ p \in present
      BY <1>2 DEF CheckForUpdate, Proceed
    <2>2. /\ next \in Handling /\ next.step = "checked" /\ next.of = p /\ next.camp = c
      BY DEF Handling, New, Kind, End
    <2> HIDE DEF next
    <2> QED
      BY <2>1, <2>2, ProceedNames
  <1>3. ASSUME CheckForDelete(h, p, c)
        PROVE  LogsNameEverything'
    <2> DEFINE next == [New EXCEPT !.step = "checked", !.kind = "delete", !.of = p, !.camp = c]
    <2>1. Proceed(h, p, next) /\ home[p] = c /\ p \in present
      BY <1>3 DEF CheckForDelete, Proceed
    <2>2. /\ next \in Handling /\ next.step = "checked" /\ next.of = p /\ next.camp = c
      BY DEF Handling, New, Kind, End
    <2> HIDE DEF next
    <2> QED
      BY <2>1, <2>2, ProceedNames
  <1>4. ASSUME NEW s \in Status, ReadForStatus(h, p, c, s)
        PROVE  LogsNameEverything'
    <2> DEFINE next == [New EXCEPT !.step = "read", !.kind = "status", !.of = p, !.camp = c,
                                   !.status = s, !.seen = health[p]]
    <2>1. Proceed(h, p, next) /\ home[p] = c /\ p \in present
      BY <1>4 DEF ReadForStatus, Proceed
    <2>2. /\ next \in Handling /\ next.step = "read" /\ next.of = p /\ next.camp = c
          /\ next.seen = health[p]
      BY <1>1, <2>1 DEF Handling, New, Kind, End
    <2> HIDE DEF next
    <2> QED
      BY <2>1, <2>2, ProceedNames
  <1>5. ASSUME NEW f \in Profession, NEW e \in End, ReadForReassign(h, p, c, f, e)
        PROVE  LogsNameEverything'
    <2> DEFINE next == [New EXCEPT !.step = "read", !.kind = "reassign", !.of = p, !.camp = c,
                                   !.profession = f, !.from = profession[p], !.end = e]
    <2>1. Proceed(h, p, next) /\ home[p] = c /\ p \in present
      BY <1>5 DEF ReadForReassign, Proceed
    <2>2. health[p] \in Status /\ profession[p] \in Profession
      BY <1>1, <2>1
    <2>3. next \in Handling
      <3>1. PICK from \in Profession : from = profession[p]
        BY <2>2
      <3>2. [New EXCEPT !.step = "read", !.kind = "reassign", !.of = p, !.camp = c,
                        !.profession = f, !.from = from, !.end = e] \in Handling
        BY DEF Handling, New, Kind, End
      <3> QED
        BY <3>1, <3>2
    <2>4. next.step = "read" /\ next.of = p /\ next.camp = c /\ next.kind = "reassign"
      BY DEF New
    <2> HIDE DEF next
    <2> QED
      BY <2>1, <2>3, <2>4, ProceedNames
  <1>6. ASSUME NEW to \in Camp, NEW s \in Status, ReadForTransfer(h, p, c, to, s)
        PROVE  LogsNameEverything'
    <2> DEFINE next == [New EXCEPT !.step = "read", !.kind = "transfer", !.of = p, !.camp = c,
                                   !.to = to, !.status = s, !.seen = health[p]]
    <2>1. Proceed(h, p, next) /\ home[p] = c /\ p \in present
      BY <1>6 DEF ReadForTransfer, Proceed
    <2>2. health[p] \in Status
      BY <1>1, <2>1
    <2>3. next \in Handling
      <3>1. PICK seen \in Status : seen = health[p]
        BY <2>2
      <3>2. [New EXCEPT !.step = "read", !.kind = "transfer", !.of = p, !.camp = c,
                        !.to = to, !.status = s, !.seen = seen] \in Handling
        BY DEF Handling, New, Kind, End
      <3> QED
        BY <3>1, <3>2
    <2>4. next.step = "read" /\ next.of = p /\ next.camp = c /\ next.seen = health[p]
      BY DEF New
    <2> HIDE DEF next
    <2> QED
      BY <2>1, <2>3, <2>4, ProceedNames
  <1> QED
    BY <1>2, <1>3, <1>4, <1>5, <1>6 DEF Begin

LEMMA ReadForMemberNames ==
  ASSUME RosterInv, LogsNameEverything, NEW h \in Call, NEW p \in Person, NEW s \in Status,
         ReadForMember(h, p, s)
  PROVE  LogsNameEverything'
  <1> DEFINE next == [New EXCEPT !.step = "read", !.kind = "member", !.of = p,
                                 !.status = s, !.seen = health[p]]
  <1>1. Proceed(h, p, next) /\ p \in present
    BY DEF ReadForMember, Proceed
  <1>2. health[p] \in Status
    BY <1>1 DEF RosterInv, RowsFilled, RowFilled
  <1>3. /\ next \in Handling /\ next.step = "read" /\ next.of = p /\ next.kind = "member"
        /\ next.seen = health[p]
    BY <1>2 DEF Handling, New, Kind, End
  <1> HIDE DEF next
  <1> QED
    BY <1>1, <1>3, ProceedNames

LEMMA ReadForUpdateNames ==
  ASSUME RosterInv, LogsNameEverything, NEW h \in Call, ReadForUpdate(h)
  PROVE  LogsNameEverything'
  <1>1. /\ TypeOK /\ call[h] \in Handling /\ call[h].of \in present /\ Open(h)
        /\ call[h].kind = "update"
    BY DEF ReadForUpdate, RosterInv, TypeOK, Open
  <1>2. /\ call' = [call EXCEPT ![h].step = "read", ![h].seen = health[call[h].of]]
        /\ UNCHANGED <<admitted, present, home, health, statusLog, journey>>
    BY DEF ReadForUpdate, row, logs
  <1>3. /\ call'[h].step = "read" /\ call'[h].seen = health[call[h].of]
        /\ call'[h].kind = call[h].kind /\ call'[h].of = call[h].of /\ call'[h].camp = call[h].camp
        /\ \A g \in Call \ {h} : call'[g] = call[g]
    BY <1>1, <1>2 DEF TypeOK, Handling
  <1>4. \A q : NamesKept(q) /\ NamedCamps(q)' = NamedCamps(q) /\ NamedStatuses(q)' = NamedStatuses(q)
    BY <1>2 DEF NamesKept, NamedCamps, NamedStatuses
  <1>5. \A q \in present' : RowNamed(q)'
    BY <1>2, <1>4 DEF LogsNameEverything, RowNamed
  <1>6. ASSUME NEW g \in Call
        PROVE  CallNamed(g)'
    <2>1. CASE g # h
      <3>1. CallNamed(g)
        BY DEF LogsNameEverything, CallNamed
      <3> QED
        BY <1>2, <1>3, <1>4, <2>1, <3>1, CallKept
    <2>2. CASE g = h
      <3>1. admitted[call[h].of] # None /\ RowNamed(call[h].of) /\ ReadNamed(call[h])
        BY <1>1 DEF LogsNameEverything
      <3>2. /\ health[call[h].of] \in NamedStatuses(call[h].of)
            /\ call[h].camp \in NamedCamps(call[h].of)
        BY <1>1, <3>1 DEF ReadNamed, RowNamed
      <3>3. admitted'[call'[h].of] # None
        BY <1>2, <1>3, <3>1
      <3>4. PICK x : x = call'[h]
        OBVIOUS
      <3>5. ReadNamed(x)'
        BY <1>2, <1>3, <1>4, <3>2, <3>4 DEF ReadNamed
      <3>6. ReadNamed(call[h])'
        BY <3>4, <3>5 DEF ReadNamed, NamedCamps, NamedStatuses
      <3> QED
        BY <2>2, <3>3, <3>6 DEF CallNamed
    <2> QED
      BY <2>1, <2>2
  <1> QED
    BY <1>5, <1>6 DEF LogsNameEverything, CallNamed

(* Nobody has a call open for a person who is not admitted yet. *)
LEMMA CreateNames ==
  ASSUME RosterInv, LogsNameEverything, NEW p \in Person, NEW c \in Camp, NEW s \in Status,
         NEW f \in Profession, CreatePerson(p, c, s, f)
  PROVE  LogsNameEverything'
  <1>1. /\ TypeOK /\ admitted[p] = None
        /\ admitted' = [admitted EXCEPT ![p] = [camp |-> c, status |-> s]]
        /\ present' = present \cup {p}
        /\ home' = [home EXCEPT ![p] = c] /\ health' = [health EXCEPT ![p] = s]
        /\ UNCHANGED <<statusLog, journey, call>>
    BY DEF CreatePerson, RosterInv, logs
  <1>2. /\ admitted'[p] = [camp |-> c, status |-> s] /\ home'[p] = c /\ health'[p] = s
        /\ \A q \in Person \ {p} :
             admitted'[q] = admitted[q] /\ home'[q] = home[q] /\ health'[q] = health[q]
    BY <1>1 DEF TypeOK
  <1>3. \A q \in Person \ {p} : NamesKept(q) /\ (RowNamed(q) => RowNamed(q)')
    BY <1>1, <1>2, SameNames
  <1>4. RowNamed(p)'
    BY <1>2 DEF RowNamed, NamedCamps, NamedStatuses
  <1>5. \A q \in present' : RowNamed(q)'
    BY <1>1, <1>3, <1>4 DEF LogsNameEverything, TypeOK
  <1>6. ASSUME NEW g \in Call
        PROVE  CallNamed(g)'
    <2>1. CallNamed(g)
      BY DEF LogsNameEverything, CallNamed
    <2>2. CASE Open(g)
      <3>1. call[g].of \in Person /\ admitted[call[g].of] # None
        BY <2>1, <2>2 DEF RosterInv, CallsFilled, Filled, CallNamed
      <3>2. call[g].of # p
        BY <1>1, <3>1
      <3>3. /\ admitted'[call[g].of] = admitted[call[g].of] /\ NamesKept(call[g].of)
            /\ call[g].of \in present' => call[g].of \in present
        BY <1>1, <1>2, <1>3, <3>1, <3>2
      <3> QED
        BY <1>1, <2>1, <3>3, CallKept
    <2>3. CASE ~Open(g)
      BY <1>1, <2>3 DEF CallNamed, Open
    <2> QED
      BY <2>2, <2>3
  <1> QED
    BY <1>5, <1>6 DEF LogsNameEverything, CallNamed

(* A step that touches no row, no log that names, and no call. *)
LEMMA NamesStay ==
  ASSUME LogsNameEverything,
         UNCHANGED <<admitted, present, home, health, statusLog, journey, call>>
  PROVE  LogsNameEverything'
  <1>1. \A q : NamedCamps(q)' = NamedCamps(q) /\ NamedStatuses(q)' = NamedStatuses(q)
    BY DEF NamedCamps, NamedStatuses
  <1>2. \A q \in present' : RowNamed(q)'
    BY <1>1 DEF LogsNameEverything, RowNamed
  <1>3. \A g \in Call : CallNamed(g)'
    <2>1. \A q : NamesKept(q)
      BY <1>1 DEF NamesKept
    <2>2. \A g \in Call : CallNamed(g)
      BY DEF LogsNameEverything, CallNamed
    <2> QED
      BY <2>1, <2>2, CallKept
  <1> QED
    BY <1>2, <1>3 DEF LogsNameEverything, CallNamed

(***************************************************************************)
(* Whatever calls overlap, and even if one of them writes back a camp or a *)
(* status that another has replaced, what the row of a person says was     *)
(* once logged of that person (people.service.ts).                         *)
(***************************************************************************)
THEOREM RowsAreNamed == Spec => []LogsNameEverything
  <1>1. Init => LogsNameEverything
    BY DEF Init, LogsNameEverything, Open, New
  <1>2. RosterInv /\ LogsNameEverything /\ [Next]_vars => LogsNameEverything'
    <2> SUFFICES ASSUME RosterInv, LogsNameEverything, [Next]_vars
                 PROVE  LogsNameEverything'
      OBVIOUS
    <2>1. ASSUME NEW p \in Person, NEW c \in Camp, NEW s \in Status, NEW f \in Profession,
                 CreatePerson(p, c, s, f)
          PROVE  LogsNameEverything'
      BY <2>1, CreateNames
    <2>2. ASSUME NEW h \in Call, NEW p \in Person, NEW c \in Camp, Begin(h, p, c)
          PROVE  LogsNameEverything'
      BY <2>2, BeginNames
    <2>3. ASSUME NEW h \in Call, NEW p \in Person, NEW s \in Status, ReadForMember(h, p, s)
          PROVE  LogsNameEverything'
      BY <2>3, ReadForMemberNames
    <2>4. ASSUME NEW h \in Call, Continue(h)
          PROVE  LogsNameEverything'
      BY <2>4, ReadForUpdateNames, UpdateNames, ChangeStatusNames, TransferNames, MemberNames,
         OtherAnswersNames DEF Continue
    <2>5. ASSUME NEW p \in Person, ReassignmentEnds(p)
          PROVE  LogsNameEverything'
      BY <2>5, NamesStay DEF ReassignmentEnds, row
    <2>6. CASE UNCHANGED vars
      BY <2>6, NamesStay DEF vars, row, logs
    <2> QED
      BY <2>1, <2>2, <2>3, <2>4, <2>5, <2>6 DEF Next
  <1> QED
    BY RosterInvariance, <1>1, <1>2, PTL DEF Spec

-----------------------------------------------------------------------------
(* Admission: theorems for any number of requests, and any size of pool.     *)
(* What TypeOK says of a request. *)
Asked == [step : {"idle", "insert", "begin"} \cup InTx, of : AdmissionId \cup {NoAdmission},
          decision : Decision, code : {0} \cup Code]

(* What Acceptance says of a request that is as r says. *)
Sound(r) ==
  /\ r.of = NoAdmission <=> r = Idle
  /\ r.step \in {"code", "relations", "create"} \/ r.code # 0 =>
       /\ person[r.of] = 0
       /\ r.decision = "ACCEPTED"
       /\ r.step \in InTx \ {"row"}
  /\ r.step = "commit" /\ r.decision = "ACCEPTED" => r.code # 0 \/ person[r.of] # 0
  /\ r.step \in {"relations", "create"} => r.code # 0
  /\ r.step = "commit" /\ r.code # 0 => r.code \notin people

LEMMA IdleAsked ==
  /\ Idle \in Asked /\ Idle.step = "idle" /\ Idle.of = NoAdmission
  /\ Idle.code = 0 /\ Idle.decision = "PENDING"
  BY DEF Idle, Asked, Decision

LEMMA AdmissionTypes ==
  ASSUME AdmissionTypeOK
  PROVE  /\ final \in [AdmissionId -> {"NONE"} \cup Decision]
         /\ person \in [AdmissionId -> {0} \cup Code]
         /\ people \subseteq Code
         /\ request \in [Request -> Asked]
         /\ others \subseteq people
         /\ parted \subseteq AdmissionId
         /\ pristine \in BOOLEAN
         /\ pool \in Pool
  BY DEF AdmissionTypeOK, Asked

LEMMA AdmissionInitial ==
  AdmissionInit => AdmissionInv
  <1> SUFFICES ASSUME AdmissionInit
               PROVE  AdmissionInv
    OBVIOUS
  <1>1. AdmissionTypeOK
    BY IdleAsked DEF AdmissionInit, AdmissionTypeOK, Asked
  <1>2. OnePersonEach
    BY DEF AdmissionInit, OnePersonEach, Linked
  <1>3. OpenAcceptances
    BY IdleAsked DEF AdmissionInit, OpenAcceptances, Acceptance, Apart, Holds, Inserts, InTx
  <1> QED
    BY <1>1, <1>2, <1>3 DEF AdmissionInv

(* A request that moves on while the rows stay: what is left to show is about it alone. *)
LEMMA OneRequestMoves ==
  ASSUME AdmissionInv, NEW h \in Request, NEW r \in Asked, Sound(r),
         request' = [request EXCEPT ![h] = r],
         UNCHANGED <<person, people>>,
         r.step \in InTx \ {"row"} => \A g \in Request \ {h} : ~Holds(g, r.of),
         r.step = "commit" /\ r.code # 0 => \A g \in Request \ {h} : ~Inserts(g, r.code)
  PROVE  request' \in [Request -> Asked] /\ OpenAcceptances'
  <1>1. request \in [Request -> Asked] /\ OpenAcceptances
    BY AdmissionTypes DEF AdmissionInv
  <1>2. /\ request' \in [Request -> Asked] /\ request'[h] = r
        /\ \A g \in Request \ {h} : request'[g] = request[g]
    BY <1>1
  <1>3. ASSUME NEW g \in Request
        PROVE  Acceptance(g)'
    <2>1. CASE g = h
      BY <1>2, <2>1 DEF Acceptance, Sound
    <2>2. CASE g # h
      BY <1>1, <1>2, <2>2 DEF Acceptance, OpenAcceptances
    <2> QED
      BY <2>1, <2>2
  <1>4. ASSUME NEW g \in Request, NEW k \in Request, g # k
        PROVE  Apart(g, k)'
    <2>1. Apart(g, k)
      BY <1>1, <1>4 DEF OpenAcceptances
    <2>2. CASE g # h /\ k # h
      BY <1>2, <2>1, <2>2 DEF Apart, Holds, Inserts
    <2>3. CASE g = h
      BY <1>2, <1>4, <2>3 DEF Apart, Holds, Inserts
    <2>4. CASE k = h
      BY <1>2, <1>4, <2>4 DEF Apart, Holds, Inserts
    <2> QED
      BY <2>2, <2>3, <2>4
  <1> QED
    BY <1>2, <1>3, <1>4 DEF OpenAcceptances

(* The rows stay: so does what they say of each other. *)
LEMMA RowsStay ==
  ASSUME AdmissionInv, request' \in [Request -> Asked], OpenAcceptances',
         UNCHANGED <<final, person, people, others, parted, pristine, pool>>
  PROVE  AdmissionInv'
  <1>1. AdmissionTypeOK'
    BY DEF AdmissionInv, AdmissionTypeOK, Asked
  <1>2. OnePersonEach'
    BY DEF AdmissionInv, OnePersonEach, Linked
  <1> QED
    BY <1>1, <1>2 DEF AdmissionInv

(* A request that is answered or begins holds nothing. *)
LEMMA Outside ==
  ASSUME NEW r \in Asked, r.step \notin InTx, r.code = 0,
         r.of = NoAdmission <=> r = Idle
  PROVE  Sound(r) /\ r.step \notin InTx \ {"row"} /\ r.step # "commit"
  BY DEF Sound, InTx

LEMMA ReplyStep ==
  ASSUME AdmissionInv, NEW h \in Request, Reply(h), UNCHANGED <<person, people>>
  PROVE  request' \in [Request -> Asked] /\ OpenAcceptances'
  <1>1. Sound(Idle) /\ Idle.step \notin InTx \ {"row"} /\ Idle.step # "commit"
    BY IdleAsked, Outside DEF InTx
  <1> QED
    BY <1>1, IdleAsked, OneRequestMoves DEF Reply

LEMMA AsksStep ==
  ASSUME AdmissionInv, NEW h \in Request, NEW a \in AdmissionId,
         \/ \E sure \in Verdict : Evaluate(h, a, sure)
         \/ \E d \in {"ACCEPTED", "REJECTED"} : Review(h, a, d)
  PROVE  AdmissionInv'
  <1>1. PICK r \in Asked : /\ request' = [request EXCEPT ![h] = r]
                          /\ r.step \in {"begin", "insert"} /\ r.of = a /\ r.code = 0
    <2> DEFINE r1(d) == [Idle EXCEPT !.step = "begin", !.of = a, !.decision = d]
               r2 == [Idle EXCEPT !.step = "insert", !.of = a]
    <2>1. ASSUME NEW d \in Decision
          PROVE  r1(d) \in Asked /\ r1(d).step = "begin" /\ r1(d).of = a /\ r1(d).code = 0
      BY DEF Idle, Asked
    <2>2. r2 \in Asked /\ r2.step = "insert" /\ r2.of = a /\ r2.code = 0
      BY DEF Idle, Asked, Decision
    <2>3. \/ \E d \in Decision : request' = [request EXCEPT ![h] = r1(d)]
          \/ request' = [request EXCEPT ![h] = r2]
      BY DEF Evaluate, Review, Decision
    <2> HIDE DEF r1, r2
    <2> QED
      BY <2>1, <2>2, <2>3
  <1>3. r # Idle /\ a # NoAdmission
    BY <1>1, IdleAsked, AdmissionAssumption
  <1>4. Sound(r) /\ r.step \notin InTx \ {"row"} /\ r.step # "commit"
    BY <1>1, <1>3, Outside DEF InTx
  <1>5. UNCHANGED <<final, person, people, others, parted, pristine, pool>>
    BY DEF Evaluate, Review
  <1>6. request' \in [Request -> Asked] /\ OpenAcceptances'
    BY <1>1, <1>4, <1>5, OneRequestMoves
  <1> QED
    BY <1>5, <1>6, RowsStay

(* What is known of a request that has been asked for an admission. *)
LEMMA Underway ==
  ASSUME AdmissionInv, NEW h \in Request, request[h].step # "idle"
  PROVE  /\ request[h] \in Asked /\ Acceptance(h) /\ request[h].of \in AdmissionId
         /\ request[h] # Idle
  BY IdleAsked, AdmissionTypes DEF AdmissionInv, OpenAcceptances, Acceptance, Asked

(* A step that is written alone leaves the code as it is. *)
LEMMA StepAlone ==
  ASSUME NEW r \in Asked, NEW s \in InTx
  PROVE  [r EXCEPT !.step = s] = [r EXCEPT !.step = s, !.code = r.code]
  BY DEF Asked, InTx, Idle

(* The number that comes last in the order of the codes is one of them. *)
LEMMA RankBounded ==
  ASSUME NEW n \in Code
  PROVE  Rank(n) \in 0 .. 2 * Radix * Full
  <1>1. /\ Radix \in Nat \ {0, 1} /\ Full \in Nat \ {0} /\ MaxCode \in Nat
        /\ MaxCode < Full * Radix
    BY AdmissionAssumption
  <1>2. Full * Radix \in Nat /\ 2 * Radix * Full \in Nat /\ 2 * Radix * Full = 2 * (Full * Radix)
    BY <1>1
  <1>3. n \in 1 .. MaxCode + 1 /\ Odd = MaxCode + 1
    BY DEF Code, Odd
  <1>4. CASE n = Odd
    BY <1>2, <1>4 DEF Rank
  <1>5. CASE n # Odd /\ n < Full
    <2>1. n * Radix <= Full * Radix /\ n * Radix \in Nat
      BY <1>1, <1>3, <1>5
    <2>2. 2 * Radix * n = 2 * (n * Radix)
      BY <1>1, <1>3
    <2> QED
      BY <1>2, <1>5, <2>1, <2>2 DEF Rank
  <1>6. CASE n # Odd /\ ~(n < Full)
    <2>1. n <= MaxCode /\ n \in Nat
      BY <1>1, <1>3, <1>6
    <2>2. 2 * n + 1 <= 2 * (Full * Radix)
      BY <1>1, <1>2, <2>1
    <2> QED
      BY <1>2, <1>6, <2>1, <2>2 DEF Rank
  <1> QED
    BY <1>4, <1>5, <1>6

LEMMA SmallestNumber ==
  ASSUME NEW S \in SUBSET Nat, S # {}
  PROVE  \E n \in S : \A m \in S : n <= m
  <1>1. IsWellFoundedOn(OpToRel(<, Nat), Nat)
    BY NatLessThanWellFounded
  <1>2. PICK n \in S : \A m \in S : ~(<<m, n>> \in OpToRel(<, Nat))
    BY <1>1, WFMin, Zenon
  <1>3. ASSUME NEW m \in S
        PROVE  n <= m
    <2>1. m \in Nat /\ n \in Nat
      OBVIOUS
    <2>2. ASSUME m < n
          PROVE  <<m, n>> \in OpToRel(<, Nat)
      <3>1. <<m, n>> \in Nat \X Nat /\ <<m, n>>[1] < <<m, n>>[2]
        BY <2>1, <2>2
      <3> QED
        BY <3>1, Zenon DEF OpToRel
    <2>3. ~(m < n)
      BY <1>2, <2>2, Zenon
    <2> QED
      BY <2>1, <2>3
  <1> QED
    BY <1>3

LEMMA LastIsThere ==
  ASSUME people \subseteq Code, people # {}
  PROVE  Last \in people
  <1> DEFINE B == 2 * Radix * Full
             S == {B - Rank(n) : n \in people}
  <1>1. B \in Nat
    BY AdmissionAssumption
  <1>2. \A n \in people : Rank(n) \in 0 .. B
    BY RankBounded
  <1> HIDE DEF B
  <1>3. S \in SUBSET Nat /\ S # {}
    BY <1>1, <1>2
  <1>4. PICK least \in S : \A m \in S : least <= m
    <2> HIDE DEF S
    <2> QED
      BY <1>3, SmallestNumber
  <1>5. PICK n \in people : least = B - Rank(n)
    BY <1>4
  <1>6. ASSUME NEW m \in people
        PROVE  Rank(m) <= Rank(n)
    <2>1. B - Rank(m) \in S
      OBVIOUS
    <2>2. B - Rank(n) <= B - Rank(m)
      BY <1>4, <1>5, <2>1
    <2> QED
      BY <1>1, <1>2, <2>2
  <1> QED
    BY <1>6 DEF Last

(* A code that is given is a code, and no longer than one more than one of them. *)
LEMMA NextIsACode ==
  ASSUME people \subseteq Code
  PROVE  /\ NextCode \in Code
         /\ NextCode = 1 \/ \E n \in people : NextCode <= n + 1
  <1>1. MaxCode \in Nat \ {0} /\ Odd = MaxCode + 1 /\ Code = 1 .. MaxCode + 1
    BY AdmissionAssumption DEF Odd, Code
  <1>2. CASE people = {} \/ Last = Odd
    BY <1>1, <1>2 DEF NextCode
  <1>3. CASE people # {} /\ Last # Odd
    <2>0. Last \in people
      BY <1>3, LastIsThere
    <2>1. Last \in people /\ Last \in 1 .. MaxCode
      BY <1>1, <1>3, <2>0
    <2>2. NextCode = IF Last = MaxCode THEN MaxCode ELSE Last + 1
      BY <1>3 DEF NextCode
    <2>3. NextCode \in 1 .. MaxCode /\ NextCode <= Last + 1
      BY <1>1, <2>1, <2>2
    <2> QED
      BY <1>1, <2>1, <2>3
  <1> QED
    BY <1>2, <1>3

(* What happens before a call holds anything, or to the admission it creates. *)
LEMMA InsertStep ==
  ASSUME AdmissionInv, NEW h \in Request, Insert(h)
  PROVE  AdmissionInv'
  <1>1. /\ final' = [final EXCEPT ![request[h].of] = "PENDING"] /\ Reply(h)
        /\ UNCHANGED <<person, people, others, parted, pristine, pool>>
    BY DEF Insert
  <1>2. request' \in [Request -> Asked] /\ OpenAcceptances'
    BY <1>1, ReplyStep
  <1>3. final' \in [AdmissionId -> {"NONE"} \cup Decision]
    BY <1>1 DEF AdmissionInv, AdmissionTypeOK, Decision
  <1>4. AdmissionTypeOK'
    BY <1>1, <1>2, <1>3 DEF AdmissionInv, AdmissionTypeOK, Asked
  <1>5. \A a \in AdmissionId : final'[a] = "ACCEPTED" => final[a] = "ACCEPTED"
    BY <1>1, AdmissionTypes DEF AdmissionInv
  <1>6. OnePersonEach'
    BY <1>1, <1>5 DEF AdmissionInv, OnePersonEach, Linked
  <1> QED
    BY <1>2, <1>4, <1>6 DEF AdmissionInv

LEMMA ExpireStep ==
  ASSUME AdmissionInv, NEW h \in Request, Expire(h)
  PROVE  AdmissionInv'
  BY ReplyStep, RowsStay DEF Expire

(* A request moves to another step of its transaction, perhaps with a code. *)
LEMMA TransactionStep ==
  ASSUME AdmissionInv, NEW h \in Request, NEW s \in InTx, NEW c \in {0} \cup Code,
         request[h].step # "idle",
         request' = [request EXCEPT ![h] = [request[h] EXCEPT !.step = s, !.code = c]],
         UNCHANGED <<final, person, people, others, parted, pristine, pool>>,
         s # "row" => \A g \in Request \ {h} : ~Holds(g, request[h].of),
         s = "commit" /\ c # 0 => c \notin people /\ \A g \in Request \ {h} : ~Inserts(g, c),
         s \in {"code", "relations", "create"} \/ c # 0 =>
           person[request[h].of] = 0 /\ request[h].decision = "ACCEPTED" /\ s # "row",
         s = "commit" /\ request[h].decision = "ACCEPTED" => c # 0 \/ person[request[h].of] # 0,
         s \in {"relations", "create"} => c # 0
  PROVE  AdmissionInv'
  <1>1. request[h] \in Asked /\ request[h].of \in AdmissionId
    BY Underway
  <1> DEFINE r == [request[h] EXCEPT !.step = s, !.code = c]
  <1>2. /\ r \in Asked /\ r.step = s /\ r.of = request[h].of
        /\ r.decision = request[h].decision /\ r.code = c /\ r # Idle
    <2>1. PICK q \in Asked : q = request[h]
      BY <1>1
    <2>2. r = [q EXCEPT !.step = s, !.code = c]
      BY <2>1, Zenon
    <2> HIDE DEF r
    <2>3. r \in Asked /\ r.step = s /\ r.of = q.of
      BY <2>2 DEF Asked, InTx, Idle
    <2>4. r.decision = q.decision /\ r.code = c /\ r # Idle
      BY <2>2 DEF Asked, InTx, Idle
    <2> QED
      BY <2>1, <2>3, <2>4
  <1>a. request' = [request EXCEPT ![h] = r]
    OBVIOUS
  <1> HIDE DEF r
  <1>3. r.of # NoAdmission
    BY <1>1, <1>2, AdmissionAssumption
  <1>4. Sound(r)
    BY <1>2, <1>3 DEF Sound
  <1>5. request' \in [Request -> Asked] /\ OpenAcceptances'
    BY <1>2, <1>4, <1>a, OneRequestMoves
  <1> QED
    BY <1>5, RowsStay

(* Advance moves a request and leaves its code as it is. *)
LEMMA Advances ==
  ASSUME AdmissionInv, NEW h \in Request, NEW s \in InTx, request[h].step # "idle",
         Advance(h, s)
  PROVE  /\ request[h].code \in {0} \cup Code
         /\ request' = [request EXCEPT ![h] =
                          [request[h] EXCEPT !.step = s, !.code = request[h].code]]
  <1>1. request[h] \in Asked
    BY Underway
  <1>2. request[h].code \in {0} \cup Code
    BY <1>1 DEF Asked
  <1>3. request' = [request EXCEPT ![h] = [request[h] EXCEPT !.step = s]]
    BY DEF Advance
  <1>4. [request[h] EXCEPT !.step = s] = [request[h] EXCEPT !.step = s, !.code = request[h].code]
    BY <1>1, StepAlone
  <1> QED
    BY <1>2, <1>3, <1>4, Zenon

(* What a call holds no other call holds. *)
LEMMA OwnAdmission ==
  ASSUME AdmissionInv, NEW h \in Request, Holds(h, request[h].of)
  PROVE  /\ \A g \in Request \ {h} : ~Holds(g, request[h].of)
         /\ request[h].code # 0 /\ request[h].step = "commit" =>
              \A g \in Request \ {h} : ~Inserts(g, request[h].code)
  <1>1. request[h].of \in AdmissionId
    BY Underway DEF Holds, InTx
  <1> QED
    BY <1>1 DEF AdmissionInv, OpenAcceptances, Apart, Holds, Inserts

LEMMA BeginRowStep ==
  ASSUME AdmissionInv, NEW h \in Request, BeginTx(h) \/ Row(h)
  PROVE  AdmissionInv'
  <1>1. /\ request[h].step \in {"begin", "row"}
        /\ UNCHANGED <<final, person, people, others, parted, pristine, pool>>
    BY DEF BeginTx, Row
  <1>2. Acceptance(h) /\ request[h].code = 0
    BY <1>1, Underway DEF Acceptance, InTx
  <1>3. CASE BeginTx(h)
    <2>1. Advance(h, "row") /\ "row" \in InTx
      BY <1>3 DEF BeginTx, InTx
    <2>2. request' = [request EXCEPT ![h] = [request[h] EXCEPT !.step = "row", !.code = 0]]
      BY <1>1, <1>2, <2>1, Advances
    <2> QED
      BY <1>1, <2>1, <2>2, TransactionStep
  <1>4. CASE Row(h)
    <2>1. PICK s \in {"code", "commit"} :
            /\ Advance(h, s)
            /\ s = "code" <=> request[h].decision = "ACCEPTED" /\ person[request[h].of] = 0
      BY <1>4 DEF Row
    <2>2. s \in InTx /\ s # "row"
      BY DEF InTx
    <2>3. request' = [request EXCEPT ![h] = [request[h] EXCEPT !.step = s, !.code = 0]]
      BY <1>1, <1>2, <2>1, <2>2, Advances
    <2>4. \A g \in Request \ {h} : ~Holds(g, request[h].of)
      BY <1>4 DEF Row
    <2> QED
      BY <1>1, <2>1, <2>2, <2>3, <2>4, TransactionStep
  <1> QED
    BY <1>3, <1>4

LEMMA CodeStep ==
  ASSUME AdmissionInv, NEW h \in Request, ReadLast(h) \/ CheckRelations(h)
  PROVE  AdmissionInv'
  <1>1. /\ request[h].step \in {"code", "relations"} /\ Acceptance(h) /\ people \subseteq Code
        /\ UNCHANGED <<final, person, people, others, parted, pristine, pool>>
    BY Underway DEF ReadLast, CheckRelations, AdmissionInv, AdmissionTypeOK
  <1>2. person[request[h].of] = 0 /\ request[h].decision = "ACCEPTED"
    BY <1>1 DEF Acceptance
  <1>3. \A g \in Request \ {h} : ~Holds(g, request[h].of)
    BY <1>1, OwnAdmission DEF Holds, InTx
  <1>4. CASE ReadLast(h)
    <2>1. request' = [request EXCEPT ![h] = [request[h] EXCEPT !.step = "relations", !.code = NextCode]]
      BY <1>4 DEF ReadLast
    <2>2. NextCode \in Code /\ NextCode # 0 /\ "relations" \in InTx
      BY <1>1, NextIsACode DEF Code, InTx
    <2> QED
      BY <1>1, <1>2, <1>3, <2>1, <2>2, TransactionStep
  <1>5. CASE CheckRelations(h)
    <2>1. Advance(h, "create") /\ "create" \in InTx /\ request[h].code # 0
      BY <1>1, <1>5 DEF CheckRelations, InTx, Acceptance
    <2>2. /\ request[h].code \in {0} \cup Code
          /\ request' = [request EXCEPT ![h] =
                           [request[h] EXCEPT !.step = "create", !.code = request[h].code]]
      BY <1>1, <2>1, Advances
    <2> QED
      BY <1>1, <1>2, <1>3, <2>1, <2>2, TransactionStep
  <1> QED
    BY <1>4, <1>5

LEMMA CreateStep ==
  ASSUME AdmissionInv, NEW h \in Request, Create(h)
  PROVE  AdmissionInv'
  <1>1. /\ request[h].step = "create" /\ Acceptance(h)
        /\ \A g \in Request : ~Inserts(g, request[h].code)
        /\ UNCHANGED <<final, person, people, others, parted, pristine, pool>>
    BY Underway DEF Create
  <1>2. person[request[h].of] = 0 /\ request[h].decision = "ACCEPTED" /\ request[h].code # 0
    BY <1>1 DEF Acceptance
  <1>3. CASE request[h].code \in people
    BY <1>1, <1>3, ReplyStep, RowsStay DEF Create
  <1>4. CASE request[h].code \notin people
    <2>1. Advance(h, "commit") /\ "commit" \in InTx
      BY <1>4 DEF Create, InTx
    <2>2. /\ request[h].code \in {0} \cup Code
          /\ request' = [request EXCEPT ![h] =
                           [request[h] EXCEPT !.step = "commit", !.code = request[h].code]]
      BY <1>1, <2>1, Advances
    <2>3. \A g \in Request \ {h} : ~Holds(g, request[h].of)
      BY <1>1, OwnAdmission DEF Holds, InTx
    <2> QED
      BY <1>1, <1>2, <1>4, <2>1, <2>2, <2>3, TransactionStep
  <1> QED
    BY <1>3, <1>4

(* An acceptance that commits: its person is nobody else's, and its alone. *)
LEMMA CommitStep ==
  ASSUME AdmissionInv, NEW h \in Request, Commit(h)
  PROVE  AdmissionInv'
  <1> DEFINE a == request[h].of
             c == request[h].code
  <1>1. /\ request[h].step = "commit" /\ Acceptance(h) /\ a \in AdmissionId
        /\ request[h] \in Asked
    BY Underway DEF Commit
  <1>2. /\ final' = [final EXCEPT ![a] = request[h].decision]
        /\ IF c = 0 THEN UNCHANGED <<person, people>>
           ELSE person' = [person EXCEPT ![a] = c] /\ people' = people \cup {c}
        /\ Reply(h)
        /\ UNCHANGED <<others, parted, pristine, pool>>
    BY DEF Commit
  <1>3. request[h].decision \in Decision /\ c \in {0} \cup Code
    BY <1>1 DEF Asked
  <1>4. /\ final \in [AdmissionId -> {"NONE"} \cup Decision]
        /\ person \in [AdmissionId -> {0} \cup Code]
        /\ people \subseteq Code /\ request \in [Request -> Asked] /\ others \subseteq people
        /\ OnePersonEach /\ OpenAcceptances
    BY AdmissionTypes DEF AdmissionInv
  <1>5. /\ c # 0 => person[a] = 0 /\ c \notin people /\ request[h].decision = "ACCEPTED"
        /\ request[h].decision = "ACCEPTED" => c # 0 \/ person[a] # 0
    BY <1>1 DEF Acceptance
  <1>6. CASE c = 0
    <2>1. UNCHANGED <<person, people>>
      BY <1>2, <1>6
    <2>2. request' \in [Request -> Asked] /\ OpenAcceptances'
      BY <1>2, <2>1, ReplyStep
    <2>3. final' \in [AdmissionId -> {"NONE"} \cup Decision]
      BY <1>2, <1>3, <1>4
    <2>4. AdmissionTypeOK'
      BY <1>2, <2>1, <2>2, <2>3 DEF AdmissionInv, AdmissionTypeOK, Asked
    <2>5. OnePersonEach'
      BY <1>1, <1>2, <1>4, <1>5, <1>6, <2>1 DEF OnePersonEach, Linked
    <2> QED
      BY <2>2, <2>4, <2>5 DEF AdmissionInv
  <1>7. CASE c # 0
    <2>1. person' = [person EXCEPT ![a] = c] /\ people' = people \cup {c}
      BY <1>2, <1>7
    <2>2. /\ request' \in [Request -> Asked] /\ request'[h] = Idle
          /\ \A g \in Request \ {h} : request'[g] = request[g]
      BY <1>2, <1>4, IdleAsked DEF Reply
    <2>3. \A g \in Request \ {h} :
            /\ ~Holds(g, a)
            /\ ~Inserts(g, c)
      BY <1>1, <1>7, OwnAdmission DEF Holds, InTx
    <2>4. /\ final' \in [AdmissionId -> {"NONE"} \cup Decision]
          /\ person' \in [AdmissionId -> {0} \cup Code] /\ people' \subseteq Code
      BY <1>2, <1>3, <1>4, <1>7, <2>1
    <2>5. AdmissionTypeOK'
      BY <1>2, <1>4, <2>1, <2>2, <2>4 DEF AdmissionInv, AdmissionTypeOK, Asked
    <2>6. OnePersonEach'
      <3>1. person'[a] = c /\ \A b \in AdmissionId \ {a} : person'[b] = person[b]
        BY <1>1, <1>4, <2>1
      <3>2. Linked' = Linked \cup {a} /\ a \notin Linked
        BY <1>1, <1>5, <1>7, <3>1 DEF Linked
      <3>3. \A b \in Linked : person[b] \in people /\ person[b] # c
        BY <1>4, <1>5, <1>7 DEF OnePersonEach
      <3>4. \A b \in AdmissionId \ parted' : final'[b] = "ACCEPTED" => b \in Linked'
        BY <1>1, <1>2, <1>4, <3>2 DEF OnePersonEach
      <3>5. \A b, d \in Linked' : person'[b] = person'[d] => b = d
        BY <1>4, <3>1, <3>2, <3>3 DEF OnePersonEach, Linked
      <3>6. {person'[b] : b \in Linked'} = {person[b] : b \in Linked} \cup {c}
        BY <3>1, <3>2 DEF Linked
      <3>7. people' = others' \cup {person'[b] : b \in Linked'}
        BY <1>2, <1>4, <2>1, <3>6 DEF OnePersonEach
      <3>8. \A b \in Linked' : person'[b] \notin others'
        BY <1>2, <1>4, <1>5, <1>7, <3>1, <3>2 DEF OnePersonEach, Linked
      <3> QED
        BY <3>4, <3>5, <3>7, <3>8 DEF OnePersonEach
    <2>7. ASSUME NEW g \in Request
          PROVE  Acceptance(g)'
      <3>1. CASE g = h
        BY <2>2, <3>1, IdleAsked DEF Acceptance, InTx
      <3>2. CASE g # h
        <4>1. Acceptance(g) /\ request'[g] = request[g] /\ ~Holds(g, a) /\ ~Inserts(g, c)
          BY <1>4, <2>2, <2>3, <3>2 DEF OpenAcceptances
        <4>2. request[g].of # a /\ request[g].of # NoAdmission =>
                person'[request[g].of] = person[request[g].of]
          BY <1>4, <2>1 DEF Asked
        <4>3. request[g].step \in InTx => request[g].of # NoAdmission
          BY <4>1, IdleAsked DEF Acceptance, InTx
        <4>4. person[request[g].of] # 0 => person'[request[g].of] # 0
          BY <1>1, <1>4, <1>7, <2>1
        <4> QED
          BY <2>1, <4>1, <4>2, <4>3, <4>4 DEF Acceptance, Holds, Inserts, InTx
      <3> QED
        BY <3>1, <3>2
    <2>8. ASSUME NEW g \in Request, NEW k \in Request, g # k
          PROVE  Apart(g, k)'
      BY <1>4, <2>2, <2>8, IdleAsked DEF OpenAcceptances, Apart, Holds, Inserts, InTx
    <2> QED
      BY <2>5, <2>6, <2>7, <2>8 DEF AdmissionInv, OpenAcceptances
  <1> QED
    BY <1>6, <1>7

(* People who come and go by hand disturb no acceptance that is under way. *)
LEMMA CreateByHandStep ==
  ASSUME AdmissionInv, NEW c \in Code, CreateByHand(c)
  PROVE  AdmissionInv'
  <1>1. /\ c \notin people /\ \A g \in Request : ~Inserts(g, c)
        /\ people' = people \cup {c} /\ others' = others \cup {c} /\ pristine' = FALSE
        /\ UNCHANGED <<final, person, request, parted, pool>>
    BY DEF CreateByHand
  <1>2. AdmissionTypeOK'
    BY <1>1 DEF AdmissionInv, AdmissionTypeOK
  <1>3. OnePersonEach'
    BY <1>1 DEF AdmissionInv, OnePersonEach, Linked
  <1>4. ASSUME NEW g \in Request
        PROVE  Acceptance(g)'
    BY <1>1 DEF AdmissionInv, OpenAcceptances, Acceptance, Inserts
  <1>5. \A g, k \in Request : g # k => Apart(g, k)'
    BY <1>1 DEF AdmissionInv, OpenAcceptances, Apart, Holds, Inserts
  <1> QED
    BY <1>2, <1>3, <1>4, <1>5 DEF AdmissionInv, OpenAcceptances

LEMMA DeletePersonStep ==
  ASSUME AdmissionInv, NEW c \in Code, DeletePerson(c)
  PROVE  AdmissionInv'
  <1> DEFINE of == {a \in AdmissionId : person[a] = c}
  <1>1. /\ c \in people /\ \A g \in Request, a \in of : ~Holds(g, a)
        /\ people' = people \ {c} /\ others' = others \ {c} /\ pristine' = FALSE
        /\ person' = [a \in AdmissionId |-> IF a \in of THEN 0 ELSE person[a]]
        /\ parted' = parted \cup of
        /\ UNCHANGED <<final, request, pool>>
    BY DEF DeletePerson
  <1>2. /\ person \in [AdmissionId -> {0} \cup Code] /\ request \in [Request -> Asked]
        /\ OnePersonEach /\ OpenAcceptances /\ AdmissionTypeOK
    BY AdmissionTypes DEF AdmissionInv
  <1>3. c # 0
    BY DEF Code
  <1>4. /\ \A a \in of : person'[a] = 0
        /\ \A a \in AdmissionId \ of : person'[a] = person[a]
        /\ person' \in [AdmissionId -> {0} \cup Code]
    BY <1>1, <1>2
  <1>5. AdmissionTypeOK'
    BY <1>1, <1>2, <1>4 DEF AdmissionTypeOK
  <1>6. OnePersonEach'
    <2>1. Linked' = Linked \ of /\ of \subseteq AdmissionId
      BY <1>4 DEF Linked
    <2>2. \A a \in AdmissionId \ parted' : final'[a] = "ACCEPTED" => a \in Linked'
      BY <1>1, <1>2, <2>1 DEF OnePersonEach
    <2>3. \A a, b \in Linked' : person'[a] = person'[b] => a = b
      BY <1>2, <1>4, <2>1 DEF OnePersonEach, Linked
    <2>4. {person'[a] : a \in Linked'} = {person[a] : a \in Linked} \ {c}
      BY <1>4, <2>1 DEF Linked
    <2>5. people' = others' \cup {person'[a] : a \in Linked'}
      BY <1>1, <1>2, <2>4 DEF OnePersonEach
    <2>6. \A a \in Linked' : person'[a] \notin others'
      BY <1>1, <1>2, <1>4, <2>1 DEF OnePersonEach, Linked
    <2> QED
      BY <2>2, <2>3, <2>5, <2>6 DEF OnePersonEach
  <1>7. ASSUME NEW g \in Request
        PROVE  Acceptance(g)'
    <2>1. Acceptance(g) /\ request'[g] = request[g]
      BY <1>1, <1>2 DEF OpenAcceptances
    <2>2. request[g].step \in InTx => request[g].of \in AdmissionId
      BY Underway DEF InTx
    <2>3. request[g].step \in InTx \ {"row"} => person'[request[g].of] = person[request[g].of]
      BY <1>1, <1>4, <2>2 DEF Holds
    <2> QED
      BY <1>1, <2>1, <2>2, <2>3 DEF Acceptance, InTx
  <1>8. \A g, k \in Request : g # k => Apart(g, k)'
    BY <1>1, <1>2 DEF OpenAcceptances, Apart, Holds, Inserts
  <1> QED
    BY <1>5, <1>6, <1>7, <1>8 DEF AdmissionInv, OpenAcceptances

LEMMA AdmissionStep ==
  AdmissionInv /\ [AdmissionNext]_admissionVars => AdmissionInv'
  <1> SUFFICES ASSUME AdmissionInv, [AdmissionNext]_admissionVars
               PROVE  AdmissionInv'
    OBVIOUS
  <1>1. ASSUME NEW h \in Request, NEW a \in AdmissionId,
               \/ \E sure \in Verdict : Evaluate(h, a, sure)
               \/ \E d \in {"ACCEPTED", "REJECTED"} : Review(h, a, d)
        PROVE  AdmissionInv'
    BY <1>1, AsksStep
  <1>2. ASSUME NEW h \in Request, Resume(h) \/ Expire(h)
        PROVE  AdmissionInv'
    BY <1>2, InsertStep, BeginRowStep, CodeStep, CreateStep, CommitStep, ExpireStep DEF Resume
  <1>3. ASSUME NEW c \in ByHand, CreateByHand(c)
        PROVE  AdmissionInv'
    BY <1>3, CreateByHandStep, AdmissionAssumption DEF Code, Odd
  <1>4. ASSUME NEW c \in Code, DeletePerson(c)
        PROVE  AdmissionInv'
    BY <1>4, DeletePersonStep
  <1>5. CASE UNCHANGED admissionVars
    BY <1>5 DEF admissionVars, AdmissionInv, AdmissionTypeOK, OnePersonEach, Linked,
                OpenAcceptances, Acceptance, Apart, Holds, Inserts
  <1> QED
    BY <1>1, <1>2, <1>3, <1>4, <1>5 DEF AdmissionNext

(***************************************************************************)
(* For any number of admissions and overlapping reviews, whatever the size *)
(* of the pool and of the codes: an accepted admission has a person of its *)
(* own, and nobody is created for an admission that does not lead there.   *)
(* AdmissionInv is inductive because an acceptance that has found no       *)
(* person holds the admission's row, and a code it has inserted is its own.*)
(***************************************************************************)
THEOREM AcceptanceIsAllOrNothing == AdmissionSpec => []AdmissionInv
  BY AdmissionInitial, AdmissionStep, PTL DEF AdmissionSpec

(* How many codes there are. *)
LEMMA CodesAreCounted ==
  ASSUME NEW S \in SUBSET Code
  PROVE  IsFiniteSet(S) /\ Cardinality(S) \in Nat
  <1>1. IsFiniteSet(Code)
    BY FS_Interval, AdmissionAssumption DEF Code, Odd
  <1> QED
    BY <1>1, FS_Subset, FS_CardinalityType

LEMMA CountUpTo ==
  ASSUME NEW n \in Nat
  PROVE  Cardinality(1 .. n) = n
  BY FS_Interval

(* A code that is the next, or taken, and not taken, is the next. *)
LEMMA NumberedStep ==
  AdmissionInv /\ NumberedInOrder /\ [AdmissionNext]_admissionVars => NumberedInOrder'
  <1> SUFFICES ASSUME AdmissionInv, NumberedInOrder, [AdmissionNext]_admissionVars, pristine'
               PROVE  NumberedInOrder'
    BY DEF NumberedInOrder
  <1> DEFINE n == Cardinality(people)
  <1>1. /\ people \subseteq Code /\ request \in [Request -> Asked] /\ pristine \in BOOLEAN
        /\ n \in Nat
    BY AdmissionTypes, CodesAreCounted DEF AdmissionInv
  <1>2. ASSUME pristine, UNCHANGED people,
               \A h \in Request : \/ request'[h].code \in {0, NextCode}
                                  \/ request'[h].code = request[h].code
        PROVE  NumberedInOrder'
    <2>1. people = 1 .. n /\ \A h \in Request : request[h].code <= n + 1
      BY <1>2 DEF NumberedInOrder
    <2>2. NextCode <= n + 1 /\ NextCode \in Nat
      <3>1. NextCode \in Code /\ (NextCode = 1 \/ \E m \in people : NextCode <= m + 1)
        BY <1>1, NextIsACode
      <3>2. NextCode \in Nat
        BY <3>1, AdmissionAssumption DEF Code, Odd
      <3> HIDE DEF n
      <3> QED
        BY <1>1, <2>1, <3>1, <3>2
    <2>3. Cardinality(people)' = n
      BY <1>2
    <2>4. \A h \in Request : request'[h].code <= n + 1
      BY <1>1, <1>2, <2>1, <2>2
    <2> QED
      BY <1>2, <2>1, <2>3, <2>4 DEF NumberedInOrder
  <1>3. ASSUME NEW h \in Request, UNCHANGED <<people, pristine>>, Reply(h)
        PROVE  NumberedInOrder'
    <2>1. \A g \in Request : request'[g].code \in {0, request[g].code}
      BY <1>1, <1>3, IdleAsked DEF Reply
    <2> QED
      BY <1>2, <1>3, <2>1
  <1>4. ASSUME NEW h \in Request, NEW s, UNCHANGED <<people, pristine>>, Advance(h, s)
        PROVE  NumberedInOrder'
    <2>1. \A g \in Request : request'[g].code = request[g].code
      BY <1>1, <1>4 DEF Advance, Asked
    <2> QED
      BY <1>2, <1>4, <2>1
  <1>5. ASSUME NEW h \in Request, NEW a \in AdmissionId,
               \/ \E sure \in Verdict : Evaluate(h, a, sure)
               \/ \E d \in {"ACCEPTED", "REJECTED"} : Review(h, a, d)
        PROVE  NumberedInOrder'
    <2>1. \A g \in Request : request'[g].code \in {0, request[g].code}
      BY <1>1, <1>5 DEF Evaluate, Review, Idle
    <2> QED
      BY <1>2, <1>5, <2>1 DEF Evaluate, Review
  <1>6. ASSUME NEW h \in Request, ReadLast(h)
        PROVE  NumberedInOrder'
    <2>1. \A g \in Request : request'[g].code \in {NextCode, request[g].code}
      BY <1>1, <1>6 DEF ReadLast, Asked
    <2> QED
      BY <1>2, <1>6, <2>1 DEF ReadLast
  <1>7. ASSUME NEW h \in Request, Commit(h)
        PROVE  NumberedInOrder'
    <2> DEFINE c == request[h].code
    <2>1. /\ UNCHANGED pristine /\ Reply(h) /\ Acceptance(h)
          /\ request[h].step = "commit"
          /\ IF c = 0 THEN people' = people ELSE people' = people \cup {c}
      BY <1>7, Underway DEF Commit
    <2>2. CASE c = 0
      BY <1>3, <2>1, <2>2
    <2>3. CASE c # 0
      <3>1. /\ people = 1 .. n /\ \A g \in Request : request[g].code <= n + 1
            /\ c \notin people
        BY <2>1, <2>3 DEF NumberedInOrder, Acceptance
      <3>2. c \in Nat
        <4>1. c \in {0} \cup Code
          BY <1>1 DEF Asked
        <4> QED
          BY <4>1, AdmissionAssumption DEF Code, Odd
      <3> HIDE DEF n
      <3>3. c = n + 1
        BY <1>1, <2>3, <3>1, <3>2
      <3>4. people' = 1 .. n + 1
        <4>1. people' = (1 .. n) \cup {n + 1}
          BY <2>1, <2>3, <3>1, <3>3
        <4>2. (1 .. n) \cup {n + 1} = 1 .. n + 1
          BY <1>1
        <4> QED
          BY <4>1, <4>2
      <3>5. Cardinality(people)' = n + 1
        <4>1. n + 1 \in Nat
          BY <1>1
        <4>2. Cardinality(1 .. n + 1) = n + 1
          BY <4>1, CountUpTo, Zenon
        <4> QED
          BY <3>4, <4>2
      <3>6. \A g \in Request : request'[g].code \in {0, request[g].code}
        BY <1>1, <2>1, IdleAsked DEF Reply
      <3>7. \A g \in Request : request[g].code \in Nat
        <4>1. \A g \in Request : request[g].code \in {0} \cup Code
          BY <1>1 DEF Asked
        <4> QED
          BY <4>1, AdmissionAssumption DEF Code, Odd
      <3>8. \A g \in Request : request'[g].code <= (n + 1) + 1
        BY <1>1, <3>1, <3>6, <3>7
      <3> QED
        BY <3>4, <3>5, <3>8 DEF NumberedInOrder
    <2> QED
      BY <2>2, <2>3
  <1>8. ASSUME NEW h \in Request, Resume(h) \/ Expire(h)
        PROVE  NumberedInOrder'
    <2>1. CASE Insert(h) \/ Expire(h)
      BY <1>3, <2>1 DEF Insert, Expire
    <2>2. CASE BeginTx(h) \/ Row(h) \/ CheckRelations(h)
      BY <1>4, <2>2 DEF BeginTx, Row, CheckRelations
    <2>3. CASE Create(h)
      BY <1>3, <1>4, <2>3 DEF Create
    <2> QED
      BY <1>6, <1>7, <1>8, <2>1, <2>2, <2>3 DEF Resume
  <1>9. CASE UNCHANGED admissionVars
    BY <1>2, <1>9 DEF admissionVars
  <1>10. ~\E c \in Code : DeletePerson(c) \/ CreateByHand(c)
    BY DEF DeletePerson, CreateByHand
  <1> QED
    BY <1>5, <1>8, <1>9, <1>10, AdmissionAssumption DEF AdmissionNext, Code, Odd

(***************************************************************************)
(* As long as codes only come from acceptances, they are given without a   *)
(* gap, however many calls read the same last code, and whichever of them  *)
(* fail: for every way to write codes down whose order is not that of the  *)
(* numbers.                                                                *)
(***************************************************************************)
THEOREM CodesWithoutAGap == AdmissionSpec => []NumberedInOrder
  <1>1. AdmissionInit => NumberedInOrder
    <2>1. Cardinality({}) = 0 /\ {} = 1 .. 0
      BY FS_EmptySet
    <2> QED
      BY <2>1, IdleAsked DEF AdmissionInit, NumberedInOrder
  <1> QED
    BY <1>1, NumberedStep, AcceptanceIsAllOrNothing, PTL DEF AdmissionSpec
=============================================================================
