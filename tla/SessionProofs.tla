--------------------------- MODULE SessionProofs ---------------------------
(***************************************************************************)
(* Theorems about Sessions, for any number of calls, of refresh tokens and *)
(* of sessions, and after it about DailyJobs.                              *)
(*                                                                         *)
(* SessionInv is inductive: no call holds a version from the future and,   *)
(* of a deleted account, no request that has passed its checks holds the   *)
(* present one, so that the update of the middleware, which compares       *)
(* versions, lets nobody through who should not be.  RotationInv is        *)
(* inductive under it: of a login whose tokens nobody contests, one call   *)
(* at a time may create the next refresh token.                            *)
(*                                                                         *)
(* DailyInv is inductive because a run serves a row once, and what it      *)
(* found in a row stays there unless somebody else takes from it.          *)
(***************************************************************************)
EXTENDS Sessions, DailyJobs, FiniteSetTheorems, WellFoundedInduction, TLAPS

(* A call that is free is like no other; it holds the first version. *)
LEMMA IdleCall ==
  Idle \in Handling /\ Idle.version = 1 /\ Idle.op = "idle" /\ Idle.step = "idle"
  BY SessionsAssumption DEF Idle, Handling, Op, Step, Version

(* The account is new and has no session. *)
LEMMA SessionsInit == Init => SessionInv
  <1> SUFFICES ASSUME Init PROVE SessionInv
    OBVIOUS
  <1>1. 1 \in Version /\ \A h \in Call : call[h] = Idle
    BY SessionsAssumption DEF Init, Version
  <1>2. TypeOK
    BY <1>1, IdleCall, SessionsAssumption DEF Init, TypeOK
  <1>3. ActivityOfSession
    BY DEF Init, ActivityOfSession
  <1>4. CallsAreBehind
    BY <1>1, IdleCall DEF Init, CallsAreBehind, Suits, Checked, NeedsToken
  <1> QED
    BY <1>2, <1>3, <1>4 DEF SessionInv

(* Going on with a call changes its step alone. *)
LEMMA NextStep ==
  ASSUME NEW c \in Handling, NEW step \in Step
  PROVE  /\ [c EXCEPT !.step = step] \in Handling
         /\ [c EXCEPT !.step = step].op = c.op
         /\ [c EXCEPT !.step = step].step = step
         /\ [c EXCEPT !.step = step].version = c.version
         /\ [c EXCEPT !.step = step].token = c.token
  BY DEF Handling

(* A step of one call leaves every other one as it is. *)
LEMMA OneCall ==
  ASSUME call \in [Call -> Handling], CallsAreBehind,
         NEW h \in Call, NEW c \in Handling, Becomes(h, c), Suits(c),
         UNCHANGED <<active, version, removed>>
  PROVE  call' \in [Call -> Handling] /\ CallsAreBehind'
  <1>1. call' = [call EXCEPT ![h] = c]
    BY DEF Becomes
  <1>2. call' \in [Call -> Handling]
    BY <1>1
  <1>3. \A g \in Call : call'[g] = c \/ call'[g] = call[g]
    BY <1>1
  <1>4. \A g \in Call : Suits(call'[g])
    BY <1>3 DEF CallsAreBehind
  <1> QED
    BY <1>2, <1>4 DEF CallsAreBehind, Suits

(* Where only a call changes, and history that no type forbids. *)
LEMMA CallsAlone ==
  ASSUME SessionInv,
         NEW h \in Call, NEW c \in Handling, Becomes(h, c), Suits(c),
         UNCHANGED <<account, toucher, revived, removed>>,
         token' \in [Token -> {"none", "live", "expired", "revoked", "deleted"}],
         login' \in [Token -> Token \cup {None}],
         signed' \subseteq Version, contested' \subseteq Token, closed' \subseteq Token \cup {None}
  PROVE  SessionInv'
  <1>1. call' \in [Call -> Handling] /\ CallsAreBehind'
    BY OneCall DEF SessionInv, TypeOK, account
  <1>2. TypeOK'
    BY <1>1 DEF SessionInv, TypeOK, account, Version
  <1>3. ActivityOfSession'
    BY DEF SessionInv, ActivityOfSession, account
  <1> QED
    BY <1>1, <1>2, <1>3 DEF SessionInv

(* ... and where the call alone changes. *)
LEMMA Unchanged ==
  ASSUME SessionInv, NEW h \in Call, NEW c \in Handling, Becomes(h, c), Suits(c),
         UNCHANGED <<account, token, login, signed, history>>
  PROVE  SessionInv'
  BY CallsAlone DEF SessionInv, TypeOK, history

(* When a session ends, every call is left behind. *)
LEMMA SessionEnds ==
  ASSUME SessionInv, EndSession, call' \in [Call -> Handling],
         \A h \in Call : call'[h] = call[h] \/ call'[h] = Idle,
         active' \in BOOLEAN, removed' \in BOOLEAN, removed' => ~active',
         UNCHANGED <<token, login, signed, contested, closed, toucher>>
  PROVE  SessionInv'
  <1>1. /\ version \in Nat /\ version' = version + 1 /\ version' \in Version
        /\ activity' = "none" /\ revived' = FALSE
    BY SessionsAssumption DEF SessionInv, TypeOK, EndSession, Version
  <1>2. TypeOK'
    BY <1>1 DEF SessionInv, TypeOK, Version
  <1>3. ActivityOfSession'
    BY <1>1 DEF ActivityOfSession
  <1>4. \A h \in Call : call[h].version \in Int /\ call[h].version <= version
    <2>1. \A h \in Call : call[h].version \in 1 .. MaxVersion
      BY DEF SessionInv, TypeOK, Handling, Version
    <2> QED
      BY <2>1 DEF SessionInv, CallsAreBehind, Suits
  <1>5. \A h \in Call : /\ call'[h].version \in Int
                        /\ call'[h].version < version'
    <2>1. 1 < version'
      BY <1>1, SessionsAssumption DEF SessionInv, TypeOK, Version
    <2> QED
      BY <2>1, <1>1, <1>4, IdleCall
  <1>6. \A h \in Call : /\ call'[h].step = "create" => call'[h].op # "request"
                        /\ NeedsToken(call'[h]) => call'[h].token \in Token
    <2>1. NeedsToken(Idle) = FALSE
      BY IdleCall DEF NeedsToken
    <2> QED
      BY <2>1, IdleCall DEF SessionInv, CallsAreBehind, Suits
  <1>7. CallsAreBehind'
    BY <1>1, <1>5, <1>6 DEF CallsAreBehind, Suits, Checked, NeedsToken
  <1> QED
    BY <1>2, <1>3, <1>7 DEF SessionInv

-----------------------------------------------------------------------------
(* One lemma for each group of steps. *)

(* Requests arrive: what a call reads at first suits the account. *)
LEMMA Begins ==
  ASSUME SessionInv, NEW h \in Call, Begin(h)
  PROVE  SessionInv'
  <1>1. CASE ReadForLogin(h)
    <2> DEFINE c == [Idle EXCEPT !.op = "login", !.step = "create", !.version = version]
    <2>1. "login" \in Op /\ "create" \in Step /\ version \in Version
      BY SessionsAssumption DEF Op, Step, Version, SessionInv, TypeOK
    <2>2. c \in Handling /\ c.op = "login" /\ c.step = "create" /\ c.version = version
      BY <2>1, IdleCall DEF Handling
    <2> HIDE DEF c
    <2>3. Suits(c)
      BY <2>2, SessionsAssumption
      DEF Suits, Checked, NeedsToken, SessionInv, TypeOK, CallsAreBehind, Version
    <2>4. Becomes(h, c) /\ UNCHANGED <<account, token, login, signed, history>>
      BY <1>1 DEF ReadForLogin, c
    <2> QED
      BY <2>2, <2>3, <2>4, Unchanged
  <1>2. ASSUME NEW t \in Token, NEW op \in {"refresh", "logout"}, NEW step \in {"user", "revoke"},
               Proceed(h, t, op, step)
        PROVE  SessionInv'
    <2> DEFINE c == [Idle EXCEPT !.op = op, !.step = step, !.token = t]
    <2>1. op \in Op /\ step \in Step /\ 1 \in Version
      BY SessionsAssumption DEF Op, Step, Version, SessionInv, TypeOK
    <2>2. c \in Handling /\ c.op = op /\ c.step = step /\ c.version = 1 /\ c.token = t
      BY <2>1, IdleCall DEF Handling
    <2> HIDE DEF c
    <2>3. Suits(c)
      BY <2>2, SessionsAssumption
      DEF Suits, Checked, NeedsToken, SessionInv, TypeOK, CallsAreBehind, Version
    <2>4. /\ Becomes(h, c) /\ contested' \in {contested, contested \cup {t}}
          /\ UNCHANGED <<account, token, login, signed, closed, toucher, revived, removed>>
      BY <1>2 DEF Proceed, c
    <2> QED
      BY <2>2, <2>3, <2>4, CallsAlone DEF SessionInv, TypeOK
  <1>3. ASSUME NEW v \in Version, ReadForRequest(h, v)
        PROVE  SessionInv'
    <2> DEFINE c == [Idle EXCEPT !.op = "request", !.step = "touch", !.version = v]
    <2>1. "request" \in Op /\ "touch" \in Step /\ v \in Version
      BY SessionsAssumption DEF Op, Step, Version, SessionInv, TypeOK
    <2>2. c \in Handling /\ c.op = "request" /\ c.step = "touch" /\ c.version = v
      BY <2>1, IdleCall DEF Handling
    <2> HIDE DEF c
    <2>3. Suits(c)
      BY <1>3, <2>2, SessionsAssumption
      DEF ReadForRequest, Suits, Checked, NeedsToken, SessionInv, TypeOK, CallsAreBehind, Version
    <2>4. Becomes(h, c) /\ UNCHANGED <<account, token, login, signed, history>>
      BY <1>3 DEF ReadForRequest, c
    <2> QED
      BY <2>2, <2>3, <2>4, Unchanged
  <1> QED
    BY <1>1, <1>2, <1>3 DEF Begin, ReadForRefresh, ReadForLogout

(* Calls go on with their next statement. *)
LEMMA Continues ==
  ASSUME SessionInv, NEW h \in Call, Continue(h)
  PROVE  SessionInv'
  <1> DEFINE at(step) == [call[h] EXCEPT !.step = step]
  <1>1. /\ call[h] \in Handling /\ Suits(call[h])
        /\ version \in Version /\ version \in Int
    BY SessionsAssumption DEF SessionInv, TypeOK, CallsAreBehind, Suits, Version
  <1>2. ASSUME NEW step \in Step, step = "create" => call[h].op # "request",
               step = "touch" => call[h].op # "request",
               NeedsToken([call[h] EXCEPT !.step = step]) => call[h].token \in Token
        PROVE  at(step) \in Handling /\ Suits(at(step))
    BY <1>1, <1>2, NextStep DEF Suits, Checked, NeedsToken
  <1>3. Idle \in Handling /\ Suits(Idle)
    BY <1>1, IdleCall DEF Suits, Checked, NeedsToken, Version
  <1>4. CASE ReadUser(h)
    <2> DEFINE c == [call[h] EXCEPT !.step = "revoke", !.version = version]
    <2>1. c \in Handling /\ c.step = "revoke" /\ c.version = version /\ c.token = call[h].token
      BY <1>1 DEF Handling, Step
    <2>2. Suits(c)
      BY <1>1, <1>4, <2>1 DEF ReadUser, Suits, Checked, NeedsToken
    <2>3. /\ Becomes(h, c) \/ Becomes(h, Idle)
          /\ UNCHANGED <<account, token, login, signed, history>>
      BY <1>4 DEF ReadUser
    <2> HIDE DEF c
    <2> QED
      BY <1>3, <2>1, <2>2, <2>3, Unchanged
  <1>5. CASE Revoke(h)
    <2> DEFINE next == IF call[h].op = "refresh" THEN "create" ELSE "bump"
    <2>1. call[h].token \in Token
      BY <1>1, <1>5 DEF Revoke, Suits, NeedsToken
    <2>2. CASE token[call[h].token] = "deleted"
      BY <2>2, <1>3, <1>5, Unchanged DEF Revoke, history
    <2>3. CASE token[call[h].token] # "deleted"
      <3>1. at(next) \in Handling /\ Suits(at(next))
        BY <1>2, <2>1 DEF Step
      <3>2. /\ Becomes(h, at(next))
            /\ token' = [token EXCEPT ![call[h].token] = "revoked"]
            /\ closed' \in {closed, closed \cup {login[call[h].token]}}
            /\ UNCHANGED <<account, login, signed, contested, toucher, revived, removed>>
        BY <1>5, <2>3 DEF Revoke, Advance
      <3>3. /\ token' \in [Token -> {"none", "live", "expired", "revoked", "deleted"}]
            /\ closed' \subseteq Token \cup {None}
        BY <2>1, <3>2 DEF SessionInv, TypeOK
      <3> HIDE DEF at
      <3> QED
        BY <3>1, <3>2, <3>3, CallsAlone DEF SessionInv, TypeOK
    <2> QED
      BY <2>2, <2>3
  <1>6. ASSUME NEW t \in Token, CreateToken(h, t)
        PROVE  SessionInv'
    <2> DEFINE first == IF call[h].op = "login" THEN t ELSE login[call[h].token]
    <2>1. call[h].step = "create"
      BY <1>6 DEF CreateToken
    <2>2. call[h].op = "login" \/ call[h].token \in Token
      BY <1>1, <2>1 DEF Suits, NeedsToken
    <2>3. at("touch") \in Handling /\ Suits(at("touch"))
      <3>1. "touch" \in Step /\ call[h].op # "request"
        BY <1>1, <2>1 DEF Step, Suits
      <3>2. ~NeedsToken(at("touch"))
        BY <1>1, NextStep, <3>1 DEF NeedsToken
      <3> QED
        BY <1>2, <3>1, <3>2
    <2>4. /\ Becomes(h, at("touch"))
          /\ token' = [token EXCEPT ![t] = "live"]
          /\ login' = [login EXCEPT ![t] = first]
          /\ UNCHANGED <<account, signed, history>>
      BY <1>6 DEF CreateToken, Advance
    <2>5. /\ token' \in [Token -> {"none", "live", "expired", "revoked", "deleted"}]
          /\ login' \in [Token -> Token \cup {None}]
      BY <2>2, <2>4 DEF SessionInv, TypeOK
    <2> HIDE DEF at
    <2> QED
      BY <2>3, <2>4, <2>5, CallsAlone DEF SessionInv, TypeOK, history
  <1>7. CASE Touch(h)
    <2>1. call' \in [Call -> Handling] /\ CallsAreBehind'
      BY <1>3, <1>7, OneCall DEF Touch, SessionInv, TypeOK
    <2>2. call[h].version \in Version
      BY <1>1 DEF Handling
    <2>3. /\ activity' = "recent" /\ toucher' = call[h].version
          /\ revived' = (revived \/ call[h].version # version)
          /\ signed' = signed \cup {call[h].version}
          /\ UNCHANGED <<active, version, token, login, contested, closed, removed>>
      BY <1>7 DEF Touch
    <2>4. TypeOK'
      BY <2>1, <2>2, <2>3 DEF SessionInv, TypeOK, Version
    <2>5. ActivityOfSession'
      BY <2>3 DEF ActivityOfSession
    <2> QED
      BY <2>1, <2>4, <2>5 DEF SessionInv
  <1>8. CASE Bump(h)
    <2>1. /\ EndSession /\ Becomes(h, Idle)
          /\ UNCHANGED <<active, token, login, signed, contested, closed, toucher, removed>>
      BY <1>8 DEF Bump
    <2>2. call' \in [Call -> Handling] /\ \A g \in Call : call'[g] = call[g] \/ call'[g] = Idle
      BY <2>1, <1>3 DEF Becomes, SessionInv, TypeOK
    <2> QED
      BY <2>1, <2>2, SessionEnds DEF SessionInv, TypeOK, CallsAreBehind
  <1>9. CASE TouchRequest(h)
    <2>1. CASE call[h].version # version
      BY <2>1, <1>3, <1>9, Unchanged DEF TouchRequest, account, history
    <2>2. CASE call[h].version = version
      <3>1. at("through") \in Handling /\ Suits(at("through"))
        <4>1. "through" \in Step /\ ~NeedsToken(at("through"))
          BY <1>1, NextStep DEF Step, NeedsToken
        <4> QED
          BY <1>2, <4>1
      <3>2. /\ activity' = "recent" /\ toucher' = version /\ Becomes(h, at("through"))
            /\ UNCHANGED <<active, version, token, login, signed, contested, closed,
                           revived, removed>>
        BY <1>9, <2>2 DEF TouchRequest, Advance
      <3> HIDE DEF at
      <3>3. call' \in [Call -> Handling] /\ CallsAreBehind'
        BY <3>1, <3>2, OneCall DEF SessionInv, TypeOK
      <3>4. TypeOK'
        BY <3>2, <3>3 DEF SessionInv, TypeOK, Version
      <3>5. ActivityOfSession'
        BY <3>2 DEF ActivityOfSession
      <3> QED
        BY <3>3, <3>4, <3>5 DEF SessionInv
    <2> QED
      BY <2>1, <2>2
  <1>10. CASE Respond(h)
    BY <1>3, <1>10, Unchanged DEF Respond
  <1> QED
    BY <1>4, <1>5, <1>6, <1>7, <1>8, <1>9, <1>10 DEF Continue

(***************************************************************************)
(* SessionInv is an invariant, for any number of calls and tokens: what    *)
(* last wrote the activity was the present session, unless a login or a    *)
(* refresh went on after a logout.                                         *)
(***************************************************************************)
THEOREM SessionInvariance == Spec => []SessionInv
  <1>1. SessionInv /\ [Next]_vars => SessionInv'
    <2> SUFFICES ASSUME SessionInv, [Next]_vars PROVE SessionInv'
      OBVIOUS
    <2>1. ASSUME NEW h \in Call, Begin(h) \/ Continue(h)
          PROVE  SessionInv'
      BY <2>1, Begins, Continues
    <2>2. ASSUME NEW h \in Call, Fail(h)
          PROVE  SessionInv'
      <3>1. Idle \in Handling /\ Suits(Idle)
        BY IdleCall, SessionsAssumption
        DEF Suits, Checked, NeedsToken, SessionInv, TypeOK, Version
      <3> QED
        BY <2>2, <3>1, Unchanged DEF Fail
    <2>3. CASE DeleteUser
      <3>1. \A h \in Call : call'[h] = call[h]
        BY <2>3 DEF DeleteUser
      <3> QED
        BY <2>3, <3>1, SessionEnds DEF DeleteUser, SessionInv, TypeOK
    <2>4. ASSUME NEW a \in BOOLEAN, NEW d \in {"none", "recent", "old"}, UpdateUser(a, d)
          PROVE  SessionInv'
      <3>1. TypeOK'
        BY <2>4 DEF UpdateUser, SessionInv, TypeOK, Version
      <3>2. ActivityOfSession'
        BY <2>4 DEF UpdateUser, SessionInv, ActivityOfSession
      <3>3. CallsAreBehind'
        BY <2>4 DEF UpdateUser, SessionInv, CallsAreBehind, Suits, Checked, NeedsToken
      <3> QED
        BY <3>1, <3>2, <3>3 DEF SessionInv
    <2>5. ASSUME Cleanup \/ (\E t \in Token : Expires(t)) \/ Inactivity \/ UNCHANGED vars
          PROVE  SessionInv'
      <3>1. /\ token' \in [Token -> {"none", "live", "expired", "revoked", "deleted"}]
            /\ activity' = activity \/ (activity = "recent" /\ activity' = "old")
            /\ UNCHANGED <<active, version, login, signed, call, history>>
        BY <2>5
        DEF Cleanup, Expires, Inactivity, vars, account, history, SessionInv, TypeOK
      <3>2. TypeOK'
        BY <3>1 DEF SessionInv, TypeOK, history, Version, Handling
      <3>3. ActivityOfSession' /\ CallsAreBehind'
        BY <3>1
        DEF SessionInv, ActivityOfSession, CallsAreBehind, Suits, Checked, NeedsToken, history
      <3> QED
        BY <3>2, <3>3 DEF SessionInv
    <2> QED
      BY <2>1, <2>2, <2>3, <2>4, <2>5 DEF Next
  <1> QED
    BY SessionsInit, <1>1, PTL DEF Spec

(* A step that is not "through" leads nobody through. *)
LEMMA StaysOut ==
  ASSUME call \in [Call -> Handling], NEW g \in Call, NEW c, c.step # "through", Becomes(g, c),
         NEW h \in Call, call[h].step # "through"
  PROVE  call'[h].step # "through"
  BY DEF Becomes

(* Of all steps, only the update of the middleware lets a request through. *)
LEMMA OnlyTheUpdate ==
  ASSUME TypeOK, Next, NEW h \in Call, LetsThrough(h)
  PROVE  TouchRequest(h) /\ call[h].version = version
  <1>1. /\ call \in [Call -> Handling]
        /\ call[h].step # "through" /\ call'[h].step = "through"
    BY DEF TypeOK, LetsThrough
  <1>2. \A c : \A g \in Call : Becomes(g, c) => c.step = "through"
    BY <1>1, StaysOut
  <1>3. call' # call
    BY <1>1
  <1>4. \A g \in Call : ~Becomes(g, Idle)
    BY <1>2, IdleCall
  <1>5. ASSUME NEW g \in Call, Begin(g)
        PROVE  FALSE
    <2>1. ASSUME NEW op \in Op, NEW step \in Step \ {"through"}
          PROVE  /\ \A v \in Version : ~Becomes(g, [Idle EXCEPT !.op = op, !.step = step, !.version = v])
                 /\ \A t \in Token : ~Becomes(g, [Idle EXCEPT !.op = op, !.step = step, !.token = t])
      <3>1. ASSUME NEW v \in Version
            PROVE  ~Becomes(g, [Idle EXCEPT !.op = op, !.step = step, !.version = v])
        <4> DEFINE c == [Idle EXCEPT !.op = op, !.step = step, !.version = v]
        <4>1. c.step = step
          BY IdleCall DEF Handling
        <4>2. ~Becomes(g, c)
          <5> HIDE DEF c
          <5> QED
            BY <4>1, <1>2
        <4> QED
          BY <4>2
      <3>2. ASSUME NEW t \in Token
            PROVE  ~Becomes(g, [Idle EXCEPT !.op = op, !.step = step, !.token = t])
        <4> DEFINE c == [Idle EXCEPT !.op = op, !.step = step, !.token = t]
        <4>1. c.step = step
          BY IdleCall DEF Handling
        <4>2. ~Becomes(g, c)
          <5> HIDE DEF c
          <5> QED
            BY <4>1, <1>2
        <4> QED
          BY <4>2
      <3> QED
        BY <3>1, <3>2
    <2> QED
      BY <1>5, <2>1
      DEF Begin, ReadForLogin, ReadForRefresh, ReadForLogout, ReadForRequest, Proceed, Op, Step,
          TypeOK
  <1>6. ASSUME NEW g \in Call, NEW step \in Step \ {"through"}
        PROVE  ~Advance(g, step)
    <2>1. [call[g] EXCEPT !.step = step].step = step
      BY <1>1 DEF Handling
    <2> QED
      BY <1>2, <2>1, <1>6 DEF Advance
  <1>7. ASSUME NEW g \in Call, Continue(g)
        PROVE  TouchRequest(g) /\ call[g].version = version /\ g = h
    <2>1. ~ReadUser(g)
      <3>1. [call[g] EXCEPT !.step = "revoke", !.version = version].step = "revoke"
        BY <1>1 DEF Handling
      <3> QED
        BY <3>1, <1>2, <1>4 DEF ReadUser
    <2>2. ~Revoke(g)
      BY <1>4, <1>6 DEF Revoke, Step
    <2>3. \A t \in Token : ~CreateToken(g, t)
      BY <1>6 DEF CreateToken, Step
    <2>4. ~Touch(g) /\ ~Bump(g) /\ ~Respond(g)
      BY <1>4 DEF Touch, Bump, Respond
    <2>5. TouchRequest(g) /\ call[g].version = version /\ Advance(g, "through")
      BY <1>7, <1>4, <2>1, <2>2, <2>3, <2>4 DEF Continue, TouchRequest
    <2> QED
      BY <2>5, <1>1 DEF Advance, Becomes
  <1> QED
    BY <1>3, <1>4, <1>5, <1>7
    DEF Next, Fail, DeleteUser, UpdateUser, Cleanup, Expires, Inactivity

(***************************************************************************)
(* No request is let through for a session that a logout or a deletion has *)
(* ended: only the middleware's update lets one through, it compares the   *)
(* versions, and no checked request of a deleted account has the present.  *)
(***************************************************************************)
THEOREM EndedSessionsStayEnded == Spec => EndedStaysEnded
  <1> DEFINE Stays == \A h \in Call : LetsThrough(h) => call[h].version = version /\ ~removed
  <1>1. SessionInv /\ [Next]_vars => [Stays]_vars
    <2> SUFFICES ASSUME SessionInv, Next, NEW h \in Call, LetsThrough(h)
                 PROVE  call[h].version = version /\ ~removed
      OBVIOUS
    <2>1. TouchRequest(h) /\ call[h].version = version
      BY OnlyTheUpdate DEF SessionInv
    <2>2. Checked(call[h]) /\ Suits(call[h])
      BY <2>1 DEF TouchRequest, Checked, SessionInv, CallsAreBehind
    <2>3. version \in Int
      BY DEF SessionInv, TypeOK, Version
    <2> QED
      BY <2>1, <2>2, <2>3 DEF Suits
  <1> QED
    BY SessionInvariance, <1>1, PTL DEF Spec, EndedStaysEnded

-----------------------------------------------------------------------------
(***************************************************************************)
(* RotationInv is inductive under SessionInv.  Most steps create no token  *)
(* and begin no rotation: rows stay or lose their life, calls go on with   *)
(* the token they have or end.                                             *)
(***************************************************************************)
Known(c) ==
  /\ c.step = "create" => c.op \in {"login", "refresh"}
  /\ c.step = "user" => c.op = "refresh"
  /\ c.step = "revoke" => c.op \in {"refresh", "logout"}

GoesOn(h) ==
  /\ call'[h].token \in {None, call[h].token} /\ Known(call'[h])
  /\ \A l \in Token : Rotates(h, l)' => Rotates(h, l)
  /\ \A l \in Token : Uncontested(l) /\ Rotates(h, l)' /\ call'[h].step = "create" =>
       LiveIn(l)' = {}

LEMMA Fades ==
  ASSUME TypeOK, RotationInv, UNCHANGED <<login, contested>>,
         \A t \in Token : /\ token'[t] = "none" <=> token[t] = "none"
                          /\ token'[t] = "live" => token[t] = "live",
         closed' \in SUBSET Token, \A l \in closed' : token[l] # "none",
         \A l \in closed' \ closed : Uncontested(l) =>
           LiveIn(l)' = {} /\ \A g \in Call : ~Rotates(g, l)',
         \A g \in Call : GoesOn(g)
  PROVE  RotationInv'
  <1>1. \A l \in Token : LiveIn(l)' \subseteq LiveIn(l)
    BY DEF LiveIn
  <1>2. \A l \in Token : Uncontested(l)' <=> Uncontested(l)
    BY DEF Uncontested
  <1>3. OneLiveToken'
    BY <1>1, <1>2 DEF RotationInv, OneLiveToken
  <1>4. RowsOfLogins'
    <2>1. \A t \in Token : IF token'[t] = "none" THEN login'[t] = None
                           ELSE login'[t] \in Token /\ token'[login'[t]] # "none"
      BY DEF RotationInv, RowsOfLogins
    <2>2. \A g \in Call : call'[g].token # None => token'[call'[g].token] # "none"
      <3> TAKE g \in Call
      <3>1. CASE call'[g].token = call[g].token /\ call[g].token # None
        <4>1. token[call[g].token] # "none" /\ call[g].token \in Token
          BY <3>1 DEF RotationInv, RowsOfLogins, TypeOK, Handling
        <4> QED
          BY <3>1, <4>1
      <3> QED
        BY <3>1 DEF GoesOn
    <2>3. \A t \in contested' \cup closed' : t \in Token /\ token'[t] # "none"
      BY DEF RotationInv, RowsOfLogins
    <2> QED
      BY <2>1, <2>2, <2>3 DEF RowsOfLogins
  <1>5. \A g \in Call : Known(call'[g])
    BY DEF GoesOn
  <1>6. \A t \in Token \ contested' : \A f, g \in Holders(t)' : f = g
    <2>1. \A t \in Token : Holders(t)' \subseteq Holders(t)
      BY SessionsAssumption DEF Holders, GoesOn
    <2> QED
      BY <2>1 DEF RotationInv, RotationsApart
  <1>7. ASSUME NEW l \in Token, Uncontested(l), NEW g \in Call, Rotates(g, l)'
        PROVE  /\ LiveIn(l)' \subseteq {call'[g].token}
               /\ call'[g].step = "create" => LiveIn(l)' = {}
               /\ l \notin closed'
               /\ \A f \in Call : Rotates(f, l)' => f = g
    <2>1. Rotates(g, l) /\ \A f \in Call : Rotates(f, l)' => Rotates(f, l)
      BY <1>7 DEF GoesOn
    <2>2. LiveIn(l) \subseteq {call[g].token} /\ l \notin closed /\ \A f \in Call : Rotates(f, l) => f = g
      BY <1>7, <2>1 DEF RotationInv, RotationsApart
    <2>3. call'[g].token = call[g].token
      BY <1>7, SessionsAssumption DEF Rotates, GoesOn
    <2>4. call'[g].step = "create" => LiveIn(l)' = {}
      BY <1>7 DEF GoesOn
    <2>5. l \notin closed'
      BY <1>7, <2>2
    <2> QED
      BY <1>1, <2>1, <2>2, <2>3, <2>4, <2>5
  <1>8. RotationsApart'
    BY <1>2, <1>5, <1>6, <1>7 DEF RotationsApart, Known
  <1> QED
    BY <1>3, <1>4, <1>8 DEF RotationInv

(* A call that is as it was goes on, and so does one that ends, ... *)
LEMMA SameGoesOn ==
  ASSUME RotationInv, TypeOK, NEW h \in Call, call'[h] = call[h], UNCHANGED login,
         \A t \in Token : token'[t] = "live" => token[t] = "live"
  PROVE  GoesOn(h)
  <1>1. Known(call'[h])
    BY DEF RotationInv, RotationsApart, Known
  <1>2. \A l \in Token : Rotates(h, l)' <=> Rotates(h, l)
    BY DEF Rotates
  <1>3. \A l \in Token : LiveIn(l)' \subseteq LiveIn(l)
    BY DEF LiveIn
  <1>4. \A l \in Token : Uncontested(l) /\ Rotates(h, l) /\ call[h].step = "create" => LiveIn(l) = {}
    BY DEF RotationInv, RotationsApart
  <1> QED
    BY <1>1, <1>2, <1>3, <1>4 DEF GoesOn

(* ... one that has no token, and one that is past the creation. *)
LEMMA OtherGoesOn ==
  ASSUME NEW h \in Call, NEW c, call'[h] = c, c.token \in {None, call[h].token}, Known(c),
         c.op # "refresh" \/ c.step \notin {"user", "revoke", "create"}
  PROVE  GoesOn(h)
  <1>1. \A l \in Token : ~Rotates(h, l)'
    BY DEF Rotates
  <1> QED
    BY <1>1 DEF GoesOn

(* Steps of one call that leave the tokens as they are. *)
LEMMA OneGoesOn ==
  ASSUME TypeOK, RotationInv, NEW h \in Call, NEW c \in Handling, Becomes(h, c),
         UNCHANGED <<token, login, contested, closed>>,
         c.token \in {None, call[h].token}, Known(c),
         \/ c.op # "refresh" \/ c.step \notin {"user", "revoke", "create"}
         \/ c.op = call[h].op /\ c.token = call[h].token /\ call[h].step = "user" /\ c.step = "revoke"
  PROVE  RotationInv'
  <1>1. call'[h] = c /\ \A g \in Call \ {h} : call'[g] = call[g]
    BY DEF Becomes, TypeOK
  <1>2. GoesOn(h)
    <2>1. CASE c.op # "refresh" \/ c.step \notin {"user", "revoke", "create"}
      BY <1>1, <2>1, OtherGoesOn
    <2>2. CASE c.op = call[h].op /\ c.token = call[h].token /\ call[h].step = "user" /\ c.step = "revoke"
      <3>1. \A l \in Token : Rotates(h, l)' => Rotates(h, l)
        BY <1>1, <2>2 DEF Rotates
      <3> QED
        BY <1>1, <2>2, <3>1 DEF GoesOn
    <2> QED
      BY <2>1, <2>2
  <1>3. \A g \in Call : GoesOn(g)
    BY <1>1, <1>2, SameGoesOn
  <1>4. closed' \in SUBSET Token /\ \A l \in closed' : token[l] # "none"
    BY DEF RotationInv, RowsOfLogins
  <1> QED
    BY <1>3, <1>4, Fades

(* No call and no token changes, but perhaps that a token loses its life. *)
LEMMA CallsWait ==
  ASSUME TypeOK, RotationInv, UNCHANGED <<login, contested, closed, call>>,
         \A t \in Token : /\ token'[t] = "none" <=> token[t] = "none"
                          /\ token'[t] = "live" => token[t] = "live"
  PROVE  RotationInv'
  <1>1. \A g \in Call : GoesOn(g)
    BY SameGoesOn
  <1>2. closed' \in SUBSET Token /\ \A l \in closed' : token[l] # "none"
    BY DEF RotationInv, RowsOfLogins
  <1> QED
    BY <1>1, <1>2, Fades

(***************************************************************************)
(* A call that revokes: of a login that nobody contests, a logout that     *)
(* revokes the live row closes it for everyone, and a refresh goes on to   *)
(* create the only live one.                                               *)
(***************************************************************************)
LEMMA RevokeRotates ==
  ASSUME SessionInv, RotationInv, NEW h \in Call, Revoke(h)
  PROVE  RotationInv'
  <1> DEFINE t == call[h].token
  <1>1. /\ TypeOK /\ call[h] \in Handling /\ call[h].step = "revoke" /\ t \in Token
        /\ call[h].op \in {"refresh", "logout"}
    BY DEF Revoke, SessionInv, TypeOK, CallsAreBehind, Suits, NeedsToken, RotationInv, RotationsApart
  <1>2. CASE token[t] = "deleted"
    <2>1. Becomes(h, Idle) /\ UNCHANGED <<token, login, contested, closed>>
      BY <1>2 DEF Revoke
    <2>2. Idle.token = None /\ Known(Idle)
      BY IdleCall DEF Known, Idle
    <2> QED
      BY <1>1, <2>1, <2>2, IdleCall, OneGoesOn
  <1>3. CASE token[t] # "deleted"
    <2> DEFINE step == IF call[h].op = "refresh" THEN "create" ELSE "bump"
               c == [call[h] EXCEPT !.step = step]
    <2>1. /\ token' = [token EXCEPT ![t] = "revoked"] /\ Becomes(h, c)
          /\ closed' = IF call[h].op = "logout" /\ token[t] = "live"
                       THEN closed \cup {login[t]} ELSE closed
          /\ UNCHANGED <<login, contested>>
      BY <1>3 DEF Revoke, Advance
    <2>2. /\ c.token = t /\ c.op = call[h].op /\ c.step = step /\ Known(c)
      BY <1>1, NextStep DEF Known, Step
    <2>3. call'[h] = c /\ \A g \in Call \ {h} : call'[g] = call[g]
      BY <1>1, <2>1 DEF Becomes, TypeOK
    <2> HIDE DEF c
    <2>4. token[t] # "none"
      BY <1>1, SessionsAssumption DEF RotationInv, RowsOfLogins
    <2>5. \A s \in Token : /\ token'[s] = "none" <=> token[s] = "none"
                           /\ token'[s] = "live" <=> token[s] = "live" /\ s # t
      BY <1>1, <2>1, <2>4 DEF TypeOK
    <2>6. \A l \in Token : LiveIn(l)' = LiveIn(l) \ {t}
      BY <2>1, <2>5 DEF LiveIn
    <2>7. GoesOn(h)
      <3>1. \A l \in Token : Rotates(h, l)' => Rotates(h, l)
        BY <1>1, <2>1, <2>2, <2>3 DEF Rotates
      <3>2. \A l \in Token : Uncontested(l) /\ Rotates(h, l) => LiveIn(l) \subseteq {t}
        BY DEF RotationInv, RotationsApart
      <3> QED
        BY <2>2, <2>3, <2>6, <3>1, <3>2 DEF GoesOn
    <2>8. \A g \in Call : GoesOn(g)
      BY <1>1, <2>1, <2>3, <2>5, <2>7, SameGoesOn
    <2>9. closed' \in SUBSET Token /\ \A l \in closed' : token[l] # "none"
      BY <1>1, <2>1, <2>4 DEF RotationInv, RowsOfLogins
    <2>10. ASSUME NEW l \in closed' \ closed, Uncontested(l)
           PROVE  LiveIn(l)' = {} /\ \A g \in Call : ~Rotates(g, l)'
      <3>1. l \in Token /\ l = login[t] /\ token[t] = "live" /\ call[h].op = "logout"
        BY <2>1, <2>9, <2>10
      <3>2. t \in LiveIn(l)
        BY <1>1, <3>1 DEF LiveIn
      <3>3. LiveIn(l) \subseteq {t}
        BY <3>1, <3>2, <2>10 DEF RotationInv, OneLiveToken
      <3>4. ASSUME NEW g \in Call, Rotates(g, l)
            PROVE  FALSE
        <4>1. call[g].token = t
          BY <3>1, <3>2, <3>4, <2>10 DEF RotationInv, RotationsApart
        <4>2. t \notin contested
          BY <3>1, <2>10 DEF Uncontested
        <4>3. g = h
          BY <1>1, <4>1, <4>2 DEF RotationInv, RotationsApart, Holders
        <4> QED
          BY <3>1, <3>4, <4>3 DEF Rotates
      <3>5. \A g \in Call : ~Rotates(g, l)'
        BY <2>8, <3>1, <3>4 DEF GoesOn
      <3> QED
        BY <2>6, <3>1, <3>3, <3>5
    <2> QED
      BY <1>1, <2>1, <2>5, <2>8, <2>9, <2>10, Fades
  <1> QED
    BY <1>2, <1>3

(***************************************************************************)
(* A call that finds the row of a token: the second one to hold the token  *)
(* contests its login; a refresh that is alone with the live row is the    *)
(* only one of its login.                                                  *)
(***************************************************************************)
LEMMA ProceedRotates ==
  ASSUME SessionInv, RotationInv, NEW h \in Call, NEW t \in Token, NEW op, NEW step,
         Proceed(h, t, op, step), token[t] # "none",
         \/ op = "refresh" /\ step = "user" /\ token[t] = "live"
         \/ op = "logout" /\ step = "revoke"
  PROVE  RotationInv'
  <1> DEFINE c == [Idle EXCEPT !.op = op, !.step = step, !.token = t]
  <1>1. /\ TypeOK /\ call[h] = Idle /\ Becomes(h, c)
        /\ contested' = IF Holders(t) # {} THEN contested \cup {t} ELSE contested
        /\ UNCHANGED <<token, login, closed>>
    BY DEF Proceed, SessionInv
  <1>2. c.op = op /\ c.step = step /\ c.token = t
    BY DEF Idle
  <1>3. call'[h] = c /\ \A g \in Call \ {h} : call'[g] = call[g]
    BY <1>1 DEF Becomes, TypeOK
  <1> HIDE DEF c
  <1>4. Idle.token = None
    BY DEF Idle
  <1>5. Holders(t)' = Holders(t) \cup {h} /\ \A s \in Token \ {t} : Holders(s)' = Holders(s)
    BY <1>1, <1>2, <1>3, <1>4, SessionsAssumption DEF Holders
  <1>6. \A l \in Token : Uncontested(l)' => Uncontested(l) /\ (login[t] = l => Holders(t) = {})
    BY <1>1 DEF Uncontested
  <1>7. \A l \in Token : LiveIn(l)' = LiveIn(l)
    BY <1>1 DEF LiveIn
  <1>8. OneLiveToken'
    BY <1>1, <1>6, <1>7 DEF RotationInv, OneLiveToken
  <1>9. RowsOfLogins'
    <2>1. \A g \in Call : call'[g].token # None => token'[call'[g].token] # "none"
      BY <1>1, <1>2, <1>3 DEF RotationInv, RowsOfLogins
    <2>2. \A s \in contested' \cup closed' : s \in Token /\ token'[s] # "none"
      BY <1>1 DEF RotationInv, RowsOfLogins
    <2> QED
      BY <1>1, <2>1, <2>2 DEF RotationInv, RowsOfLogins
  <1>10. \A g \in Call : Known(call'[g])
    BY <1>2, <1>3 DEF RotationInv, RotationsApart, Known
  <1>11. \A s \in Token \ contested' : \A f, g \in Holders(s)' : f = g
    <2> TAKE s \in Token \ contested'
    <2>1. CASE s = t
      BY <1>1, <1>5, <2>1
    <2>2. CASE s # t
      BY <1>1, <1>5, <2>2 DEF RotationInv, RotationsApart
    <2> QED
      BY <2>1, <2>2
  <1>12. ASSUME NEW l \in Token, Uncontested(l)', NEW g \in Call, Rotates(g, l)'
         PROVE  /\ LiveIn(l) \subseteq {call'[g].token}
                /\ call'[g].step = "create" => LiveIn(l) = {}
                /\ l \notin closed
                /\ \A f \in Call : Rotates(f, l)' => f = g
    <2>1. Uncontested(l) /\ (login[t] = l => Holders(t) = {})
      BY <1>6, <1>12
    <2>2. \A f \in Call \ {h} : Rotates(f, l)' <=> Rotates(f, l)
      BY <1>1, <1>3 DEF Rotates
    <2>3. Rotates(h, l)' => token[t] = "live" /\ login[t] = l /\ step = "user"
      BY <1>1, <1>2, <1>3 DEF Rotates
    <2>4. ASSUME NEW f \in Call \ {h}, Rotates(f, l), Rotates(h, l)'
          PROVE  FALSE
      <3>1. t \in LiveIn(l)
        BY <2>3, <2>4 DEF LiveIn
      <3>2. call[f].token = t
        BY <2>1, <2>4, <3>1 DEF RotationInv, RotationsApart
      <3> QED
        BY <2>1, <2>3, <2>4, <3>2 DEF Holders
    <2>5. CASE g = h
      <3>1. t \in LiveIn(l) /\ step = "user"
        BY <1>12, <2>3, <2>5 DEF LiveIn
      <3>2. LiveIn(l) \subseteq {t} /\ l \notin closed
        BY <2>1, <3>1 DEF RotationInv, OneLiveToken
      <3> QED
        BY <1>2, <1>3, <1>12, <2>2, <2>4, <2>5, <3>1, <3>2
    <2>6. CASE g # h
      <3>1. Rotates(g, l) /\ call'[g] = call[g]
        BY <1>3, <1>12, <2>2, <2>6
      <3>2. /\ LiveIn(l) \subseteq {call[g].token} /\ (call[g].step = "create" => LiveIn(l) = {})
            /\ l \notin closed /\ \A f \in Call : Rotates(f, l) => f = g
        BY <2>1, <3>1 DEF RotationInv, RotationsApart
      <3> QED
        BY <2>2, <2>4, <2>6, <3>1, <3>2
    <2> QED
      BY <2>5, <2>6
  <1>13. RotationsApart'
    BY <1>1, <1>7, <1>10, <1>11, <1>12 DEF RotationsApart, Known
  <1> QED
    BY <1>8, <1>9, <1>13 DEF RotationInv

(***************************************************************************)
(* A new row: the first of a login, whose name nothing has used, or the    *)
(* next of the login that this call, and no other, rotates.                *)
(***************************************************************************)
LEMMA CreateRotates ==
  ASSUME SessionInv, RotationInv, NEW h \in Call, NEW t \in Token, CreateToken(h, t)
  PROVE  RotationInv'
  <1> DEFINE k == call[h].token
             c == [call[h] EXCEPT !.step = "touch"]
  <1>1. /\ TypeOK /\ call[h] \in Handling /\ call[h].step = "create" /\ token[t] = "none"
        /\ token' = [token EXCEPT ![t] = "live"]
        /\ login' = [login EXCEPT ![t] = IF call[h].op = "login" THEN t ELSE login[k]]
        /\ Becomes(h, c) /\ UNCHANGED <<contested, closed>>
    BY DEF CreateToken, Advance, SessionInv, TypeOK, history
  <1>2. call[h].op \in {"login", "refresh"} /\ (call[h].op = "refresh" => k \in Token)
    BY <1>1 DEF RotationInv, RotationsApart, SessionInv, CallsAreBehind, Suits, NeedsToken
  <1>3. c.step = "touch" /\ c.token = k /\ c.op = call[h].op
    BY <1>1, NextStep DEF Step
  <1>4. call'[h] = c /\ \A g \in Call \ {h} : call'[g] = call[g]
    BY <1>1 DEF Becomes, TypeOK
  <1> HIDE DEF c
  <1>5. k # t /\ \A g \in Call : call[g].token # t
    BY <1>1, SessionsAssumption DEF RotationInv, RowsOfLogins
  <1>6. /\ login[t] = None /\ t \notin contested /\ t \notin closed
        /\ \A s \in Token : login[s] # t
    BY <1>1, SessionsAssumption DEF RotationInv, RowsOfLogins
  <1>7. PICK first \in Token : first = IF call[h].op = "login" THEN t ELSE login[k]
    <2>1. call[h].op = "refresh" => login[k] \in Token
      BY <1>2, SessionsAssumption DEF RotationInv, RowsOfLogins
    <2> QED
      BY <1>2, <2>1
  <1>8. /\ token'[t] = "live" /\ login'[t] = first
        /\ first = t \/ token[first] # "none"
        /\ \A s \in Token \ {t} : token'[s] = token[s] /\ login'[s] = login[s]
    <2>1. call[h].op = "refresh" => token[login[k]] # "none"
      BY <1>2, SessionsAssumption DEF RotationInv, RowsOfLogins
    <2> QED
      BY <1>1, <1>2, <1>7, <2>1 DEF TypeOK
  <1>9. \A l \in Token : Uncontested(l)' <=> Uncontested(l)
    BY <1>1, <1>6, <1>8 DEF Uncontested, TypeOK
  <1>10. /\ \A l \in Token \ {first} : LiveIn(l)' = LiveIn(l)
         /\ LiveIn(first)' = LiveIn(first) \cup {t}
    BY <1>1, <1>7, <1>8 DEF LiveIn
  <1>11. /\ \A l \in Token : ~Rotates(h, l)'
         /\ \A g \in Call \ {h} : \A l \in Token : Rotates(g, l)' <=> Rotates(g, l)
    BY <1>3, <1>4, <1>5, <1>8 DEF Rotates
  <1>12. Uncontested(first) =>
           LiveIn(first) = {} /\ first \notin closed /\ \A g \in Call \ {h} : ~Rotates(g, first)
    <2>1. CASE call[h].op = "login"
      BY <1>6, <1>7, <2>1 DEF LiveIn, Rotates
    <2>2. CASE call[h].op = "refresh"
      <3>1. Rotates(h, first)
        BY <1>1, <1>2, <1>7, <2>2 DEF Rotates
      <3> QED
        BY <1>1, <1>7, <3>1 DEF RotationInv, RotationsApart
    <2> QED
      BY <1>2, <2>1, <2>2
  <1>13. OneLiveToken'
    <2> SUFFICES ASSUME NEW l \in Token, Uncontested(l)
                 PROVE  /\ \A s, u \in LiveIn(l)' : s = u
                        /\ l \in closed => LiveIn(l)' = {}
      BY <1>1, <1>9 DEF OneLiveToken
    <2>1. CASE l = first
      BY <1>10, <1>12, <2>1
    <2>2. CASE l # first
      BY <1>10, <2>2 DEF RotationInv, OneLiveToken
    <2> QED
      BY <2>1, <2>2
  <1>14. RowsOfLogins'
    <2>1. \A s \in Token : IF token'[s] = "none" THEN login'[s] = None
                           ELSE login'[s] \in Token /\ token'[login'[s]] # "none"
      <3> TAKE s \in Token
      <3>1. CASE s = t
        BY <1>7, <1>8, <3>1
      <3>2. CASE s # t
        <4>1. IF token[s] = "none" THEN login[s] = None
              ELSE login[s] \in Token /\ token[login[s]] # "none"
          BY DEF RotationInv, RowsOfLogins
        <4> QED
          BY <1>6, <1>8, <3>2, <4>1
      <3> QED
        BY <3>1, <3>2
    <2>2. \A g \in Call : call'[g].token # None => token'[call'[g].token] # "none"
      <3> TAKE g \in Call
      <3>1. call'[g].token = call[g].token
        BY <1>3, <1>4
      <3>2. call[g].token # None => call[g].token \in Token /\ token[call[g].token] # "none"
        BY <1>1 DEF RotationInv, RowsOfLogins, TypeOK, Handling
      <3> QED
        BY <1>5, <1>8, <3>1, <3>2
    <2>3. \A s \in contested' \cup closed' : s \in Token /\ token'[s] # "none"
      BY <1>1, <1>6, <1>8 DEF RotationInv, RowsOfLogins
    <2> QED
      BY <2>1, <2>2, <2>3 DEF RowsOfLogins
  <1>15. \A g \in Call : Known(call'[g])
    BY <1>3, <1>4 DEF RotationInv, RotationsApart, Known
  <1>16. \A s \in Token \ contested' : \A f, g \in Holders(s)' : f = g
    <2>1. \A s \in Token : Holders(s)' = Holders(s)
      BY <1>3, <1>4 DEF Holders
    <2> QED
      BY <1>1, <2>1 DEF RotationInv, RotationsApart
  <1>17. ASSUME NEW l \in Token, Uncontested(l), NEW g \in Call, Rotates(g, l)'
         PROVE  /\ LiveIn(l)' \subseteq {call'[g].token}
                /\ call'[g].step = "create" => LiveIn(l)' = {}
                /\ l \notin closed
                /\ \A f \in Call : Rotates(f, l)' => f = g
    <2>1. g # h /\ Rotates(g, l) /\ call'[g] = call[g]
      BY <1>4, <1>11, <1>17
    <2>2. l # first
      BY <1>12, <1>17, <2>1
    <2>3. /\ LiveIn(l) \subseteq {call[g].token} /\ (call[g].step = "create" => LiveIn(l) = {})
          /\ l \notin closed /\ \A f \in Call : Rotates(f, l) => f = g
      BY <1>17, <2>1 DEF RotationInv, RotationsApart
    <2> QED
      BY <1>10, <1>11, <2>1, <2>2, <2>3
  <1>18. RotationsApart'
    BY <1>1, <1>9, <1>15, <1>16, <1>17 DEF RotationsApart, Known
  <1> QED
    BY <1>13, <1>14, <1>18 DEF RotationInv

-----------------------------------------------------------------------------
(* The other steps of a call. *)
LEMMA BeginRotates ==
  ASSUME SessionInv, RotationInv, NEW h \in Call, Begin(h)
  PROVE  RotationInv'
  <1>1. TypeOK /\ version \in Version
    BY DEF SessionInv, TypeOK
  <1>2. CASE ReadForLogin(h)
    <2> DEFINE c == [Idle EXCEPT !.op = "login", !.step = "create", !.version = version]
    <2>1. c \in Handling /\ c.token = None /\ c.op = "login" /\ c.step = "create"
      BY <1>1, IdleCall DEF Handling, Idle, Op, Step
    <2>2. Becomes(h, c) /\ UNCHANGED <<token, login, contested, closed>>
      BY <1>2 DEF ReadForLogin, history
    <2> HIDE DEF c
    <2> QED
      BY <1>1, <2>1, <2>2, OneGoesOn DEF Known
  <1>3. ASSUME NEW v \in Version, ReadForRequest(h, v)
        PROVE  RotationInv'
    <2> DEFINE c == [Idle EXCEPT !.op = "request", !.step = "touch", !.version = v]
    <2>1. c \in Handling /\ c.token = None /\ c.op = "request" /\ c.step = "touch"
      BY IdleCall DEF Handling, Idle, Op, Step
    <2>2. Becomes(h, c) /\ UNCHANGED <<token, login, contested, closed>>
      BY <1>3 DEF ReadForRequest, history
    <2> HIDE DEF c
    <2> QED
      BY <1>1, <2>1, <2>2, OneGoesOn DEF Known
  <1>4. ASSUME NEW t \in Token, ReadForRefresh(h, t) \/ ReadForLogout(h, t)
        PROVE  RotationInv'
    BY <1>4, ProceedRotates DEF ReadForRefresh, ReadForLogout
  <1> QED
    BY <1>2, <1>3, <1>4 DEF Begin

LEMMA ContinueRotates ==
  ASSUME SessionInv, RotationInv, NEW h \in Call, Continue(h) \/ Fail(h)
  PROVE  RotationInv'
  <1>1. TypeOK /\ version \in Version /\ call[h] \in Handling
    BY DEF SessionInv, TypeOK
  <1>2. Idle \in Handling /\ Idle.token = None /\ Idle.op = "idle" /\ Known(Idle)
    BY IdleCall DEF Idle, Known
  <1>3. ASSUME Becomes(h, Idle), UNCHANGED <<token, login, contested, closed>>
        PROVE  RotationInv'
    BY <1>1, <1>2, <1>3, OneGoesOn
  <1>4. CASE ReadUser(h)
    <2> DEFINE c == [call[h] EXCEPT !.step = "revoke", !.version = version]
    <2>1. call[h].step = "user" /\ call[h].op = "refresh"
      BY <1>4 DEF ReadUser, RotationInv, RotationsApart
    <2>2. c \in Handling /\ c.step = "revoke" /\ c.op = call[h].op /\ c.token = call[h].token
      BY <1>1 DEF Handling, Step
    <2>3. (Becomes(h, c) \/ Becomes(h, Idle)) /\ UNCHANGED <<token, login, contested, closed>>
      BY <1>4 DEF ReadUser, history
    <2> HIDE DEF c
    <2>4. Known(c)
      BY <2>1, <2>2 DEF Known
    <2> QED
      BY <1>1, <1>3, <2>1, <2>2, <2>3, <2>4, OneGoesOn
  <1>5. CASE Touch(h) \/ Bump(h) \/ Respond(h) \/ Fail(h)
    <2>1. Becomes(h, Idle) /\ UNCHANGED <<token, login, contested, closed>>
      BY <1>5 DEF Touch, Bump, Respond, Fail, history
    <2> QED
      BY <1>3, <2>1
  <1>6. CASE TouchRequest(h)
    <2> DEFINE c == [call[h] EXCEPT !.step = "through"]
    <2>1. c \in Handling /\ c.step = "through" /\ c.token = call[h].token
      BY <1>1, NextStep DEF Step
    <2>2. (Becomes(h, c) \/ Becomes(h, Idle)) /\ UNCHANGED <<token, login, contested, closed>>
      BY <1>6 DEF TouchRequest, Advance
    <2> HIDE DEF c
    <2>3. Known(c)
      BY <2>1 DEF Known
    <2> QED
      BY <1>1, <1>3, <2>1, <2>2, <2>3, OneGoesOn
  <1> QED
    BY <1>4, <1>5, <1>6, RevokeRotates, CreateRotates DEF Continue

(***************************************************************************)
(* A login whose tokens never were in the hands of two calls at once never *)
(* has two live refresh tokens, and none after a logout has revoked the    *)
(* live one, although refresh and logout revoke by id and look at nothing  *)
(* (auth.service.ts): for any number of calls, tokens, crashes, clean-ups. *)
(***************************************************************************)
THEOREM RotationsStayApart == Spec => []RotationInv
  <1>1. Init => RotationInv
    <2> SUFFICES ASSUME Init PROVE RotationInv
      OBVIOUS
    <2>1. \A h \in Call : call[h].token = None /\ call[h].op = "idle" /\ call[h].step = "idle"
      BY DEF Init, Idle
    <2>2. RowsOfLogins
      BY <2>1 DEF Init, RowsOfLogins
    <2>3. RotationsApart
      BY <2>1, SessionsAssumption DEF Init, RotationsApart, Holders, Rotates
    <2>4. OneLiveToken
      BY DEF Init, OneLiveToken, LiveIn
    <2> QED
      BY <2>2, <2>3, <2>4 DEF RotationInv
  <1>2. SessionInv /\ RotationInv /\ [Next]_vars => RotationInv'
    <2> SUFFICES ASSUME SessionInv, RotationInv, [Next]_vars
                 PROVE  RotationInv'
      OBVIOUS
    <2>1. TypeOK
      BY DEF SessionInv
    <2>2. ASSUME NEW h \in Call, Begin(h) \/ Continue(h) \/ Fail(h)
          PROVE  RotationInv'
      BY <2>2, BeginRotates, ContinueRotates
    <2>3. ASSUME \/ DeleteUser \/ Inactivity \/ UNCHANGED vars
                 \/ \E a \in BOOLEAN, d \in {"none", "recent", "old"} : UpdateUser(a, d)
          PROVE  RotationInv'
      <3>1. UNCHANGED <<token, login, contested, closed, call>>
        BY <2>3 DEF DeleteUser, Inactivity, UpdateUser, vars, history
      <3> QED
        BY <2>1, <3>1, CallsWait
    <2>4. ASSUME Cleanup \/ \E t \in Token : Expires(t)
          PROVE  RotationInv'
      <3>1. UNCHANGED <<login, contested, closed, call>>
        BY <2>4 DEF Cleanup, Expires, history
      <3>2. \A t \in Token : /\ token'[t] = "none" <=> token[t] = "none"
                             /\ token'[t] = "live" => token[t] = "live"
        BY <2>1, <2>4 DEF Cleanup, Expires, TypeOK
      <3> QED
        BY <2>1, <3>1, <3>2, CallsWait
    <2> QED
      BY <2>2, <2>3, <2>4 DEF Next
  <1> QED
    BY SessionInvariance, <1>1, <1>2, PTL DEF Spec

-----------------------------------------------------------------------------
(* The daily jobs, for any camps, people, resources and overlapping runs.   *)
(* Of some subsets of a finite set, one has no other below it. *)
LEMMA LeastSubset ==
  ASSUME NEW S, IsFiniteSet(S), NEW W \in SUBSET (SUBSET S), W # {}
  PROVE  \E T \in W : \A u \in W : u \subseteq T => u = T
  <1>1. IsWellFoundedOn(StrictSubsetOrdering(S), FiniteSubsetsOf(S))
    BY FS_StrictSubsetOrderingWellFounded
  <1>2. \A T \in SUBSET S : IsFiniteSet(T)
    BY FS_Subset
  <1>3. W \subseteq FiniteSubsetsOf(S)
    BY <1>2 DEF FiniteSubsetsOf
  <1>4. PICK T \in W : \A u \in W : ~(<<u, T>> \in StrictSubsetOrdering(S))
    BY <1>1, <1>3, WFMin, Zenon
  <1>5. ASSUME NEW u \in W, u \subseteq T, u # T
        PROVE  <<u, T>> \in StrictSubsetOrdering(S)
    <2>1. <<u, T>> \in (SUBSET S) \X (SUBSET S)
      OBVIOUS
    <2>2. <<u, T>>[1] = u /\ <<u, T>>[2] = T
      OBVIOUS
    <2> QED
      BY <2>1, <2>2, <1>5, Zenon DEF StrictSubsetOrdering
  <1>6. ASSUME NEW u \in W, u \subseteq T
        PROVE  u = T
    BY <1>4, <1>5, <1>6
  <1> QED
    BY <1>6

-----------------------------------------------------------------------------
(* g sums f over each subset of S, an element at a time. *)
Some(s) == CHOOSE x \in s : TRUE

Sums(f, S, g) ==
  g = [s \in SUBSET S |-> IF s = {} THEN 0 ELSE f[Some(s)] + g[s \ {Some(s)}]]

LEMMA SumIsSums == \A f, S : SumFunctionOnSet(f, S) = (CHOOSE g : Sums(f, S, g))[S]
  BY DEF SumFunctionOnSet, FoldFunctionOnSet, MapThenFoldSet, Sums, Some

LEMMA SomeIn == \A s : s # {} => Some(s) \in s
  BY DEF Some

(* What is summed over a subset does not depend on the rest. *)
LEMMA SumsAgree ==
  ASSUME NEW f, NEW S, NEW T, NEW U, IsFiniteSet(U), U \subseteq S, U \subseteq T,
         NEW g, NEW h, Sums(f, S, g), Sums(f, T, h)
  PROVE  g[U] = h[U]
  <1> SUFFICES ASSUME g[U] # h[U] PROVE FALSE
    OBVIOUS
  <1> DEFINE W == {s \in SUBSET U : g[s] # h[s]}
  <1>1. W \in SUBSET (SUBSET U) /\ W # {}
    OBVIOUS
  <1>2. PICK s \in W : \A u \in W : u \subseteq s => u = s
    <2> HIDE DEF W
    <2> QED
      BY <1>1, LeastSubset
  <1>3. /\ g[s] = IF s = {} THEN 0 ELSE f[Some(s)] + g[s \ {Some(s)}]
        /\ h[s] = IF s = {} THEN 0 ELSE f[Some(s)] + h[s \ {Some(s)}]
    BY DEF Sums
  <1>4. s # {} => Some(s) \in s
    BY SomeIn
  <1>5. s # {} => s \ {Some(s)} \notin W
    BY <1>2, <1>4
  <1> QED
    BY <1>2, <1>3, <1>5

LEMMA SumsExist ==
  ASSUME NEW f, NEW S, IsFiniteSet(S)
  PROVE  \E g : Sums(f, S, g)
  <1> SUFFICES ASSUME ~\E g : Sums(f, S, g) PROVE FALSE
    OBVIOUS
  <1> DEFINE W == {s \in SUBSET S : ~\E g : Sums(f, s, g)}
  <1>1. W \in SUBSET (SUBSET S) /\ W # {}
    OBVIOUS
  <1>2. PICK T \in W : \A u \in W : u \subseteq T => u = T
    <2> HIDE DEF W
    <2> QED
      BY <1>1, LeastSubset
  <1> DEFINE H(u) == CHOOSE g : Sums(f, u, g)
             G == [s \in SUBSET T |->
                     IF s = {} THEN 0 ELSE f[Some(s)] + H(s \ {Some(s)})[s \ {Some(s)}]]
  <1>3. ASSUME NEW u \in SUBSET T, u # T
        PROVE  Sums(f, u, H(u))
    <2>1. \E g : Sums(f, u, g)
      BY <1>2, <1>3
    <2> QED
      BY <2>1
  <1>4. ASSUME NEW s \in SUBSET T, s # {}
        PROVE  H(s \ {Some(s)})[s \ {Some(s)}] = G[s \ {Some(s)}]
    <2> DEFINE u == s \ {Some(s)}
               v == u \ {Some(u)}
    <2>1. u \in SUBSET T /\ u # T
      BY <1>4, SomeIn
    <2>2. Sums(f, u, H(u))
      BY <1>3, <2>1
    <2>3. H(u)[u] = IF u = {} THEN 0 ELSE f[Some(u)] + H(u)[v]
      <3> HIDE DEF H, u
      <3>1. u \in SUBSET u
        OBVIOUS
      <3> QED
        BY <2>2, <3>1 DEF Sums
    <2>4. CASE u = {}
      BY <2>1, <2>3, <2>4
    <2>5. CASE u # {}
      <3>1. v \in SUBSET T /\ v # T /\ v \subseteq u
        BY <2>1, <2>5, SomeIn
      <3>2. Sums(f, v, H(v))
        BY <1>3, <3>1
      <3>3. IsFiniteSet(v)
        BY <3>1, FS_Subset
      <3>4. H(v)[v] = H(u)[v]
        <4> HIDE DEF H, u, v
        <4> QED
          BY <2>2, <3>1, <3>2, <3>3, SumsAgree
      <3>5. G[u] = f[Some(u)] + H(v)[v]
        BY <2>1, <2>5
      <3> QED
        BY <2>3, <2>5, <3>4, <3>5
    <2> QED
      BY <2>4, <2>5
  <1>5. Sums(f, T, G)
    <2>1. \A s \in SUBSET T :
            G[s] = IF s = {} THEN 0 ELSE f[Some(s)] + G[s \ {Some(s)}]
      <3> SUFFICES ASSUME NEW s \in SUBSET T
                   PROVE  G[s] = IF s = {} THEN 0 ELSE f[Some(s)] + G[s \ {Some(s)}]
        OBVIOUS
      <3>1. G[s] = IF s = {} THEN 0 ELSE f[Some(s)] + H(s \ {Some(s)})[s \ {Some(s)}]
        OBVIOUS
      <3> HIDE DEF G, H
      <3> QED
        BY <1>4, <3>1
    <2>2. G = [s \in SUBSET T |-> G[s]]
      OBVIOUS
    <2> HIDE DEF G
    <2> QED
      BY <2>1, <2>2 DEF Sums
  <1>6. ~\E g : Sums(f, T, g)
    BY <1>2
  <1> HIDE DEF G
  <1> QED
    BY <1>5, <1>6

(* A sum over a set that is not empty is an element and the sum of the rest. *)
LEMMA SumStep ==
  ASSUME NEW f, NEW S, IsFiniteSet(S)
  PROVE  SumFunctionOnSet(f, S)
           = IF S = {} THEN 0 ELSE f[Some(S)] + SumFunctionOnSet(f, S \ {Some(S)})
  <1> DEFINE H(u) == CHOOSE g : Sums(f, u, g)
  <1>1. Sums(f, S, H(S))
    BY SumsExist
  <1>2. H(S)[S] = IF S = {} THEN 0 ELSE f[Some(S)] + H(S)[S \ {Some(S)}]
    <2> HIDE DEF H
    <2>1. S \in SUBSET S
      OBVIOUS
    <2> QED
      BY <1>1, <2>1 DEF Sums
  <1>3. SumFunctionOnSet(f, S) = H(S)[S]
    BY SumIsSums
  <1> DEFINE u == S \ {Some(S)}
  <1>4. IsFiniteSet(u)
    BY FS_Subset
  <1>5. Sums(f, u, H(u))
    BY <1>4, SumsExist
  <1>6. H(u)[u] = H(S)[u]
    <2> HIDE DEF H
    <2> QED
      BY <1>1, <1>4, <1>5, SumsAgree
  <1>7. SumFunctionOnSet(f, u) = H(u)[u]
    BY SumIsSums
  <1> QED
    BY <1>2, <1>3, <1>6, <1>7

(* A sum of integers is an integer. *)
LEMMA SumTyped ==
  ASSUME NEW S, IsFiniteSet(S), NEW f, \A x \in S : f[x] \in Int
  PROVE  SumFunctionOnSet(f, S) \in Int
  <1> SUFFICES ASSUME SumFunctionOnSet(f, S) \notin Int PROVE FALSE
    OBVIOUS
  <1> DEFINE W == {s \in SUBSET S : SumFunctionOnSet(f, s) \notin Int}
  <1>1. W \in SUBSET (SUBSET S) /\ W # {}
    OBVIOUS
  <1>2. PICK s \in W : \A u \in W : u \subseteq s => u = s
    <2> HIDE DEF W
    <2> QED
      BY <1>1, LeastSubset
  <1>3. IsFiniteSet(s)
    BY FS_Subset
  <1>4. SumFunctionOnSet(f, s)
          = IF s = {} THEN 0 ELSE f[Some(s)] + SumFunctionOnSet(f, s \ {Some(s)})
    BY <1>3, SumStep
  <1>5. s # {} => Some(s) \in s
    BY SomeIn
  <1>6. s # {} => s \ {Some(s)} \notin W
    BY <1>2, <1>5
  <1> QED
    BY <1>4, <1>5, <1>6

(* Two sums over the same set differ where the functions do. *)
LEMMA SumDiffers ==
  ASSUME NEW S, IsFiniteSet(S), NEW f, NEW g, NEW x, NEW d \in Int,
         \A y \in S : f[y] \in Int,
         \A y \in S : g[y] = IF y = x THEN f[y] + d ELSE f[y]
  PROVE  SumFunctionOnSet(g, S)
           = IF x \in S THEN SumFunctionOnSet(f, S) + d ELSE SumFunctionOnSet(f, S)
  <1> DEFINE Right(s) == SumFunctionOnSet(g, s)
                           = IF x \in s THEN SumFunctionOnSet(f, s) + d
                             ELSE SumFunctionOnSet(f, s)
             W == {s \in SUBSET S : ~Right(s)}
  <1> SUFFICES ASSUME ~Right(S) PROVE FALSE
    OBVIOUS
  <1>1. W \in SUBSET (SUBSET S) /\ W # {}
    OBVIOUS
  <1>2. PICK s \in W : \A u \in W : u \subseteq s => u = s
    <2> HIDE DEF W
    <2> QED
      BY <1>1, LeastSubset
  <1> DEFINE y == Some(s)
             u == s \ {y}
  <1>3. IsFiniteSet(s) /\ IsFiniteSet(u)
    BY FS_Subset
  <1>4. /\ SumFunctionOnSet(f, s) = IF s = {} THEN 0 ELSE f[y] + SumFunctionOnSet(f, u)
        /\ SumFunctionOnSet(g, s) = IF s = {} THEN 0 ELSE g[y] + SumFunctionOnSet(g, u)
    BY <1>3, SumStep
  <1>5. s # {}
    BY <1>4
  <1>6. y \in s
    BY <1>5, SomeIn
  <1>7. Right(u)
    BY <1>2, <1>6
  <1>8. SumFunctionOnSet(f, u) \in Int
    BY <1>3, SumTyped
  <1>9. f[y] \in Int /\ g[y] = IF y = x THEN f[y] + d ELSE f[y]
    BY <1>6
  <1>10. ~Right(s)
    OBVIOUS
  <1>11. x \in u <=> x \in s /\ x # y
    OBVIOUS
  <1> HIDE DEF y, u, W
  <1> QED
    BY <1>4, <1>5, <1>6, <1>7, <1>8, <1>9, <1>10, <1>11

(* A function that is nought but for one element sums up to that. *)
LEMMA SumOfOne ==
  ASSUME NEW S, IsFiniteSet(S), NEW g, NEW x \in S, NEW d \in Int,
         \A y \in S : g[y] = IF y = x THEN d ELSE 0
  PROVE  SumFunctionOnSet(g, S) = d
  <1> DEFINE f == [y \in S |-> 0]
             W == {s \in SUBSET S : SumFunctionOnSet(f, s) # 0}
  <1>1. SumFunctionOnSet(f, S) = 0
    <2> SUFFICES ASSUME SumFunctionOnSet(f, S) # 0 PROVE FALSE
      OBVIOUS
    <2>1. W \in SUBSET (SUBSET S) /\ W # {}
      OBVIOUS
    <2>2. PICK s \in W : \A u \in W : u \subseteq s => u = s
      <3> HIDE DEF W
      <3> QED
        BY <2>1, LeastSubset
    <2>3. IsFiniteSet(s)
      BY FS_Subset
    <2>4. SumFunctionOnSet(f, s)
            = IF s = {} THEN 0 ELSE f[Some(s)] + SumFunctionOnSet(f, s \ {Some(s)})
      <3> HIDE DEF f
      <3> QED
        BY <2>3, SumStep
    <2>5. s # {} => Some(s) \in s
      BY SomeIn
    <2>6. s # {} => f[Some(s)] = 0
      BY <2>5
    <2>7. s # {} => s \ {Some(s)} \notin W
      BY <2>2, <2>5
    <2>8. SumFunctionOnSet(f, s) # 0
      OBVIOUS
    <2>9. s # {} => SumFunctionOnSet(f, s \ {Some(s)}) = 0
      BY <2>5, <2>7
    <2> HIDE DEF f, W
    <2> QED
      BY <2>4, <2>6, <2>8, <2>9
  <1>2. \A y \in S : f[y] \in Int /\ g[y] = IF y = x THEN f[y] + d ELSE f[y]
    OBVIOUS
  <1> HIDE DEF f
  <1>3. SumFunctionOnSet(g, S)
          = IF x \in S THEN SumFunctionOnSet(f, S) + d ELSE SumFunctionOnSet(f, S)
    BY <1>2, SumDiffers
  <1> QED
    BY <1>1, <1>3

-----------------------------------------------------------------------------
(* A set of naturals that is not empty has a smallest element. *)
LEMMA LeastNumber ==
  ASSUME NEW S \in SUBSET Nat, S # {}
  PROVE  \E n \in S : \A m \in S : n <= m
  <1>1. IsWellFoundedOn(OpToRel(<, Nat), Nat)
    BY NatLessThanWellFounded
  <1>2. PICK n \in S : \A m \in S : ~(<<m, n>> \in OpToRel(<, Nat))
    BY <1>1, WFMin, Zenon
  <1>3. ASSUME NEW m \in S
        PROVE  n <= m
    <2>1. m \in Nat /\ n \in Nat
      OBVIOUS
    <2>2. ASSUME m < n
          PROVE  <<m, n>> \in OpToRel(<, Nat)
      <3>1. <<m, n>> \in Nat \X Nat /\ <<m, n>>[1] < <<m, n>>[2]
        BY <2>1, <2>2
      <3> QED
        BY <3>1, Zenon DEF OpToRel
    <2>3. ~(m < n)
      BY <1>2, <2>2, Zenon
    <2> QED
      BY <2>1, <2>3
  <1> QED
    BY <1>3

(* The number of those called up to somebody. *)
Rank(p, people) == Cardinality({q \in people : q <= p})

LEMMA RankTyped ==
  ASSUME NEW people \in SUBSET Nat, IsFiniteSet(people), NEW p \in Nat
  PROVE  /\ IsFiniteSet({q \in people : q <= p})
         /\ Rank(p, people) \in 0 .. Cardinality(people)
  <1>1. {q \in people : q <= p} \in SUBSET people
    OBVIOUS
  <1>2. /\ IsFiniteSet({q \in people : q <= p})
        /\ Cardinality({q \in people : q <= p}) <= Cardinality(people)
    BY <1>1, FS_Subset
  <1>3. Cardinality({q \in people : q <= p}) \in Nat /\ Cardinality(people) \in Nat
    BY <1>2, FS_CardinalityType
  <1> QED
    BY <1>2, <1>3 DEF Rank

(* Who is called later has a higher rank. *)
LEMMA RankGrows ==
  ASSUME NEW people \in SUBSET Nat, IsFiniteSet(people),
         NEW p \in people, NEW q \in people, p < q
  PROVE  Rank(p, people) < Rank(q, people)
  <1> DEFINE P == {m \in people : m <= p}
             Q == {m \in people : m <= q}
  <1>1. IsFiniteSet(P) /\ IsFiniteSet(Q)
    BY RankTyped
  <1>2. P \subseteq Q /\ q \in Q /\ q \notin P
    <2>1. \A m \in people : m \in Nat
      OBVIOUS
    <2>2. \A m \in people : m <= p => m <= q
      BY <2>1
    <2>3. q <= q /\ ~(q <= p)
      BY <2>1
    <2> QED
      BY <2>2, <2>3
  <1> HIDE DEF P, Q
  <1>3. Cardinality(P) <= Cardinality(Q) /\ (Cardinality(P) = Cardinality(Q) => P = Q)
    BY <1>1, <1>2, FS_Subset
  <1>4. Cardinality(P) \in Nat /\ Cardinality(Q) \in Nat
    BY <1>1, FS_CardinalityType
  <1>5. Cardinality(P) < Cardinality(Q)
    BY <1>2, <1>3, <1>4
  <1> USE DEF P, Q
  <1> QED
    BY <1>5 DEF Rank

(* After n recipients, the next one is the first of the others. *)
LEMMA NextRecipient ==
  ASSUME NEW people \in SUBSET Nat, IsFiniteSet(people), NEW n \in Nat, n < Cardinality(people),
         Cardinality(Recipients(n, people)) = n
  PROVE  Cardinality(Recipients(n + 1, people)) = n + 1
  <1> DEFINE R == Recipients(n, people)
             rest == people \ R
  <1>1. R \subseteq people /\ \A p \in people : p \in R <=> Rank(p, people) <= n
    BY DEF Recipients, Rank
  <1>2. IsFiniteSet(R)
    BY <1>1, FS_Subset
  <1>3. rest # {} /\ rest \in SUBSET Nat
    <2>1. R # people
      OBVIOUS
    <2> HIDE DEF R
    <2> QED
      BY <1>1, <2>1
  <1>4. PICK m \in rest : \A q \in rest : m <= q
    <2> HIDE DEF rest
    <2> QED
      BY <1>3, LeastNumber
  <1>5. \A p \in people : p \in Nat /\ Rank(p, people) \in Nat
    <2>1. \A p \in people : p \in Nat
      OBVIOUS
    <2>2. \A p \in people : Rank(p, people) \in 0 .. Cardinality(people)
      BY <2>1, RankTyped
    <2> QED
      BY <2>2, <2>1, FS_CardinalityType
  <1>6. ASSUME NEW p \in R
        PROVE  p < m
    <2>1. p \in people /\ p # m /\ m \in people /\ p \in Nat /\ m \in Nat
      BY <1>1
    <2>2. ~(m < p)
      <3> SUFFICES ASSUME m < p PROVE FALSE
        OBVIOUS
      <3>1. Rank(m, people) < Rank(p, people)
        BY <2>1, RankGrows
      <3>2. Rank(p, people) <= n /\ ~(Rank(m, people) <= n)
        BY <1>1, <2>1
      <3> QED
        BY <3>1, <3>2, <1>5, <2>1
    <2> QED
      BY <2>1, <2>2
  <1>7. {q \in people : q <= m} = R \cup {m}
    <2>1. ASSUME NEW q \in people
          PROVE  q <= m <=> q \in R \cup {m}
      <3>1. q \in Nat /\ m \in Nat
        OBVIOUS
      <3>2. CASE q \in R
        BY <1>6, <3>1, <3>2
      <3>3. CASE q \notin R
        BY <1>4, <3>1, <3>3
      <3> QED
        BY <3>2, <3>3
    <2> HIDE DEF R
    <2> QED
      BY <1>1, <2>1
  <1>8. Cardinality(R \cup {m}) = n + 1
    BY <1>2, FS_AddElement
  <1>9. Rank(m, people) = n + 1
    BY <1>7, <1>8 DEF Rank
  <1>10. ASSUME NEW p \in people
         PROVE  Rank(p, people) <= n + 1 <=> p \in R \cup {m}
    <2>1. CASE p \in R
      BY <1>1, <1>5, <2>1
    <2>2. CASE p = m
      BY <1>9, <2>2
    <2>3. CASE p \notin R /\ p # m
      <3>1. m < p
        BY <1>4, <2>3
      <3>2. Rank(m, people) < Rank(p, people)
        BY <3>1, RankGrows
      <3> QED
        BY <3>2, <1>5, <1>9, <2>3
    <2> QED
      BY <2>1, <2>2, <2>3
  <1>11. Recipients(n + 1, people) = R \cup {m}
    <2>1. Recipients(n + 1, people) = {p \in people : Rank(p, people) <= n + 1}
      BY DEF Recipients, Rank
    <2> HIDE DEF R
    <2> QED
      BY <1>1, <1>10, <2>1
  <1> QED
    BY <1>8, <1>11

(* As many people get a portion as there are portions. *)
LEMMA RecipientsCounted ==
  ASSUME NEW people \in SUBSET Nat, IsFiniteSet(people), NEW n \in 0 .. Cardinality(people)
  PROVE  Recipients(n, people) \subseteq people /\ Cardinality(Recipients(n, people)) = n
  <1>1. Recipients(n, people) \subseteq people
    BY DEF Recipients
  <1>2. Cardinality(people) \in Nat
    BY FS_CardinalityType
  <1> SUFFICES ASSUME Cardinality(Recipients(n, people)) # n PROVE FALSE
    BY <1>1
  <1> DEFINE W == {k \in 0 .. Cardinality(people) : Cardinality(Recipients(k, people)) # k}
  <1>3. W \in SUBSET Nat /\ W # {}
    BY <1>2
  <1>4. PICK k \in W : \A i \in W : k <= i
    <2> HIDE DEF W
    <2> QED
      BY <1>3, LeastNumber
  <1>5. Cardinality(Recipients(0, people)) = 0
    <2>1. ASSUME NEW p \in people
          PROVE  Rank(p, people) # 0
      <3>1. p \in {q \in people : q <= p}
        OBVIOUS
      <3>2. p \in Nat
        OBVIOUS
      <3>3. IsFiniteSet({q \in people : q <= p})
        BY <3>2, RankTyped
      <3> QED
        BY <3>1, <3>3, FS_EmptySet DEF Rank
    <2>2. \A p \in people : Rank(p, people) \in Nat
      <3>1. \A p \in people : p \in Nat
        OBVIOUS
      <3>2. \A p \in people : Rank(p, people) \in 0 .. Cardinality(people)
        BY <3>1, RankTyped
      <3> QED
        BY <1>2, <3>2
    <2>3. Recipients(0, people) = {}
      <3>1. \A p \in people : ~(Rank(p, people) <= 0)
        BY <2>1, <2>2
      <3> QED
        BY <3>1 DEF Recipients, Rank
    <2> QED
      BY <2>3, FS_EmptySet
  <1>6. k # 0
    BY <1>5
  <1>7. k - 1 \in Nat /\ k - 1 < Cardinality(people) /\ k - 1 \notin W
    BY <1>2, <1>4, <1>6
  <1>8. Cardinality(Recipients(k - 1, people)) = k - 1
    BY <1>2, <1>7
  <1>9. Cardinality(Recipients((k - 1) + 1, people)) = (k - 1) + 1
    BY <1>7, <1>8, NextRecipient
  <1>10. (k - 1) + 1 = k
    BY <1>2
  <1> QED
    BY <1>9, <1>10

(* If there are portions enough, everybody gets one. *)
LEMMA EverybodyServed ==
  ASSUME NEW people \in SUBSET Nat, IsFiniteSet(people)
  PROVE  Recipients(Cardinality(people), people) = people
  <1>1. \A p \in people : Rank(p, people) <= Cardinality(people)
    <2>1. \A p \in people : p \in Nat
      OBVIOUS
    <2>2. \A p \in people : Rank(p, people) \in 0 .. Cardinality(people)
      BY <2>1, RankTyped
    <2> QED
      BY <2>2, FS_CardinalityType
  <1> QED
    BY <1>1 DEF Recipients, Rank

-----------------------------------------------------------------------------
(* What DailyTypeOK says of a run. *)
RunState == [kind : {"rations", "production"}, engine : Engine,
             step : {"idle", "people", "stock", "apply", "done", "failed"},
             camp : DOMAIN Camps, people : SUBSET Person,
             amount : [Resource -> Int], todo : SUBSET Resource]

LEMMA DailyTypes ==
  ASSUME DailyTypeOK
  PROVE  /\ stock \in [Row -> 0 .. MaxStock]
         /\ logged \in [Row -> [LogType -> Int]]
         /\ status \in [Person -> {"HEALTHY", "AWAY", "DEAD"}]
         /\ run \in [Run -> RunState]
         /\ served \in [Run -> [Row -> SUBSET Person]]
         /\ refused \subseteq Run \X Row
         /\ taken \subseteq Row
         /\ changes \in 0 .. MaxChanges
         /\ failed \subseteq Run
  BY DEF DailyTypeOK, RunState

LEMMA DailyTyped ==
  ASSUME stock' \in [Row -> 0 .. MaxStock],
         logged' \in [Row -> [LogType -> Int]],
         status' \in [Person -> {"HEALTHY", "AWAY", "DEAD"}],
         run' \in [Run -> RunState],
         served' \in [Run -> [Row -> SUBSET Person]],
         refused' \subseteq Run \X Row,
         taken' \subseteq Row,
         changes' \in 0 .. MaxChanges,
         failed' \subseteq Run
  PROVE  DailyTypeOK'
  BY DEF DailyTypeOK, RunState

(* The camps are numbered from one, and each of them is there once. *)
LEMMA CampsNumbered ==
  /\ Len(Camps) \in Nat /\ Len(Camps) >= 1 /\ DOMAIN Camps = 1 .. Len(Camps)
  /\ \A k \in DOMAIN Camps, r \in Resource : <<Camps[k], r>> \in Row
  /\ \A k, l \in DOMAIN Camps : Camps[k] = Camps[l] => k = l
  <1>1. Camps \in Seq(Range(Camps)) /\ Camps # <<>> /\ IsInjective(Camps)
    BY DailyAssumption
  <1>2. Len(Camps) \in Nat /\ DOMAIN Camps = 1 .. Len(Camps)
    BY <1>1
  <1>3. Len(Camps) >= 1
    BY <1>1, <1>2
  <1>4. \A k \in DOMAIN Camps : Camps[k] \in Range(Camps)
    BY DEF Range
  <1> QED
    BY <1>1, <1>2, <1>3, <1>4 DEF Row, IsInjective

(* A run that is in state c goes on to state s... *)
Goes(c, s) ==
  /\ s \in RunState
  /\ ReadingSuits(s)
  /\ s.kind = c.kind /\ s.engine = c.engine
  /\ \A k \in DOMAIN Camps, r \in Resource : Ahead(s, k, r) => Ahead(c, k, r)

(* ... without reading the stock. *)
Follows(c, s) ==
  /\ Goes(c, s)
  /\ s.kind = "rations" =>
       \A r \in s.todo : r \in c.todo /\ s.camp = c.camp /\ s.amount = c.amount

(* The next camp is begun without anything read. *)
LEMMA NextCampFollows ==
  ASSUME NEW c \in RunState
  PROVE  /\ Follows(c, NextCamp(c))
         /\ NextCamp(c).step # "failed" /\ NextCamp(c).todo = {}
         /\ \A k \in DOMAIN Camps, r \in Resource : Ahead(NextCamp(c), k, r) => k > c.camp
  <1>1. Unread \in [Resource -> Int]
    BY DEF Unread
  <1>2. c.camp \in Nat /\ c.camp \in DOMAIN Camps /\ c.camp <= Len(Camps)
    BY CampsNumbered DEF RunState
  <1>3. CASE c.camp = Len(Camps)
    <2> DEFINE s == [c EXCEPT !.step = "done", !.todo = {}]
    <2>1. NextCamp(c) = s
      BY <1>3 DEF NextCamp
    <2>2. /\ s \in RunState /\ s.step = "done" /\ s.todo = {} /\ s.camp = c.camp
          /\ s.kind = c.kind /\ s.engine = c.engine
      BY DEF RunState
    <2> HIDE DEF s
    <2> QED
      BY <2>1, <2>2 DEF Follows, Goes, ReadingSuits, Ahead
  <1>4. CASE c.camp # Len(Camps)
    <2> DEFINE s == [c EXCEPT !.step = "people", !.camp = @ + 1, !.people = {},
                              !.amount = Unread, !.todo = {}]
    <2>1. NextCamp(c) = s
      BY <1>4 DEF NextCamp
    <2>2. c.camp + 1 \in DOMAIN Camps
      BY <1>2, <1>4, CampsNumbered
    <2>3. /\ s \in RunState /\ s.step = "people" /\ s.todo = {} /\ s.camp = c.camp + 1
          /\ s.kind = c.kind /\ s.engine = c.engine
      BY <1>1, <2>2 DEF RunState
    <2> HIDE DEF s
    <2>4. \A k \in DOMAIN Camps, r \in Resource : Ahead(s, k, r) => k > c.camp
      BY <1>2, <2>3, CampsNumbered DEF Ahead
    <2> QED
      BY <2>1, <2>3, <2>4 DEF Follows, Goes, ReadingSuits, Ahead
  <1> QED
    BY <1>3, <1>4

(* A resource that is done is not done again. *)
LEMMA AfterFollows ==
  ASSUME NEW c \in RunState, ReadingSuits(c), NEW r \in c.todo
  PROVE  /\ Follows(c, After(c, r))
         /\ After(c, r).step # "failed"
         /\ r \notin After(c, r).todo
         /\ ~Ahead(After(c, r), c.camp, r)
  <1> DEFINE n == [c EXCEPT !.todo = @ \ {r}]
  <1>1. /\ n \in RunState /\ n.step = c.step /\ n.todo = c.todo \ {r} /\ n.camp = c.camp
        /\ n.kind = c.kind /\ n.engine = c.engine /\ n.amount = c.amount
        /\ n.people = c.people
    BY DEF RunState
  <1>2. After(c, r) = IF n.todo = {} THEN NextCamp(n) ELSE n
    BY DEF After
  <1>3. c.step = "apply" /\ c.camp \in Nat /\ r \in Resource /\ c.camp \in DOMAIN Camps
    BY CampsNumbered DEF ReadingSuits, RunState
  <1> HIDE DEF n
  <1>4. CASE n.todo = {}
    <2>1. /\ Follows(n, NextCamp(n)) /\ NextCamp(n).step # "failed" /\ NextCamp(n).todo = {}
          /\ \A k \in DOMAIN Camps, q \in Resource : Ahead(NextCamp(n), k, q) => k > n.camp
      BY <1>1, NextCampFollows
    <2>2. ~Ahead(NextCamp(n), c.camp, r)
      BY <1>1, <1>3, <2>1
    <2>3. Follows(c, NextCamp(n))
      BY <1>1, <2>1 DEF Follows, Goes, Ahead
    <2> QED
      BY <1>2, <1>4, <2>1, <2>2, <2>3
  <1>5. CASE n.todo # {}
    <2>1. ReadingSuits(n)
      BY <1>1, <1>3 DEF ReadingSuits
    <2>2. Follows(c, n)
      BY <1>1, <2>1 DEF Follows, Goes, Ahead
    <2>3. ~Ahead(n, c.camp, r)
      BY <1>1, <1>3 DEF Ahead
    <2> QED
      BY <1>1, <1>2, <1>3, <1>5, <2>2, <2>3
  <1> QED
    BY <1>4, <1>5

(* A run that stops has nothing left to do. *)
LEMMA StoppedFollows ==
  ASSUME NEW c \in RunState
  PROVE  Follows(c, [c EXCEPT !.step = "failed", !.todo = {}])
  <1> DEFINE s == [c EXCEPT !.step = "failed", !.todo = {}]
  <1>1. /\ s \in RunState /\ s.step = "failed" /\ s.todo = {} /\ s.camp = c.camp
        /\ s.kind = c.kind /\ s.engine = c.engine
    BY DEF RunState
  <1> HIDE DEF s
  <1>2. Follows(c, s)
    BY <1>1 DEF Follows, Goes, ReadingSuits, Ahead
  <1> QED
    BY <1>2 DEF s

-----------------------------------------------------------------------------
(* Division leaves less than the divisor. *)
LEMMA Divided ==
  ASSUME NEW a \in Nat, NEW b \in Nat \ {0}
  PROVE  a \div b \in Nat /\ (a \div b) * b <= a /\ a - (a \div b) * b < b
  OBVIOUS

LEMMA ProductsGrow ==
  ASSUME NEW a \in Nat, NEW b \in Nat, NEW c \in Nat, a <= b
  PROVE  a * c \in Nat /\ b * c \in Nat /\ a * c <= b * c
  OBVIOUS

LEMMA ProductsAtLeast ==
  ASSUME NEW a \in Nat \ {0}, NEW b \in Nat \ {0}
  PROVE  a * b \in Nat \ {0}
  OBVIOUS

LEMMA LesserOfTwo ==
  ASSUME NEW a \in Nat, NEW b \in Nat
  PROVE  Min({a, b}) = IF a <= b THEN a ELSE b
  BY DEF Min

LEMMA OneLess ==
  ASSUME NEW a \in Nat, NEW b \in Nat
  PROVE  (a - 1) * b = a * b - b
  OBVIOUS

(* Taking z leaves no more of w than of a, which is as much at least. *)
LEMMA LeftOver ==
  ASSUME NEW w \in Nat, NEW a \in Nat, NEW z \in Nat, NEW m \in Nat, w <= a
  PROVE  /\ a - z < m => w + (-z) < m
         /\ a - z = m => w + (-z) < m \/ w + (-z) = m
  OBVIOUS

(* The quotient of a whole number of portions. *)
LEMMA WholeQuotient ==
  ASSUME NEW k \in Nat, NEW b \in Nat \ {0}, NEW d \in Nat,
         d * b <= k * b, k * b - d * b < b
  PROVE  d = k
  <1>1. k * b \in Nat /\ d * b \in Nat
    OBVIOUS
  <1>2. ASSUME d + 1 <= k PROVE FALSE
    <2>1. (d + 1) * b <= k * b
      BY <1>2, ProductsGrow
    <2>2. (d + 1) * b = d * b + b
      OBVIOUS
    <2> QED
      BY <1>1, <2>1, <2>2
  <1>3. ASSUME k + 1 <= d PROVE FALSE
    <2>1. (k + 1) * b <= d * b
      BY <1>3, ProductsGrow
    <2>2. (k + 1) * b = k * b + b
      OBVIOUS
    <2> QED
      BY <1>1, <2>1, <2>2
  <1> QED
    BY <1>2, <1>3

(***************************************************************************)
(* The quotient of doubles is the whole number of portions there are, or   *)
(* one less, if they leave nothing over.                                   *)
(***************************************************************************)
LEMMA QuotientFits ==
  ASSUME NEW quantity \in Nat, NEW r \in Resource, Need[r] \in Nat \ {0}
  PROVE  LET d == Quotient(quantity, r) IN
         /\ d \in Nat /\ d * Need[r] <= quantity
         /\ \/ quantity - d * Need[r] < Need[r]
            \/ quantity \in Short[r] /\ quantity - d * Need[r] = Need[r]
  <1> DEFINE d == quantity \div Need[r]
  <1>1. d \in Nat /\ d * Need[r] <= quantity /\ quantity - d * Need[r] < Need[r]
    BY Divided
  <1> HIDE DEF d
  <1>2. CASE quantity \notin Short[r]
    BY <1>1, <1>2 DEF Quotient, d
  <1>3. CASE quantity \in Short[r]
    <2>1. PICK k \in 1 .. quantity : quantity = k * Need[r]
      BY <1>3, DailyAssumption
    <2>2. d = k
      BY <1>1, <2>1, WholeQuotient
    <2>3. d - 1 \in Nat /\ Quotient(quantity, r) = d - 1
      BY <1>3, <2>1, <2>2 DEF Quotient, d
    <2>4. (d - 1) * Need[r] = d * Need[r] - Need[r]
      BY <1>1, OneLess
    <2>5. d * Need[r] = quantity
      BY <2>1, <2>2
    <2>6. (d - 1) * Need[r] <= quantity /\ quantity - (d - 1) * Need[r] = Need[r]
      BY <2>4, <2>5
    <2> QED
      BY <1>3, <2>3, <2>6
  <1> QED
    BY <1>2, <1>3

(***************************************************************************)
(* No more portions than people or than the quantity has, and else all     *)
(* there are, but for the one that division may cost.                      *)
(***************************************************************************)
LEMMA PortionsFit ==
  ASSUME NEW quantity \in Nat, NEW r \in Resource, NEW people, IsFiniteSet(people),
         NEW n, n = Portions(quantity, r, people)
  PROVE  /\ n \in 0 .. Cardinality(people) /\ n * Need[r] \in Nat /\ n * Need[r] <= quantity
         /\ n > 0 => Need[r] # 0 /\ n * Need[r] > 0
         /\ Need[r] # 0 /\ n # Cardinality(people) =>
              \/ quantity - n * Need[r] < Need[r]
              \/ quantity \in Short[r] /\ quantity - n * Need[r] = Need[r]
  <1>1. Need[r] \in Nat /\ Cardinality(people) \in Nat
    BY DailyAssumption, FS_CardinalityType
  <1>2. CASE Need[r] = 0
    <2>1. n = 0
      BY <1>2 DEF Portions
    <2>2. n * Need[r] = 0
      BY <1>2, <2>1
    <2> QED
      BY <1>1, <1>2, <2>1, <2>2
  <1>3. CASE Need[r] # 0
    <2> DEFINE d == Quotient(quantity, r)
    <2>1. /\ d \in Nat /\ d * Need[r] <= quantity
          /\ \/ quantity - d * Need[r] < Need[r]
             \/ quantity \in Short[r] /\ quantity - d * Need[r] = Need[r]
      BY <1>1, <1>3, QuotientFits
    <2>2. n = Min({d, Cardinality(people)})
      BY <1>3 DEF Portions
    <2> HIDE DEF d
    <2>3. n = IF d <= Cardinality(people) THEN d ELSE Cardinality(people)
      BY <1>1, <2>1, <2>2, LesserOfTwo
    <2>4. n \in Nat /\ n <= d /\ n <= Cardinality(people)
      BY <1>1, <2>1, <2>3
    <2>5. n * Need[r] \in Nat /\ d * Need[r] \in Nat /\ n * Need[r] <= d * Need[r]
      BY <1>1, <2>1, <2>4, ProductsGrow
    <2>6. n > 0 => n * Need[r] > 0
      <3>1. n > 0 => n \in Nat \ {0} /\ Need[r] \in Nat \ {0}
        BY <1>1, <1>3, <2>4
      <3>2. n > 0 => n * Need[r] \in Nat \ {0}
        BY <3>1, ProductsAtLeast
      <3> QED
        BY <3>2
    <2>7. n # Cardinality(people) =>
            \/ quantity - n * Need[r] < Need[r]
            \/ quantity \in Short[r] /\ quantity - n * Need[r] = Need[r]
      <3>1. n # Cardinality(people) => n = d
        BY <2>3
      <3> QED
        BY <2>1, <3>1
    <2>8. n * Need[r] <= quantity
      BY <2>1, <2>5
    <2> QED
      BY <1>1, <1>3, <2>4, <2>5, <2>6, <2>7, <2>8
  <1> QED
    BY <1>2, <1>3

-----------------------------------------------------------------------------
(* What run j has still to do, in a new state s, is there unless others have taken. *)
Backed(j, s) ==
  s.kind = "rations" =>
    \A r \in s.todo : \/ stock[<<Camps[s.camp], r>>] >= s.amount[r]
                      \/ TakenByOthers(j, <<Camps[s.camp], r>>)

LEMMA FollowsIsBacked ==
  ASSUME DailyInv, NEW j \in Run, NEW CONSTANT s, Follows(run[j], s)
  PROVE  Backed(j, s)
  BY DEF DailyInv, ThereUnlessTaken, Cell, Here, Backed, Follows, Goes

(* What a run that goes on leaves true of the runs, and of what was served. *)
LEMMA RunMoves ==
  ASSUME DailyInv, NEW j \in Run, NEW CONSTANT s, run' = [run EXCEPT ![j] = s],
         Goes(run[j], s),
         s.step = "failed" =>
           j \in failed' \/ (s.engine = "api" /\ \E x \in Row : <<j, x>> \in refused'),
         refused \subseteq refused', failed \subseteq failed'
  PROVE  /\ run' \in [Run -> RunState]
         /\ run'[j] = s /\ \A i \in Run \ {j} : run'[i] = run[i]
         /\ StopsForAReason'
         /\ (\A i \in Run : ReadingSuits(run[i]))'
         /\ UNCHANGED served => OncePerCamp'
  <1>1. run \in [Run -> RunState] /\ s \in RunState
    BY DailyTypes DEF DailyInv, Goes
  <1>2. run' \in [Run -> RunState] /\ run'[j] = s /\ \A i \in Run \ {j} : run'[i] = run[i]
    BY <1>1
  <1>3. StopsForAReason'
    <2> SUFFICES ASSUME NEW i \in Run, run'[i].step = "failed"
                 PROVE  i \in failed' \/ (run'[i].engine = "api"
                                            /\ \E x \in Row : <<i, x>> \in refused')
      BY DEF StopsForAReason
    <2>1. CASE i = j
      BY <1>2, <2>1
    <2>2. CASE i # j
      BY <1>2, <2>2 DEF DailyInv, StopsForAReason
    <2> QED
      BY <2>1, <2>2
  <1>4. (\A i \in Run : ReadingSuits(run[i]))'
    BY <1>2 DEF DailyInv, Goes
  <1>5. UNCHANGED served => OncePerCamp'
    BY <1>2 DEF DailyInv, OncePerCamp, Goes
  <1> QED
    BY <1>2, <1>3, <1>4, <1>5

(* A run that goes on without a movement of the stock. *)
LEMMA RunGoesOn ==
  ASSUME DailyInv, NEW j \in Run, NEW CONSTANT s, run' = [run EXCEPT ![j] = s],
         Goes(run[j], s), Backed(j, s),
         s.step = "failed" =>
           j \in failed' \/ (s.engine = "api" /\ \E x \in Row : <<j, x>> \in refused'),
         UNCHANGED <<stock, logged, status, served, taken, changes>>,
         refused \subseteq refused', refused' \subseteq Run \X Row,
         failed \subseteq failed', failed' \subseteq Run
  PROVE  DailyInv'
  <1>1. /\ run' \in [Run -> RunState]
        /\ run'[j] = s /\ \A i \in Run \ {j} : run'[i] = run[i]
        /\ StopsForAReason'
        /\ (\A i \in Run : ReadingSuits(run[i]))'
        /\ OncePerCamp'
    BY RunMoves
  <1>2. DailyTypeOK'
    <2>1. DailyTypeOK
      BY DEF DailyInv
    <2> QED
      BY <1>1, <2>1, DailyTypes, DailyTyped
  <1>3. PortionsLogged'
    <2>1. PortionsLogged
      BY DEF DailyInv
    <2> QED
      BY <2>1 DEF PortionsLogged
  <1>4. ThereUnlessTaken'
    <2> SUFFICES ASSUME NEW i \in Run, NEW r \in run'[i].todo, run'[i].kind = "rations"
                 PROVE  stock'[Cell(i, r)'] >= run'[i].amount[r] \/ TakenByOthers(i, Cell(i, r))'
      BY DEF ThereUnlessTaken
    <2>1. CASE i = j
      BY <1>1, <2>1 DEF Backed, TakenByOthers, Cell, Here
    <2>2. CASE i # j
      <3>1. run'[i] = run[i]
        BY <1>1, <2>2
      <3>2. Cell(i, r)' = Cell(i, r)
        BY <3>1 DEF Cell, Here
      <3>3. stock[Cell(i, r)] >= run[i].amount[r] \/ TakenByOthers(i, Cell(i, r))
        BY <3>1 DEF DailyInv, ThereUnlessTaken
      <3>4. TakenByOthers(i, Cell(i, r)) => TakenByOthers(i, Cell(i, r))'
        BY <3>2 DEF TakenByOthers
      <3> QED
        BY <3>1, <3>2, <3>3, <3>4
    <2> QED
      BY <2>1, <2>2
  <1> QED
    BY <1>1, <1>2, <1>3, <1>4 DEF DailyInv

LEMMA StartInv ==
  ASSUME DailyInv, NEW j \in Run, Start(j)
  PROVE  DailyInv'
  <1>1. run[j] \in RunState /\ refused \subseteq Run \X Row /\ failed \subseteq Run
    BY DailyTypes DEF DailyInv
  <1>2. PICK c \in RunState : c = run[j]
    BY <1>1
  <1>3. PICK s : s = [c EXCEPT !.step = "people"]
    OBVIOUS
  <1>4. /\ s \in RunState /\ s.step = "people" /\ s.todo = c.todo /\ s.camp = c.camp
        /\ s.kind = c.kind /\ s.engine = c.engine /\ s.amount = c.amount
    BY <1>3 DEF RunState
  <1>5. c.step = "idle" /\ ReadingSuits(c)
    BY <1>2 DEF Start, DailyInv
  <1>6. s.todo = {}
    BY <1>4, <1>5 DEF ReadingSuits
  <1>7. Follows(c, s)
    BY <1>4, <1>5, <1>6 DEF Follows, Goes, ReadingSuits, Ahead
  <1>8. run' = [run EXCEPT ![j] = s]
    BY <1>2, <1>3 DEF Start, RunBecomes
  <1>9. UNCHANGED <<stock, logged, status, served, refused, taken, changes, failed>>
    BY DEF Start
  <1> QED
    BY <1>1, <1>2, <1>4, <1>7, <1>8, <1>9, FollowsIsBacked, RunGoesOn DEF Follows

(* What the professions and the overrides add up to. *)
LEMMA TotalsTyped ==
  ASSUME NEW camp, NEW people \in SUBSET Person
  PROVE  Totals(camp, people) \in [Resource -> Int]
  <1> SUFFICES ASSUME NEW r \in Resource
               PROVE  SumFunctionOnSet(Yield[r], people) + Overrides(camp, r) \in Int
    BY DEF Totals
  <1>1. IsFiniteSet(people) /\ IsFiniteSet({p \in Person : Home[p] = camp})
    BY DailyAssumption, FS_Subset
  <1>2. \A p \in Person : Yield[r][p] \in Int /\ Override[r][p] \in Int
    BY DailyAssumption
  <1>3. SumFunctionOnSet(Yield[r], people) \in Int
    BY <1>1, <1>2, SumTyped
  <1>4. SumFunctionOnSet(Override[r], {p \in Person : Home[p] = camp}) \in Int
    BY <1>1, <1>2, SumTyped
  <1> QED
    BY <1>3, <1>4 DEF Overrides

LEMMA ReadPeopleInv ==
  ASSUME DailyInv, NEW j \in Run, ReadPeople(j)
  PROVE  DailyInv'
  <1>1. run[j] \in RunState /\ refused \subseteq Run \X Row /\ failed \subseteq Run
    BY DailyTypes DEF DailyInv
  <1>2. PICK c \in RunState : c = run[j]
    BY <1>1
  <1>3. PICK people \in SUBSET Person : people = Active(run[j].engine, Here(j))
    BY DEF Active
  <1>4. PICK totals : totals = Totals(Here(j), people)
    OBVIOUS
  <1>5. totals \in [Resource -> Int]
    BY <1>4, TotalsTyped
  <1>6. PICK gains : gains = {r \in Resource : totals[r] > 0}
    OBVIOUS
  <1>7. PICK s : s = IF people = {} \/ (c.kind = "production" /\ gains = {})
                     THEN NextCamp(c)
                     ELSE IF c.kind = "rations"
                     THEN [c EXCEPT !.step = "stock", !.people = people]
                     ELSE [c EXCEPT !.step = "apply", !.people = people,
                                    !.amount = totals, !.todo = gains]
    OBVIOUS
  <1>8. c.step = "people" /\ ReadingSuits(c)
    BY <1>2 DEF ReadPeople, DailyInv
  <1>9. c.todo = {} /\ c.kind \in {"rations", "production"}
    BY <1>8 DEF ReadingSuits, RunState
  <1>10. Follows(c, s) /\ s.step # "failed"
    <2>1. CASE people = {} \/ (c.kind = "production" /\ gains = {})
      BY <1>7, <2>1, NextCampFollows
    <2>2. CASE people # {} /\ c.kind = "rations"
      <3>1. s = [c EXCEPT !.step = "stock", !.people = people]
        BY <1>7, <2>2
      <3>2. /\ s \in RunState /\ s.step = "stock" /\ s.todo = c.todo /\ s.camp = c.camp
            /\ s.kind = c.kind /\ s.engine = c.engine /\ s.people = people
        BY <3>1 DEF RunState
      <3> QED
        BY <1>8, <1>9, <2>2, <3>2 DEF Follows, Goes, ReadingSuits, Ahead
    <2>3. CASE people # {} /\ c.kind = "production" /\ gains # {}
      <3>1. s = [c EXCEPT !.step = "apply", !.people = people, !.amount = totals, !.todo = gains]
        BY <1>7, <2>3
      <3>2. /\ s \in RunState /\ s.step = "apply" /\ s.todo = gains /\ s.camp = c.camp
            /\ s.kind = c.kind /\ s.engine = c.engine /\ s.people = people /\ s.amount = totals
        BY <1>5, <1>6, <3>1 DEF RunState
      <3>3. ReadingSuits(s)
        BY <1>6, <2>3, <3>2 DEF ReadingSuits
      <3> QED
        BY <1>8, <2>3, <3>2, <3>3 DEF Follows, Goes, Ahead
    <2> QED
      BY <1>9, <2>1, <2>2, <2>3
  <1>11. run' = [run EXCEPT ![j] = s]
    BY <1>2, <1>3, <1>4, <1>6, <1>7 DEF ReadPeople, RunBecomes
  <1>12. UNCHANGED <<stock, logged, status, served, refused, taken, changes, failed>>
    BY DEF ReadPeople
  <1> QED
    BY <1>1, <1>2, <1>10, <1>11, <1>12, FollowsIsBacked, RunGoesOn DEF Follows

LEMMA WithholdInv ==
  ASSUME DailyInv, NEW j \in Run, NEW r \in Resource, Withhold(j, r)
  PROVE  DailyInv'
  <1>1. run[j] \in RunState /\ refused \subseteq Run \X Row /\ failed \subseteq Run
    BY DailyTypes DEF DailyInv
  <1>2. PICK c \in RunState : c = run[j]
    BY <1>1
  <1>3. PICK s : s = After(c, r)
    OBVIOUS
  <1>4. ReadingSuits(c) /\ r \in c.todo
    BY <1>2 DEF DailyInv, Withhold
  <1>5. Follows(c, s) /\ s.step # "failed"
    BY <1>3, <1>4, AfterFollows
  <1>6. run' = [run EXCEPT ![j] = s]
    BY <1>2, <1>3 DEF Withhold, RunBecomes
  <1>7. UNCHANGED <<stock, logged, status, served, refused, taken, changes, failed>>
    BY DEF Withhold
  <1> QED
    BY <1>1, <1>2, <1>5, <1>6, <1>7, FollowsIsBacked, RunGoesOn DEF Follows

LEMMA RefuseInv ==
  ASSUME DailyInv, NEW j \in Run, NEW r \in Resource, Refuse(j, r)
  PROVE  DailyInv'
  <1>1. run[j] \in RunState /\ refused \subseteq Run \X Row /\ failed \subseteq Run
    BY DailyTypes DEF DailyInv
  <1>2. PICK c \in RunState : c = run[j]
    BY <1>1
  <1>3. ReadingSuits(c) /\ r \in c.todo
    BY <1>2 DEF DailyInv, Refuse
  <1>4. Cell(j, r) \in Row
    BY <1>1, CampsNumbered DEF Cell, Here, RunState
  <1>5. /\ refused \subseteq refused' /\ refused' \subseteq Run \X Row
        /\ \E x \in Row : <<j, x>> \in refused'
    BY <1>1, <1>4 DEF Refuse
  <1>6. UNCHANGED <<stock, logged, status, served, taken, changes, failed>>
    BY DEF Refuse
  <1>7. CASE c.engine = "api"
    <2>1. PICK s : s = [c EXCEPT !.step = "failed", !.todo = {}]
      OBVIOUS
    <2>2. Follows(c, s)
      BY <2>1, StoppedFollows
    <2>3. s.engine = "api"
      BY <1>7, <2>2 DEF Follows, Goes
    <2>4. run' = [run EXCEPT ![j] = s]
      BY <1>2, <1>7, <2>1 DEF Refuse, Stops, RunBecomes
    <2> QED
      BY <1>1, <1>2, <1>5, <1>6, <2>2, <2>3, <2>4, FollowsIsBacked, RunGoesOn DEF Follows
  <1>8. CASE c.engine # "api"
    <2>1. PICK s : s = After(c, r)
      OBVIOUS
    <2>2. Follows(c, s) /\ s.step # "failed"
      BY <1>3, <2>1, AfterFollows
    <2>3. run' = [run EXCEPT ![j] = s]
      BY <1>2, <1>8, <2>1 DEF Refuse, RunBecomes
    <2> QED
      BY <1>1, <1>2, <1>5, <1>6, <2>2, <2>3, FollowsIsBacked, RunGoesOn DEF Follows
  <1> QED
    BY <1>7, <1>8

LEMMA FailRunInv ==
  ASSUME DailyInv, NEW j \in Run, FailRun(j)
  PROVE  DailyInv'
  <1>1. run[j] \in RunState /\ refused \subseteq Run \X Row /\ failed \subseteq Run
    BY DailyTypes DEF DailyInv
  <1>2. PICK c \in RunState : c = run[j]
    BY <1>1
  <1>3. ReadingSuits(c)
    BY <1>2 DEF DailyInv
  <1>4. UNCHANGED <<stock, logged, status, served, refused, taken, changes>>
    BY DEF FailRun
  <1>5. failed \subseteq failed' /\ failed' \subseteq Run /\ j \in failed'
    BY <1>1 DEF FailRun
  <1>6. CASE c.engine = "worker" /\ c.kind = "rations" /\ c.step = "apply"
    <2>1. PICK r \in c.todo : run' = [run EXCEPT ![j] = After(c, r)]
      BY <1>2, <1>6 DEF FailRun, RunBecomes
    <2>2. PICK s : s = After(c, r)
      OBVIOUS
    <2>3. Follows(c, s)
      BY <1>3, <2>2, AfterFollows
    <2> QED
      BY <1>1, <1>2, <1>4, <1>5, <2>1, <2>2, <2>3, FollowsIsBacked, RunGoesOn DEF Follows
  <1>7. CASE ~(c.engine = "worker" /\ c.kind = "rations" /\ c.step = "apply")
    <2>1. PICK s : s = [c EXCEPT !.step = "failed", !.todo = {}]
      OBVIOUS
    <2>2. Follows(c, s)
      BY <2>1, StoppedFollows
    <2>3. run' = [run EXCEPT ![j] = s]
      BY <1>2, <1>7, <2>1 DEF FailRun, Stops, RunBecomes
    <2> QED
      BY <1>1, <1>2, <1>4, <1>5, <2>2, <2>3, FollowsIsBacked, RunGoesOn DEF Follows
  <1> QED
    BY <1>6, <1>7

LEMMA ReadStockInv ==
  ASSUME DailyInv, NEW j \in Run, ReadStock(j)
  PROVE  DailyInv'
  <1>1. /\ run[j] \in RunState /\ refused \subseteq Run \X Row /\ failed \subseteq Run
        /\ stock \in [Row -> 0 .. MaxStock]
    BY DailyTypes DEF DailyInv
  <1>2. PICK c \in RunState : c = run[j]
    BY <1>1
  <1>3. \A r \in Resource : Cell(j, r) \in Row /\ Cell(j, r) = <<Camps[c.camp], r>>
    BY <1>2, CampsNumbered DEF Cell, Here, RunState
  <1>4. PICK amount : amount = [r \in Resource |-> stock[Cell(j, r)]]
    OBVIOUS
  <1>5. amount \in [Resource -> Int] /\ \A r \in Resource : amount[r] >= 0
    <2>1. \A r \in Resource : stock[Cell(j, r)] \in Int /\ stock[Cell(j, r)] >= 0
      BY <1>1, <1>3, DailyAssumption
    <2> QED
      BY <1>4, <2>1
  <1>6. PICK s : s = [c EXCEPT !.step = "apply", !.todo = Resource, !.amount = amount]
    OBVIOUS
  <1>7. /\ s \in RunState /\ s.step = "apply" /\ s.todo = Resource /\ s.camp = c.camp
        /\ s.kind = c.kind /\ s.engine = c.engine /\ s.people = c.people /\ s.amount = amount
    BY <1>5, <1>6 DEF RunState
  <1>8. c.step = "stock" /\ c.people # {}
    BY <1>2 DEF ReadStock, DailyInv, ReadingSuits
  <1>9. c.kind = "rations"
    BY <1>2, <1>8 DEF DailyInv, ReadingSuits
  <1>10. Goes(c, s)
    BY <1>5, <1>7, <1>8, <1>9 DEF Goes, ReadingSuits, Ahead
  <1>11. Backed(j, s)
    BY <1>3, <1>4, <1>5, <1>7 DEF Backed
  <1>12. run' = [run EXCEPT ![j] = s]
    BY <1>2, <1>4, <1>6 DEF ReadStock, RunBecomes
  <1>13. UNCHANGED <<stock, logged, status, served, refused, taken, changes, failed>>
    BY DEF ReadStock
  <1> QED
    BY <1>1, <1>2, <1>7, <1>10, <1>11, <1>12, <1>13, RunGoesOn

-----------------------------------------------------------------------------
(* What run i is to give of row x is untouched by what happens to other rows. *)
LEMMA StillBacked ==
  ASSUME DailyInv, NEW i \in Run, NEW r \in run[i].todo, run[i].kind = "rations",
         run'[i] = run[i], stock' \in [Row -> 0 .. MaxStock],
         stock'[Cell(i, r)] >= stock[Cell(i, r)] \/ TakenByOthers(i, Cell(i, r))',
         taken \subseteq taken',
         \A k \in Run, x \in Row : served[k][x] # {} => served'[k][x] # {}
  PROVE  stock'[Cell(i, r)'] >= run'[i].amount[r] \/ TakenByOthers(i, Cell(i, r))'
  <1>1. Cell(i, r)' = Cell(i, r)
    BY DEF Cell, Here
  <1>2. PICK x \in Row : x = Cell(i, r)
    BY DailyTypes, CampsNumbered DEF DailyInv, Cell, Here, RunState
  <1>3. stock[x] >= run[i].amount[r] \/ TakenByOthers(i, x)
    BY <1>2 DEF DailyInv, ThereUnlessTaken
  <1>4. TakenByOthers(i, x) => TakenByOthers(i, x)'
    BY DEF TakenByOthers
  <1>5. CASE TakenByOthers(i, x)'
    BY <1>1, <1>2, <1>5 DEF TakenByOthers
  <1>6. CASE ~TakenByOthers(i, x)'
    <2>1. stock'[x] >= stock[x]
      BY <1>1, <1>2, <1>6 DEF TakenByOthers
    <2>2. stock[x] >= run[i].amount[r]
      BY <1>3, <1>4, <1>6
    <2>3. stock[x] \in Int /\ stock'[x] \in Int /\ run[i].amount[r] \in Int
      <3>1. stock \in [Row -> 0 .. MaxStock] /\ run[i] \in RunState
        BY DailyTypes DEF DailyInv
      <3> QED
        BY <1>2, <3>1, DailyAssumption DEF RunState
    <2>4. stock'[x] >= run[i].amount[r]
      BY <2>1, <2>2, <2>3
    <2> QED
      BY <1>1, <1>2, <2>4
  <1> QED
    BY <1>5, <1>6

(* A change of one row, logged. *)
LEMMA Moved ==
  ASSUME DailyTypeOK, NEW CONSTANT x \in Row, NEW CONSTANT t \in LogType, NEW CONSTANT d \in Int,
         stock[x] + d \in 0 .. MaxStock, Movement(x, t, d)
  PROVE  /\ stock' \in [Row -> 0 .. MaxStock] /\ logged' \in [Row -> [LogType -> Int]]
         /\ stock'[x] = stock[x] + d /\ \A y \in Row : y # x => stock'[y] = stock[y]
         /\ \A y \in Row, u \in LogType :
              logged'[y][u] = IF y = x /\ u = t THEN logged[y][u] + d ELSE logged[y][u]
  <1>1. stock \in [Row -> 0 .. MaxStock] /\ logged \in [Row -> [LogType -> Int]]
    BY DailyTypes
  <1>2. stock' = [stock EXCEPT ![x] = stock[x] + d]
    BY DEF Movement
  <1>3. logged' = [logged EXCEPT ![x] = [logged[x] EXCEPT ![t] = logged[x][t] + d]]
    BY DEF Movement
  <1>4. logged[x][t] + d \in Int
    BY <1>1
  <1> QED
    BY <1>1, <1>2, <1>3, <1>4

(* Each kind of log but the rations leaves the portions alone. *)
LEMMA OtherLogs ==
  ASSUME PortionsLogged, UNCHANGED served,
         \A x \in Row : logged'[x]["DAILY_RATION"] = logged[x]["DAILY_RATION"]
  PROVE  PortionsLogged'
  BY DEF PortionsLogged

LEMMA GainInv ==
  ASSUME DailyInv, NEW j \in Run, NEW r \in Resource, Gain(j, r)
  PROVE  DailyInv'
  <1>1. /\ run \in [Run -> RunState] /\ stock \in [Row -> 0 .. MaxStock] /\ DailyTypeOK
        /\ PortionsLogged
    BY DailyTypes DEF DailyInv
  <1>2. PICK c \in RunState : c = run[j]
    BY <1>1
  <1>3. PICK x \in Row : x = Cell(j, r)
    BY <1>2, CampsNumbered DEF Cell, Here, RunState
  <1>4. ReadingSuits(c) /\ r \in c.todo /\ c.kind = "production"
    BY <1>2 DEF DailyInv, Gain
  <1>5. PICK d \in Int : d = c.amount[r]
    BY DEF RunState
  <1>6. d > 0
    BY <1>4, <1>5 DEF ReadingSuits
  <1>7. stock[x] \in 0 .. MaxStock /\ MaxStock \in Nat
    BY <1>1, DailyAssumption
  <1>8. stock[x] + d <= MaxStock /\ Movement(x, "DAILY_GAIN", d)
    BY <1>2, <1>3, <1>5 DEF Gain
  <1>9. stock[x] + d \in 0 .. MaxStock
    BY <1>6, <1>7, <1>8
  <1>10. /\ stock' \in [Row -> 0 .. MaxStock] /\ logged' \in [Row -> [LogType -> Int]]
         /\ stock'[x] = stock[x] + d /\ \A y \in Row : y # x => stock'[y] = stock[y]
         /\ \A y \in Row, u \in LogType :
              logged'[y][u] = IF y = x /\ u = "DAILY_GAIN" THEN logged[y][u] + d ELSE logged[y][u]
    BY <1>1, <1>8, <1>9, Moved DEF LogType
  <1>11. PICK s : s = After(c, r)
    OBVIOUS
  <1>12. Goes(c, s) /\ s.step # "failed"
    BY <1>4, <1>11, AfterFollows DEF Follows
  <1>13. run' = [run EXCEPT ![j] = s]
    BY <1>2, <1>11 DEF Gain, RunBecomes
  <1>14. UNCHANGED <<status, served, refused, taken, changes, failed>>
    BY DEF Gain
  <1>15. /\ run' \in [Run -> RunState]
         /\ run'[j] = s /\ \A i \in Run \ {j} : run'[i] = run[i]
         /\ StopsForAReason'
         /\ (\A i \in Run : ReadingSuits(run[i]))'
         /\ OncePerCamp'
    BY <1>2, <1>12, <1>13, <1>14, RunMoves
  <1>16. DailyTypeOK'
    BY <1>1, <1>10, <1>14, <1>15, DailyTypes, DailyTyped
  <1>17. PortionsLogged'
    <2>1. \A y \in Row : logged'[y]["DAILY_RATION"] = logged[y]["DAILY_RATION"]
      BY <1>10 DEF LogType
    <2> QED
      BY <1>1, <1>14, <2>1, OtherLogs
  <1>18. ThereUnlessTaken'
    <2> SUFFICES ASSUME NEW i \in Run, NEW q \in run'[i].todo, run'[i].kind = "rations"
                 PROVE  stock'[Cell(i, q)'] >= run'[i].amount[q] \/ TakenByOthers(i, Cell(i, q))'
      BY DEF ThereUnlessTaken
    <2>1. i # j
      BY <1>4, <1>12, <1>15 DEF Goes
    <2>2. run'[i] = run[i]
      BY <1>15, <2>1
    <2>3. Cell(i, q) \in Row
      BY <1>1, <2>2, CampsNumbered DEF Cell, Here, RunState
    <2>4. \A y \in Row : stock'[y] >= stock[y]
      BY <1>1, <1>6, <1>7, <1>10
    <2> QED
      BY <1>10, <1>14, <2>2, <2>3, <2>4, StillBacked
  <1> QED
    BY <1>15, <1>16, <1>17, <1>18 DEF DailyInv

LEMMA OtherInv ==
  ASSUME DailyInv, NEW CONSTANT x \in Row, NEW CONSTANT d \in {-1, 1}, Other(x, d)
  PROVE  DailyInv'
  <1>1. /\ run \in [Run -> RunState] /\ stock \in [Row -> 0 .. MaxStock] /\ DailyTypeOK
        /\ PortionsLogged /\ taken \subseteq Row /\ changes \in 0 .. MaxChanges
    BY DailyTypes DEF DailyInv
  <1>2. /\ d \in Int /\ stock[x] + d \in 0 .. MaxStock /\ Movement(x, "OTHER", d)
        /\ changes' \in 0 .. MaxChanges
    BY <1>1, DailyAssumption DEF Other
  <1>3. /\ stock' \in [Row -> 0 .. MaxStock] /\ logged' \in [Row -> [LogType -> Int]]
        /\ stock'[x] = stock[x] + d /\ \A y \in Row : y # x => stock'[y] = stock[y]
        /\ \A y \in Row, u \in LogType :
             logged'[y][u] = IF y = x /\ u = "OTHER" THEN logged[y][u] + d ELSE logged[y][u]
    BY <1>1, <1>2, Moved DEF LogType
  <1>4. UNCHANGED <<status, run, served, refused, failed>>
    BY DEF Other
  <1>5. taken \subseteq taken' /\ taken' \subseteq Row /\ (d < 0 => x \in taken')
    BY <1>1 DEF Other
  <1>6. DailyTypeOK'
    BY <1>1, <1>2, <1>3, <1>4, <1>5, DailyTypes, DailyTyped
  <1>7. PortionsLogged'
    <2>1. \A y \in Row : logged'[y]["DAILY_RATION"] = logged[y]["DAILY_RATION"]
      BY <1>3 DEF LogType
    <2> QED
      BY <1>1, <1>4, <2>1, OtherLogs
  <1>8. ThereUnlessTaken'
    <2> SUFFICES ASSUME NEW i \in Run, NEW q \in run'[i].todo, run'[i].kind = "rations"
                 PROVE  stock'[Cell(i, q)'] >= run'[i].amount[q] \/ TakenByOthers(i, Cell(i, q))'
      BY DEF ThereUnlessTaken
    <2>1. run'[i] = run[i]
      BY <1>4
    <2>2. Cell(i, q) \in Row /\ Cell(i, q)' = Cell(i, q)
      BY <1>1, <2>1, CampsNumbered DEF Cell, Here, RunState
    <2>3. stock[Cell(i, q)] \in Int
      BY <1>1, <2>2, DailyAssumption
    <2>4. stock'[Cell(i, q)] >= stock[Cell(i, q)] \/ TakenByOthers(i, Cell(i, q))'
      <3>1. CASE Cell(i, q) # x
        BY <1>3, <2>2, <2>3, <3>1
      <3>2. CASE Cell(i, q) = x /\ d = 1
        BY <1>3, <2>3, <3>2
      <3>3. CASE Cell(i, q) = x /\ d = -1
        BY <1>5, <2>2, <3>3 DEF TakenByOthers
      <3> QED
        BY <3>1, <3>2, <3>3
    <2> QED
      BY <1>3, <1>4, <1>5, <2>1, <2>4, StillBacked
  <1>9. StopsForAReason' /\ (\A i \in Run : ReadingSuits(run[i]))' /\ OncePerCamp'
    BY <1>4 DEF DailyInv, StopsForAReason, OncePerCamp
  <1> QED
    BY <1>6, <1>7, <1>8, <1>9 DEF DailyInv

LEMMA ChangeInv ==
  ASSUME DailyInv, NEW p \in Person, NEW state \in {"HEALTHY", "AWAY", "DEAD"}, Change(p, state)
  PROVE  DailyInv'
  <1>1. UNCHANGED <<stock, logged, run, served, refused, taken, failed>>
    BY DEF Change
  <1>2. DailyTypeOK'
    <2>1. DailyTypeOK
      BY DEF DailyInv
    <2>2. status' \in [Person -> {"HEALTHY", "AWAY", "DEAD"}] /\ changes' \in 0 .. MaxChanges
      BY <2>1, DailyTypes, DailyAssumption DEF Change
    <2> QED
      BY <1>1, <2>1, <2>2, DailyTypes, DailyTyped
  <1>3. PortionsLogged' /\ StopsForAReason' /\ OncePerCamp'
    BY <1>1 DEF DailyInv, PortionsLogged, StopsForAReason, OncePerCamp
  <1>4. (\A i \in Run : ReadingSuits(run[i]))'
    BY <1>1 DEF DailyInv
  <1>5. ThereUnlessTaken'
    BY <1>1 DEF DailyInv, ThereUnlessTaken, TakenByOthers, Cell, Here
  <1> QED
    BY <1>2, <1>3, <1>4, <1>5 DEF DailyInv

-----------------------------------------------------------------------------
LEMMA Negated ==
  ASSUME NEW a \in Nat, NEW b \in Nat
  PROVE  -a * b = -(a * b)
  OBVIOUS

LEMMA Distributed ==
  ASSUME NEW a \in Nat, NEW b \in Int, NEW c \in Nat, NEW l \in Int, -l = a * b
  PROVE  -(l + (-c * a)) = a * (b + c)
  OBVIOUS

(* What a portion for each of n people needs, and what it leaves. *)
LEMMA GiveFacts ==
  ASSUME DailyInv, NEW j \in Run, NEW r \in Resource, Give(j, r)
  PROVE  \E c \in RunState, x \in Row, n \in Nat, s \in RunState :
           /\ c = run[j] /\ x = Cell(j, r) /\ x = <<Camps[c.camp], r>>
           /\ n = Portions(c.amount[r], r, c.people) /\ n > 0
           /\ c.kind = "rations" /\ r \in c.todo /\ ReadingSuits(c) /\ c.step = "apply"
           /\ c.amount[r] \in Nat /\ c.people # {} /\ IsFiniteSet(c.people)
           /\ c.people \in SUBSET Nat
           /\ n \in 0 .. Cardinality(c.people) /\ Cardinality(c.people) \in Nat
           /\ n * Need[r] \in Nat \ {0} /\ n * Need[r] <= c.amount[r] /\ Need[r] \in Nat \ {0}
           /\ (n # Cardinality(c.people) =>
                 \/ c.amount[r] - n * Need[r] < Need[r]
                 \/ c.amount[r] \in Short[r] /\ c.amount[r] - n * Need[r] = Need[r])
           /\ stock[x] \in 0 .. MaxStock /\ stock[x] >= n * Need[r]
           /\ Movement(x, "DAILY_RATION", -n * Need[r])
           /\ served' = [served EXCEPT ![j] = [served[j] EXCEPT ![x] = Recipients(n, c.people)]]
           /\ served[j][x] = {}
           /\ s = After(c, r) /\ run' = [run EXCEPT ![j] = s]
           /\ UNCHANGED <<status, refused, taken, changes, failed>>
  <1>1. run \in [Run -> RunState] /\ stock \in [Row -> 0 .. MaxStock]
    BY DailyTypes DEF DailyInv
  <1>2. PICK c \in RunState : c = run[j]
    BY <1>1
  <1>3. PICK x \in Row : x = Cell(j, r) /\ x = <<Camps[c.camp], r>>
    BY <1>2, CampsNumbered DEF Cell, Here, RunState
  <1>4. PICK n : n = Portions(c.amount[r], r, c.people)
    OBVIOUS
  <1>5. c.kind = "rations" /\ r \in c.todo /\ n > 0
    BY <1>2, <1>4 DEF Give
  <1>6. ReadingSuits(c)
    BY <1>2 DEF DailyInv
  <1>7. c.step = "apply" /\ c.people # {} /\ c.amount[r] >= 0
    BY <1>5, <1>6 DEF ReadingSuits
  <1>8. c.amount[r] \in Nat /\ c.people \in SUBSET Person
    BY <1>7 DEF RunState
  <1>9. IsFiniteSet(c.people) /\ c.people \in SUBSET Nat
    BY <1>8, DailyAssumption, FS_Subset
  <1>10. /\ n \in 0 .. Cardinality(c.people) /\ n * Need[r] \in Nat /\ n * Need[r] <= c.amount[r]
         /\ n > 0 => Need[r] # 0 /\ n * Need[r] > 0
         /\ Need[r] # 0 /\ n # Cardinality(c.people) =>
              \/ c.amount[r] - n * Need[r] < Need[r]
              \/ c.amount[r] \in Short[r] /\ c.amount[r] - n * Need[r] = Need[r]
    BY <1>4, <1>8, <1>9, PortionsFit
  <1>11. Cardinality(c.people) \in Nat /\ Need[r] \in Nat
    BY <1>9, FS_CardinalityType, DailyAssumption
  <1>12. n \in Nat /\ n * Need[r] \in Nat \ {0} /\ Need[r] \in Nat \ {0}
    BY <1>5, <1>10, <1>11
  <1>13. stock[x] \in 0 .. MaxStock
    BY <1>1
  <1>14. /\ stock[x] >= n * Need[r] /\ Movement(x, "DAILY_RATION", -n * Need[r])
         /\ run' = [run EXCEPT ![j] = After(c, r)]
         /\ UNCHANGED <<status, refused, taken, changes, failed>>
    <2>1. /\ Enough(j, r, n) /\ Movement(x, "DAILY_RATION", -n * Need[r])
          /\ run' = [run EXCEPT ![j] = After(c, r)]
          /\ UNCHANGED <<status, refused, taken, changes, failed>>
      BY <1>2, <1>3, <1>4 DEF Give, RunBecomes
    <2>2. stock[x] > n * Need[r] \/ stock[x] >= n * Need[r]
      BY <1>3, <2>1 DEF Enough
    <2>3. stock[x] \in Int /\ n * Need[r] \in Int
      BY <1>12, <1>13, DailyAssumption
    <2>4. stock[x] >= n * Need[r]
      BY <2>2, <2>3
    <2> QED
      BY <2>1, <2>4
  <1>15. served' = [served EXCEPT ![j] = [served[j] EXCEPT ![x] = Recipients(n, c.people)]]
    BY <1>2, <1>3, <1>4 DEF Give
  <1>16. served[j][x] = {}
    <2>1. c.camp \in DOMAIN Camps /\ Ahead(c, c.camp, r)
      BY <1>5 DEF Ahead, RunState
    <2> QED
      BY <1>2, <1>3, <2>1 DEF DailyInv, OncePerCamp
  <1>17. PICK s : s = After(c, r)
    OBVIOUS
  <1>18. s \in RunState
    BY <1>5, <1>6, <1>17, AfterFollows DEF Follows, Goes
  <1> QED
    BY <1>2, <1>3, <1>4, <1>5, <1>6, <1>7, <1>8, <1>9, <1>10, <1>11, <1>12, <1>13, <1>14, <1>15,
       <1>16, <1>17, <1>18

LEMMA GiveInv ==
  ASSUME DailyInv, NEW j \in Run, NEW r \in Resource, Give(j, r)
  PROVE  DailyInv'
  <1>1. PICK c \in RunState, x \in Row, n \in Nat, s \in RunState :
           /\ c = run[j] /\ x = Cell(j, r) /\ x = <<Camps[c.camp], r>>
           /\ n = Portions(c.amount[r], r, c.people) /\ n > 0
           /\ c.kind = "rations" /\ r \in c.todo /\ ReadingSuits(c) /\ c.step = "apply"
           /\ c.amount[r] \in Nat /\ c.people # {} /\ IsFiniteSet(c.people)
           /\ c.people \in SUBSET Nat
           /\ n \in 0 .. Cardinality(c.people) /\ Cardinality(c.people) \in Nat
           /\ n * Need[r] \in Nat \ {0} /\ n * Need[r] <= c.amount[r] /\ Need[r] \in Nat \ {0}
           /\ (n # Cardinality(c.people) =>
                 \/ c.amount[r] - n * Need[r] < Need[r]
                 \/ c.amount[r] \in Short[r] /\ c.amount[r] - n * Need[r] = Need[r])
           /\ stock[x] \in 0 .. MaxStock /\ stock[x] >= n * Need[r]
           /\ Movement(x, "DAILY_RATION", -n * Need[r])
           /\ served' = [served EXCEPT ![j] = [served[j] EXCEPT ![x] = Recipients(n, c.people)]]
           /\ served[j][x] = {}
           /\ s = After(c, r) /\ run' = [run EXCEPT ![j] = s]
           /\ UNCHANGED <<status, refused, taken, changes, failed>>
    BY GiveFacts
  <1>2. /\ run \in [Run -> RunState] /\ DailyTypeOK /\ PortionsLogged
        /\ served \in [Run -> [Row -> SUBSET Person]]
    BY DailyTypes DEF DailyInv
  <1>3. PICK R \in SUBSET c.people : R = Recipients(n, c.people) /\ Cardinality(R) = n
    BY <1>1, RecipientsCounted
  <1>4. R # {} /\ R \subseteq Person
    <2>1. Cardinality(R) # 0
      BY <1>1, <1>3
    <2>2. R # {}
      BY <2>1, FS_EmptySet
    <2>3. c.people \subseteq Person
      BY DEF RunState
    <2> QED
      BY <1>3, <2>2, <2>3
  <1>5. /\ served' \in [Run -> [Row -> SUBSET Person]] /\ served'[j][x] = R
        /\ \A i \in Run, y \in Row : i # j \/ y # x => served'[i][y] = served[i][y]
    BY <1>1, <1>2, <1>3, <1>4
  <1>6. PICK d \in Int : d = -n * Need[r] /\ d < 0 /\ stock[x] + d \in 0 .. MaxStock
    <2>1. PICK z \in Nat : z = n * Need[r] /\ z > 0 /\ stock[x] >= z
      BY <1>1
    <2>2. -n * Need[r] = -z
      BY <1>1, <2>1, Negated
    <2>3. stock[x] \in 0 .. MaxStock /\ stock[x] >= z /\ MaxStock \in Nat
      BY <1>1, <2>1, DailyAssumption
    <2>4. -z \in Int /\ -z < 0 /\ stock[x] + (-z) \in 0 .. MaxStock
      BY <2>1, <2>3
    <2> QED
      BY <2>2, <2>4
  <1>7. /\ stock' \in [Row -> 0 .. MaxStock] /\ logged' \in [Row -> [LogType -> Int]]
        /\ stock'[x] = stock[x] + d /\ \A y \in Row : y # x => stock'[y] = stock[y]
        /\ \A y \in Row, u \in LogType :
             logged'[y][u] = IF y = x /\ u = "DAILY_RATION" THEN logged[y][u] + d ELSE logged[y][u]
    <2>1. Movement(x, "DAILY_RATION", d)
      BY <1>1, <1>6
    <2> QED
      BY <1>2, <1>6, <2>1, Moved DEF LogType
  <1>8. Goes(c, s) /\ s.step # "failed" /\ r \notin s.todo /\ ~Ahead(s, c.camp, r)
    BY <1>1, AfterFollows DEF Follows
  <1>9. s.kind = "rations" => \A q \in s.todo : q \in c.todo /\ s.camp = c.camp /\ s.amount = c.amount
    BY <1>1, AfterFollows DEF Follows
  <1>10. /\ run' \in [Run -> RunState]
         /\ run'[j] = s /\ \A i \in Run \ {j} : run'[i] = run[i]
         /\ StopsForAReason'
         /\ (\A i \in Run : ReadingSuits(run[i]))'
    BY <1>1, <1>8, RunMoves
  <1>11. DailyTypeOK'
    BY <1>1, <1>2, <1>5, <1>7, <1>10, DailyTypes, DailyTyped
  <1>12. PortionsLogged'
    <2> SUFFICES ASSUME NEW y \in Row
                 PROVE  -logged'[y]["DAILY_RATION"]
                          = Need[y[2]] * SumFunction([i \in Run |-> Cardinality(served'[i][y])])
      BY DEF PortionsLogged
    <2>1. -logged[y]["DAILY_RATION"]
            = Need[y[2]] * SumFunction([i \in Run |-> Cardinality(served[i][y])])
      BY <1>2 DEF PortionsLogged
    <2>2. CASE y # x
      <3>1. \A i \in Run : served'[i][y] = served[i][y]
        BY <1>5, <2>2
      <3>2. [i \in Run |-> Cardinality(served'[i][y])] = [i \in Run |-> Cardinality(served[i][y])]
        BY <3>1
      <3>3. logged'[y]["DAILY_RATION"] = logged[y]["DAILY_RATION"]
        BY <1>7, <2>2 DEF LogType
      <3> QED
        BY <2>1, <3>2, <3>3
    <2>3. CASE y = x
      <3>1. PICK f : f = [i \in Run |-> Cardinality(served[i][x])]
        OBVIOUS
      <3>2. PICK g : g = [i \in Run |-> Cardinality(served'[i][x])]
        OBVIOUS
      <3>3. IsFiniteSet(Run) /\ DOMAIN f = Run /\ DOMAIN g = Run
        BY <3>1, <3>2, DailyAssumption
      <3>4. \A i \in Run : f[i] \in Int
        <4>1. \A i \in Run : IsFiniteSet(served[i][x])
          BY <1>2, DailyAssumption, FS_Subset
        <4> QED
          BY <3>1, <4>1, FS_CardinalityType
      <3>5. f[j] = 0 /\ g[j] = n
        BY <1>1, <1>3, <1>5, <3>1, <3>2, FS_EmptySet
      <3>6. \A i \in Run : g[i] = IF i = j THEN f[i] + n ELSE f[i]
        BY <1>5, <3>1, <3>2, <3>5
      <3>7. SumFunctionOnSet(g, Run) = SumFunctionOnSet(f, Run) + n
        BY <3>3, <3>4, <3>6, SumDiffers
      <3>8. SumFunctionOnSet(f, Run) \in Int
        BY <3>3, <3>4, SumTyped
      <3>9. SumFunction(f) = SumFunctionOnSet(f, Run) /\ SumFunction(g) = SumFunctionOnSet(g, Run)
        BY <3>3 DEF SumFunction
      <3>10. x[2] = r
        BY <1>1
      <3>11. logged[x]["DAILY_RATION"] \in Int
        BY <1>2, DailyTypes DEF LogType
      <3>12. logged'[x]["DAILY_RATION"] = logged[x]["DAILY_RATION"] + (-n * Need[r])
        BY <1>6, <1>7 DEF LogType
      <3>13. -logged[x]["DAILY_RATION"] = Need[r] * SumFunctionOnSet(f, Run)
        BY <2>1, <2>3, <3>1, <3>9, <3>10
      <3>14. -(logged[x]["DAILY_RATION"] + (-n * Need[r])) = Need[r] * (SumFunctionOnSet(f, Run) + n)
        BY <1>1, <3>8, <3>11, <3>13, Distributed
      <3> QED
        BY <2>3, <3>2, <3>7, <3>9, <3>10, <3>12, <3>14
    <2> QED
      BY <2>2, <2>3
  <1>13. OncePerCamp'
    <2> SUFFICES ASSUME NEW i \in Run, NEW k \in DOMAIN Camps, NEW q \in Resource,
                        Ahead(run'[i], k, q)
                 PROVE  served'[i][<<Camps[k], q>>] = {}
      BY DEF OncePerCamp
    <2>1. <<Camps[k], q>> \in Row
      BY CampsNumbered
    <2>2. CASE i # j
      BY <1>5, <1>10, <2>1, <2>2 DEF DailyInv, OncePerCamp
    <2>3. CASE i = j
      <3>1. Ahead(s, k, q) /\ Ahead(c, k, q)
        BY <1>8, <1>10, <2>3 DEF Goes
      <3>2. <<Camps[k], q>> # x
        <4> SUFFICES ASSUME <<Camps[k], q>> = x PROVE FALSE
          OBVIOUS
        <4>1. q = r /\ Camps[k] = Camps[c.camp] /\ c.camp \in DOMAIN Camps
          BY <1>1 DEF RunState
        <4>2. k = c.camp
          BY <4>1, CampsNumbered
        <4> QED
          BY <1>8, <3>1, <4>1, <4>2
      <3> QED
        BY <1>1, <1>5, <2>1, <2>3, <3>1, <3>2 DEF DailyInv, OncePerCamp
    <2> QED
      BY <2>2, <2>3
  <1>14. ThereUnlessTaken'
    <2> SUFFICES ASSUME NEW i \in Run, NEW q \in run'[i].todo, run'[i].kind = "rations"
                 PROVE  stock'[Cell(i, q)'] >= run'[i].amount[q] \/ TakenByOthers(i, Cell(i, q))'
      BY DEF ThereUnlessTaken
    <2>1. \A k \in Run, y \in Row : served[k][y] # {} => served'[k][y] # {}
      BY <1>4, <1>5
    <2>2. CASE i # j
      <3>1. run'[i] = run[i]
        BY <1>10, <2>2
      <3>2. Cell(i, q) \in Row /\ Cell(i, q)' = Cell(i, q)
        BY <1>2, <3>1, CampsNumbered DEF Cell, Here, RunState
      <3>3. stock'[Cell(i, q)] >= stock[Cell(i, q)] \/ TakenByOthers(i, Cell(i, q))'
        <4>1. CASE Cell(i, q) # x
          <5>1. stock[Cell(i, q)] \in Int
            BY <1>2, <3>2, DailyTypes, DailyAssumption
          <5> QED
            BY <1>7, <3>2, <4>1, <5>1
        <4>2. CASE Cell(i, q) = x
          BY <1>4, <1>5, <2>2, <3>2, <4>2 DEF TakenByOthers
        <4> QED
          BY <4>1, <4>2
      <3> QED
        BY <1>1, <1>7, <2>1, <3>1, <3>3, StillBacked
    <2>3. CASE i = j
      <3>1. q \in c.todo /\ q # r /\ s.camp = c.camp /\ s.amount = c.amount /\ run'[j] = s
        BY <1>8, <1>9, <1>10, <2>3
      <3>2. PICK y \in Row : y = Cell(j, q) /\ y = <<Camps[c.camp], q>>
        BY <1>1, <3>1, CampsNumbered DEF Cell, Here, RunState
      <3>3. Cell(j, q)' = y /\ y # x
        BY <1>1, <3>1, <3>2 DEF Cell, Here
      <3>4. stock[y] >= c.amount[q] \/ TakenByOthers(j, y)
        BY <1>1, <3>1, <3>2 DEF DailyInv, ThereUnlessTaken
      <3>5. stock'[y] = stock[y]
        BY <1>7, <3>3
      <3>6. TakenByOthers(j, y) => TakenByOthers(j, y)'
        BY <1>1, <2>1 DEF TakenByOthers
      <3>7. stock'[y] >= run'[j].amount[q] \/ TakenByOthers(j, y)'
        BY <3>1, <3>4, <3>5, <3>6
      <3>8. TakenByOthers(j, y)' => TakenByOthers(j, Cell(j, q))'
        BY <3>3 DEF TakenByOthers
      <3> QED
        BY <2>3, <3>3, <3>7, <3>8
    <2> QED
      BY <2>2, <2>3
  <1> QED
    BY <1>10, <1>11, <1>12, <1>13, <1>14 DEF DailyInv

-----------------------------------------------------------------------------
(* No run has begun, and the opening stock is all that is logged. *)
LEMMA DailyInitially == DailyInit => DailyInv
  <1> SUFFICES ASSUME DailyInit PROVE DailyInv
    OBVIOUS
  <1>1. Unread \in [Resource -> Int] /\ 1 \in DOMAIN Camps
    BY CampsNumbered DEF Unread
  <1>2. \A j \in Run : /\ run[j] \in RunState /\ run[j].step = "idle" /\ run[j].todo = {}
    BY <1>1 DEF DailyInit, RunState
  <1>3. run \in [Run -> RunState]
    BY <1>2 DEF DailyInit
  <1>4. stock \in [Row -> 0 .. MaxStock]
    BY DailyAssumption DEF DailyInit
  <1>5. logged \in [Row -> [LogType -> Int]]
    BY <1>4, DailyAssumption DEF DailyInit
  <1>6. DailyTypeOK
    BY <1>3, <1>4, <1>5, DailyAssumption DEF DailyInit, DailyTypeOK, RunState
  <1>7. PortionsLogged
    <2> SUFFICES ASSUME NEW x \in Row
                 PROVE  -logged[x]["DAILY_RATION"]
                          = Need[x[2]] * SumFunction([j \in Run |-> Cardinality(served[j][x])])
      BY DEF PortionsLogged
    <2>1. PICK g : g = [j \in Run |-> Cardinality(served[j][x])]
      OBVIOUS
    <2>2. DOMAIN g = Run /\ IsFiniteSet(Run) /\ \A j \in Run : g[j] = 0
      BY <2>1, FS_EmptySet, DailyAssumption DEF DailyInit
    <2>3. SumFunctionOnSet(g, Run) = 0
      <3>1. CASE Run = {}
        BY <2>2, <3>1, SumStep
      <3>2. CASE Run # {}
        BY <2>2, <3>2, SumOfOne
      <3> QED
        BY <3>1, <3>2
    <2>4. SumFunction(g) = 0
      BY <2>2, <2>3 DEF SumFunction
    <2>5. logged[x]["DAILY_RATION"] = 0
      BY DEF DailyInit, LogType
    <2>6. Need[x[2]] \in Nat
      BY DailyAssumption DEF Row
    <2> QED
      BY <2>1, <2>4, <2>5, <2>6
  <1>8. StopsForAReason /\ \A j \in Run : ReadingSuits(run[j])
    BY <1>2 DEF StopsForAReason, ReadingSuits
  <1>9. OncePerCamp
    BY CampsNumbered DEF OncePerCamp, DailyInit
  <1>10. ThereUnlessTaken
    BY <1>2 DEF ThereUnlessTaken
  <1> QED
    BY <1>6, <1>7, <1>8, <1>9, <1>10 DEF DailyInv

LEMMA DailyStutters ==
  ASSUME DailyInv, UNCHANGED dailyVars
  PROVE  DailyInv'
  <1>1. UNCHANGED <<stock, logged, status, run, served, refused, taken, changes, failed>>
    BY DEF dailyVars
  <1>2. DailyTypeOK' /\ PortionsLogged' /\ StopsForAReason' /\ OncePerCamp'
    BY <1>1 DEF DailyInv, DailyTypeOK, PortionsLogged, StopsForAReason, OncePerCamp
  <1>3. (\A i \in Run : ReadingSuits(run[i]))'
    BY <1>1 DEF DailyInv
  <1>4. ThereUnlessTaken'
    BY <1>1 DEF DailyInv, ThereUnlessTaken, TakenByOthers, Cell, Here
  <1> QED
    BY <1>2, <1>3, <1>4 DEF DailyInv

LEMMA DailyStep == DailyInv /\ [DailyNext]_dailyVars => DailyInv'
  <1> SUFFICES ASSUME DailyInv, [DailyNext]_dailyVars PROVE DailyInv'
    OBVIOUS
  <1>1. ASSUME NEW j \in Run, ProceedRun(j)
        PROVE  DailyInv'
    BY <1>1, StartInv, ReadPeopleInv, ReadStockInv, WithholdInv, GiveInv, RefuseInv, GainInv
    DEF ProceedRun
  <1>2. ASSUME NEW j \in Run, FailRun(j)
        PROVE  DailyInv'
    BY <1>2, FailRunInv
  <1>3. ASSUME NEW x \in Row, NEW d \in {-1, 1}, Other(x, d)
        PROVE  DailyInv'
    BY <1>3, OtherInv
  <1>4. ASSUME NEW p \in Person, NEW state \in {"HEALTHY", "AWAY", "DEAD"}, Change(p, state)
        PROVE  DailyInv'
    BY <1>4, ChangeInv
  <1>5. CASE UNCHANGED dailyVars
    BY <1>5, DailyStutters
  <1> QED
    BY <1>1, <1>2, <1>3, <1>4, <1>5 DEF DailyNext

(***************************************************************************)
(* DailyInv, for any camps, people, resources and runs that overlap: the   *)
(* rations that are logged are the portions people got, a run serves a row *)
(* once, and what a run is about to give was there when it read, and goes  *)
(* by others only (daily-rations.job.ts, consumeInventoryWithLog).         *)
(***************************************************************************)
THEOREM PortionsAreLogged == DailySpec => []DailyInv
  BY DailyInitially, DailyStep, PTL DEF DailySpec

-----------------------------------------------------------------------------
(***************************************************************************)
(* A refusal finds less than was read, and so another has taken from the   *)
(* row; or just what it asks for, before the rounding error.               *)
(***************************************************************************)
LEMMA RefusalsAreDue ==
  ASSUME DailyInv, NEW j \in Run, NEW r \in Resource, Refuse(j, r),
         NEW n, n = Portions(run[j].amount[r], r, run[j].people)
  PROVE  \/ TakenByOthers(j, Cell(j, r))
         \/ /\ run[j].engine = "worker" /\ n \in Excess[r]
            /\ stock[Cell(j, r)] = n * Need[r]
  <1>1. /\ run[j] \in RunState /\ stock \in [Row -> 0 .. MaxStock]
    BY DailyTypes DEF DailyInv
  <1>2. PICK c \in RunState : c = run[j]
    BY <1>1
  <1>3. PICK x \in Row : x = Cell(j, r)
    BY <1>2, CampsNumbered DEF Cell, Here, RunState
  <1>4. n = Portions(c.amount[r], r, c.people)
    BY <1>2
  <1>5. c.kind = "rations" /\ r \in c.todo /\ ~Enough(j, r, n) /\ ReadingSuits(c)
    BY <1>2, <1>3, <1>4 DEF Refuse, DailyInv
  <1>6. c.amount[r] \in Nat /\ IsFiniteSet(c.people)
    <2>1. c.amount[r] >= 0 /\ c.amount[r] \in Int /\ c.people \in SUBSET Person
      BY <1>5 DEF ReadingSuits, RunState
    <2> QED
      BY <2>1, DailyAssumption, FS_Subset
  <1>7. n * Need[r] \in Nat /\ n * Need[r] <= c.amount[r]
    BY <1>4, <1>6, PortionsFit
  <1>8. stock[x] \in Nat
    BY <1>1, DailyAssumption
  <1>9. stock[x] >= c.amount[r] \/ TakenByOthers(j, x)
    BY <1>2, <1>3, <1>5 DEF DailyInv, ThereUnlessTaken
  <1>10. /\ stock[x] >= c.amount[r] => stock[x] >= n * Need[r]
         /\ stock[x] >= n * Need[r] /\ ~(stock[x] > n * Need[r]) => stock[x] = n * Need[r]
    BY <1>6, <1>7, <1>8
  <1> QED
    BY <1>2, <1>3, <1>5, <1>9, <1>10 DEF Enough

(***************************************************************************)
(* RefusedForAnother, for any runs that overlap: consumeInventoryWithLog   *)
(* refuses a run only after another run, or another transaction, has taken *)
(* from the row it read; the worker, also for a rounding error.            *)
(***************************************************************************)
THEOREM NobodyIsRefusedInVain == DailySpec => RefusedForAnother
  <1>1. DailyInv /\ [DailyNext]_dailyVars
          => [\A j \in Run, r \in Resource :
                LET n == Portions(run[j].amount[r], r, run[j].people) IN
                Refuse(j, r) =>
                  \/ TakenByOthers(j, Cell(j, r))
                  \/ /\ run[j].engine = "worker" /\ n \in Excess[r]
                     /\ stock[Cell(j, r)] = n * Need[r]]_dailyVars
    BY RefusalsAreDue
  <1> QED
    BY <1>1, PortionsAreLogged, PTL DEF DailySpec, RefusedForAnother

-----------------------------------------------------------------------------
(***************************************************************************)
(* A resource that is handled serves all who were there, or runs out, but  *)
(* for the one portion that division may cost.                             *)
(***************************************************************************)
LEMMA HandledIsFed ==
  ASSUME DailyInv, NEW j \in Run, NEW r \in Resource, Handles(j, r), Need[r] > 0,
         stock[Cell(j, r)] <= run[j].amount[r]
  PROVE  \/ served'[j][Cell(j, r)] = run[j].people
         \/ stock'[Cell(j, r)] < Need[r]
         \/ run[j].amount[r] \in Short[r] /\ stock'[Cell(j, r)] = Need[r]
  <1>1. CASE Withhold(j, r)
    <2>1. run[j] \in RunState /\ stock \in [Row -> 0 .. MaxStock]
      BY DailyTypes DEF DailyInv
    <2>2. PICK c \in RunState : c = run[j]
      BY <2>1
    <2>3. PICK x \in Row : x = Cell(j, r)
      BY <2>2, CampsNumbered DEF Cell, Here, RunState
    <2>4. c.kind = "rations" /\ r \in c.todo /\ ReadingSuits(c)
      BY <1>1, <2>2 DEF Withhold, DailyInv
    <2>5. c.people # {} /\ c.amount[r] \in Nat /\ IsFiniteSet(c.people)
      <3>1. /\ c.people # {} /\ c.amount[r] >= 0 /\ c.amount[r] \in Int
            /\ c.people \in SUBSET Person
        BY <2>4 DEF ReadingSuits, RunState
      <3> QED
        BY <3>1, DailyAssumption, FS_Subset
    <2>6. Portions(c.amount[r], r, c.people) = 0
      BY <1>1, <2>2 DEF Withhold
    <2>7. Need[r] # 0 /\ Need[r] \in Nat
      BY DailyAssumption
    <2>8. Cardinality(c.people) # 0
      BY <2>5, FS_EmptySet
    <2>9. \/ c.amount[r] - 0 * Need[r] < Need[r]
          \/ c.amount[r] \in Short[r] /\ c.amount[r] - 0 * Need[r] = Need[r]
      BY <2>5, <2>6, <2>7, <2>8, PortionsFit
    <2>10. stock[x] \in Nat /\ stock[x] <= c.amount[r]
      BY <2>1, <2>2, <2>3, DailyAssumption
    <2>11. \/ stock[x] < Need[r]
           \/ c.amount[r] \in Short[r] /\ stock[x] = Need[r]
      BY <2>5, <2>7, <2>9, <2>10
    <2> QED
      BY <1>1, <2>2, <2>3, <2>11 DEF Withhold
  <1>2. CASE Give(j, r)
    <2>1. PICK c \in RunState, x \in Row, n \in Nat :
            /\ c = run[j] /\ x = Cell(j, r) /\ IsFiniteSet(c.people) /\ c.people \in SUBSET Nat
            /\ c.amount[r] \in Nat /\ n * Need[r] \in Nat \ {0} /\ Need[r] \in Nat \ {0}
            /\ (n # Cardinality(c.people) =>
                  \/ c.amount[r] - n * Need[r] < Need[r]
                  \/ c.amount[r] \in Short[r] /\ c.amount[r] - n * Need[r] = Need[r])
            /\ stock[x] \in 0 .. MaxStock /\ Movement(x, "DAILY_RATION", -n * Need[r])
            /\ served' = [served EXCEPT ![j] = [served[j] EXCEPT ![x] = Recipients(n, c.people)]]
      BY <1>2, GiveFacts
    <2>2. CASE n = Cardinality(c.people)
      <3>1. Recipients(n, c.people) = c.people
        BY <2>1, <2>2, EverybodyServed
      <3>2. served'[j][x] = Recipients(n, c.people)
        <4>1. served \in [Run -> [Row -> SUBSET Person]]
          BY DailyTypes DEF DailyInv
        <4> QED
          BY <2>1, <4>1
      <3> QED
        BY <2>1, <3>1, <3>2
    <2>3. CASE n # Cardinality(c.people)
      <3>1. PICK z \in Nat : z = n * Need[r]
        BY <2>1
      <3>2. -n * Need[r] = -z
        BY <2>1, <3>1, Negated
      <3>3. stock'[x] = stock[x] + (-n * Need[r])
        <4>1. stock \in [Row -> 0 .. MaxStock]
          BY DailyTypes DEF DailyInv
        <4> QED
          BY <2>1, <4>1 DEF Movement
      <3>4. /\ stock[x] \in Nat /\ stock[x] <= c.amount[r]
            /\ c.amount[r] - z < Need[r] \/ (c.amount[r] \in Short[r] /\ c.amount[r] - z = Need[r])
        BY <2>1, <2>3, <3>1, DailyAssumption
      <3>5. \/ stock[x] + (-z) < Need[r]
            \/ c.amount[r] \in Short[r] /\ stock[x] + (-z) = Need[r]
        <4>1. c.amount[r] \in Nat /\ Need[r] \in Nat
          BY <2>1
        <4>2. /\ c.amount[r] - z < Need[r] => stock[x] + (-z) < Need[r]
              /\ c.amount[r] - z = Need[r] =>
                   stock[x] + (-z) < Need[r] \/ stock[x] + (-z) = Need[r]
          BY <3>4, <4>1, LeftOver
        <4> QED
          BY <3>4, <4>2
      <3>6. stock'[x] = stock[x] + (-z)
        BY <3>2, <3>3
      <3>7. stock'[x] < Need[r] \/ (c.amount[r] \in Short[r] /\ stock'[x] = Need[r])
        BY <3>5, <3>6
      <3> QED
        BY <2>1, <3>7
    <2> QED
      BY <2>2, <2>3
  <1> QED
    BY <1>1, <1>2 DEF Handles

(***************************************************************************)
(* FedAsFarAsItGoes, for any people and needs: distributeResource serves   *)
(* all who were there or leaves less than a portion, unless the stock has  *)
(* grown since it was read; the division of doubles costs one at most.     *)
(***************************************************************************)
THEOREM NobodyGoesWithout == DailySpec => FedAsFarAsItGoes
  <1>1. DailyInv /\ [DailyNext]_dailyVars
          => [\A j \in Run, r \in Resource :
                Handles(j, r) /\ Need[r] > 0 /\ stock[Cell(j, r)] <= run[j].amount[r] =>
                  \/ served'[j][Cell(j, r)] = run[j].people
                  \/ stock'[Cell(j, r)] < Need[r]
                  \/ run[j].amount[r] \in Short[r] /\ stock'[Cell(j, r)] = Need[r]]_dailyVars
    BY HandledIsFed
  <1> QED
    BY <1>1, PortionsAreLogged, PTL DEF DailySpec, FedAsFarAsItGoes

-----------------------------------------------------------------------------
(* The sum of all logs of each row. *)
Logs(x) == SumFunction(logged[x])

LEMMA LogTypesFinite == IsFiniteSet(LogType)
  <1>1. IsFiniteSet({"DAILY_RATION"})
    BY FS_Singleton
  <1>2. IsFiniteSet({"DAILY_RATION"} \cup {"DAILY_GAIN"})
    BY <1>1, FS_AddElement
  <1>3. IsFiniteSet({"DAILY_RATION"} \cup {"DAILY_GAIN"} \cup {"OPENING"})
    BY <1>2, FS_AddElement
  <1>4. IsFiniteSet({"DAILY_RATION"} \cup {"DAILY_GAIN"} \cup {"OPENING"} \cup {"OTHER"})
    BY <1>3, FS_AddElement
  <1>5. LogType = {"DAILY_RATION"} \cup {"DAILY_GAIN"} \cup {"OPENING"} \cup {"OTHER"}
    BY DEF LogType
  <1> QED
    BY <1>4, <1>5

(* A movement changes the sum of the logs by what it changes the stock. *)
LEMMA MovementIsLogged ==
  ASSUME DailyTypeOK, NEW CONSTANT x \in Row, NEW CONSTANT t \in LogType, NEW CONSTANT d \in Int,
         stock[x] + d \in 0 .. MaxStock, Movement(x, t, d)
  PROVE  \A y \in Row : /\ Logs(y)' = IF y = x THEN Logs(y) + d ELSE Logs(y)
                        /\ Logs(y) \in Int
  <1>1. logged \in [Row -> [LogType -> Int]] /\ logged' \in [Row -> [LogType -> Int]]
    BY DailyTypes, Moved
  <1>2. \A y \in Row, u \in LogType :
          logged'[y][u] = IF y = x /\ u = t THEN logged[y][u] + d ELSE logged[y][u]
    BY Moved
  <1> SUFFICES ASSUME NEW y \in Row
               PROVE  /\ Logs(y)' = IF y = x THEN Logs(y) + d ELSE Logs(y)
                      /\ Logs(y) \in Int
    OBVIOUS
  <1>3. PICK f : f = logged[y]
    OBVIOUS
  <1>4. PICK g : g = logged'[y]
    OBVIOUS
  <1>5. /\ DOMAIN f = LogType /\ DOMAIN g = LogType
        /\ \A u \in LogType : f[u] \in Int
        /\ \A u \in LogType : g[u] = IF y = x /\ u = t THEN f[u] + d ELSE f[u]
        /\ f \in [LogType -> Int] /\ g \in [LogType -> Int]
    BY <1>1, <1>2, <1>3, <1>4
  <1>6. SumFunctionOnSet(f, LogType) \in Int
    BY <1>5, LogTypesFinite, SumTyped
  <1>7. Logs(y) = SumFunctionOnSet(f, LogType) /\ Logs(y)' = SumFunctionOnSet(g, LogType)
    BY <1>3, <1>4, <1>5 DEF Logs, SumFunction
  <1>8. CASE y = x
    <2>1. SumFunctionOnSet(g, LogType) = SumFunctionOnSet(f, LogType) + d
      BY <1>5, <1>8, LogTypesFinite, SumDiffers
    <2> QED
      BY <1>6, <1>7, <1>8, <2>1
  <1>9. CASE y # x
    <2>1. f = g
      BY <1>5, <1>9
    <2> QED
      BY <1>6, <1>7, <1>9, <2>1
  <1> QED
    BY <1>8, <1>9

(* A movement by an operation of the workload is a step of the ledger. *)
LEMMA MovementIsOneOperation ==
  ASSUME DailyTypeOK, NEW CONSTANT x \in Row, NEW CONSTANT t \in LogType, NEW CONSTANT d \in Int,
         stock[x] + d \in 0 .. MaxStock, Movement(x, t, d),
         NEW o \in DailyWorkload, o.delta = [y \in Row |-> IF y = x THEN d ELSE 0]
  PROVE  Ledger!LedgerNext
  <1>1. /\ stock' \in [Row -> 0 .. MaxStock] /\ stock \in [Row -> 0 .. MaxStock]
        /\ stock'[x] = stock[x] + d /\ \A y \in Row : y # x => stock'[y] = stock[y]
    BY Moved, DailyTypes
  <1>2. \A y \in Row : /\ Logs(y)' = IF y = x THEN Logs(y) + d ELSE Logs(y)
                       /\ Logs(y) \in Int
    BY MovementIsLogged
  <1>3. \A y \in Row : stock[y] \in Int /\ stock[y] >= 0
    BY <1>1, DailyAssumption
  <1>4. \A y \in Row : stock[y] + o.delta[y] >= 0
    BY <1>3, DailyAssumption
  <1>5. stock' = [y \in Row |-> stock[y] + o.delta[y]]
    BY <1>1, <1>3
  <1>6. [y \in Row |-> Logs(y)'] = [y \in Row |-> Logs(y) + o.delta[y]]
    BY <1>2
  <1>7. [y \in Row |-> SumFunction(logged'[y])]
          = [y \in Row |-> [z \in Row |-> SumFunction(logged[z])][y] + o.delta[y]]
    BY <1>6 DEF Logs
  <1>8. Ledger!Row = Row
    BY DEF Ledger!Row, Row
  <1>9. Ledger!Apply(o)
    BY <1>4, <1>5, <1>7, <1>8 DEF Ledger!Apply, Ledger!Affordable
  <1> QED
    BY <1>9 DEF Ledger!LedgerNext

LEMMA OperationsOfJobs ==
  ASSUME NEW x \in Row, NEW d \in 1 .. MaxStock
  PROVE  /\ \E o \in DailyWorkload : o.delta = [y \in Row |-> IF y = x THEN d ELSE 0]
         /\ \E o \in DailyWorkload : o.delta = [y \in Row |-> IF y = x THEN -d ELSE 0]
  <1>1. Operations!Row = Row
    BY DEF Operations!Row, Row
  <1>2. d \in Operations!Qty
    BY DEF Operations!Qty
  <1> DEFINE gain == Operations!OneRow("DAILY_GAIN", x, d)
             ration == Operations!OneRow("DAILY_RATION", x, -d)
  <1>3. gain.delta = [y \in Row |-> IF y = x THEN d ELSE 0]
    BY <1>1 DEF Operations!OneRow, Operations!Only, Operations!NoChange
  <1>4. ration.delta = [y \in Row |-> IF y = x THEN -d ELSE 0]
    BY <1>1 DEF Operations!OneRow, Operations!Only, Operations!NoChange
  <1>5. gain \in DailyWorkload /\ ration \in DailyWorkload
    BY <1>1, <1>2 DEF DailyWorkload, Operations!Gains, Operations!Consumptions
  <1> HIDE DEF gain, ration
  <1> QED
    BY <1>3, <1>4, <1>5

LEMMA AdjustmentsByOne ==
  ASSUME NEW x \in Row, NEW d \in {-1, 1}, MaxStock >= 1
  PROVE  \E o \in DailyWorkload : o.delta = [y \in Row |-> IF y = x THEN d ELSE 0]
  <1>1. 1 \in 1 .. MaxStock
    BY DailyAssumption
  <1>2. CASE d = 1
    BY <1>1, <1>2, OperationsOfJobs
  <1>3. CASE d = -1
    BY <1>1, <1>3, OperationsOfJobs
  <1> QED
    BY <1>2, <1>3

(* Every step is an operation of the ledger, or leaves stocks and logs alone. *)
LEMMA LedgerOrNothing ==
  ASSUME DailyInv, [DailyNext]_dailyVars
  PROVE  Ledger!LedgerNext \/ UNCHANGED <<stock, logged>>
  <1>1. /\ run \in [Run -> RunState] /\ stock \in [Row -> 0 .. MaxStock] /\ DailyTypeOK
        /\ MaxStock \in Nat
    BY DailyTypes, DailyAssumption DEF DailyInv
  <1>2. ASSUME NEW j \in Run, NEW r \in Resource, Give(j, r)
        PROVE  Ledger!LedgerNext
    <2>1. PICK x \in Row, n \in Nat :
            /\ n * Need[r] \in Nat \ {0} /\ Need[r] \in Nat \ {0}
            /\ stock[x] \in 0 .. MaxStock /\ stock[x] >= n * Need[r]
            /\ Movement(x, "DAILY_RATION", -n * Need[r])
      BY <1>2, GiveFacts
    <2>2. PICK z \in Nat \ {0} : z = n * Need[r]
      BY <2>1
    <2>3. -n * Need[r] = -z
      BY <2>1, <2>2, Negated
    <2>4. z \in 1 .. MaxStock /\ -z \in Int /\ stock[x] + (-z) \in 0 .. MaxStock
      BY <1>1, <2>1, <2>2
    <2>5. PICK o \in DailyWorkload : o.delta = [y \in Row |-> IF y = x THEN -z ELSE 0]
      BY <2>4, OperationsOfJobs
    <2>6. PICK d \in Int : d = -z
      BY <2>4
    <2>7. Movement(x, "DAILY_RATION", d) /\ "DAILY_RATION" \in LogType
      BY <2>1, <2>3, <2>6 DEF LogType
    <2> QED
      BY <1>1, <2>4, <2>5, <2>6, <2>7, MovementIsOneOperation
  <1>3. ASSUME NEW j \in Run, NEW r \in Resource, Gain(j, r)
        PROVE  Ledger!LedgerNext
    <2>1. PICK c \in RunState : c = run[j]
      BY <1>1
    <2>2. PICK x \in Row : x = Cell(j, r)
      BY <2>1, CampsNumbered DEF Cell, Here, RunState
    <2>3. PICK d \in Int : d = c.amount[r]
      BY DEF RunState
    <2>4. d > 0
      BY <1>3, <2>1, <2>3 DEF Gain, DailyInv, ReadingSuits
    <2>5. stock[x] + d <= MaxStock /\ Movement(x, "DAILY_GAIN", d) /\ "DAILY_GAIN" \in LogType
      BY <1>3, <2>1, <2>2, <2>3 DEF Gain, LogType
    <2>6. stock[x] \in 0 .. MaxStock
      BY <1>1
    <2>7. d \in 1 .. MaxStock /\ stock[x] + d \in 0 .. MaxStock
      BY <1>1, <2>4, <2>5, <2>6
    <2>8. PICK o \in DailyWorkload : o.delta = [y \in Row |-> IF y = x THEN d ELSE 0]
      BY <2>7, OperationsOfJobs
    <2> QED
      BY <1>1, <2>5, <2>7, <2>8, MovementIsOneOperation
  <1>4. ASSUME NEW x \in Row, NEW d \in {-1, 1}, Other(x, d)
        PROVE  Ledger!LedgerNext
    <2>1. /\ d \in Int /\ stock[x] + d \in 0 .. MaxStock /\ Movement(x, "OTHER", d)
          /\ "OTHER" \in LogType
      BY <1>4 DEF Other, LogType
    <2>2. stock[x] \in 0 .. MaxStock
      BY <1>1
    <2>3. MaxStock >= 1
      BY <1>1, <2>1, <2>2
    <2>4. PICK o \in DailyWorkload : o.delta = [y \in Row |-> IF y = x THEN d ELSE 0]
      BY <2>3, AdjustmentsByOne
    <2> QED
      BY <1>1, <2>1, <2>4, MovementIsOneOperation
  <1>5. ASSUME NEW j \in Run, ProceedRun(j) \/ FailRun(j)
        PROVE  Ledger!LedgerNext \/ UNCHANGED <<stock, logged>>
    <2>1. CASE \E r \in Resource : Give(j, r) \/ Gain(j, r)
      BY <1>2, <1>3, <2>1
    <2>2. CASE ~\E r \in Resource : Give(j, r) \/ Gain(j, r)
      BY <1>5, <2>2 DEF ProceedRun, Start, ReadPeople, ReadStock, Withhold, Refuse, FailRun
    <2> QED
      BY <2>1, <2>2
  <1>6. ASSUME NEW p \in Person, NEW state \in {"HEALTHY", "AWAY", "DEAD"}, Change(p, state)
        PROVE  UNCHANGED <<stock, logged>>
    BY <1>6 DEF Change
  <1>7. CASE UNCHANGED dailyVars
    BY <1>7 DEF dailyVars
  <1> QED
    BY <1>4, <1>5, <1>6, <1>7 DEF DailyNext

(* What a deployment opens with is all that is logged. *)
LEMMA LedgerOpens == DailyInit => Ledger!LedgerInit
  <1> SUFFICES ASSUME DailyInit PROVE Ledger!LedgerInit
    OBVIOUS
  <1>1. stock \in [Row -> 0 .. MaxStock] /\ stock \in Opening
    BY DailyAssumption DEF DailyInit
  <1>2. ASSUME NEW x \in Row
        PROVE  SumFunction(logged[x]) = stock[x]
    <2>1. PICK g : g = logged[x]
      OBVIOUS
    <2>2. g = [t \in LogType |-> IF t = "OPENING" THEN stock[x] ELSE 0]
      BY <2>1 DEF DailyInit
    <2>3. /\ DOMAIN g = LogType /\ "OPENING" \in LogType
          /\ \A t \in LogType : g[t] = IF t = "OPENING" THEN stock[x] ELSE 0
      BY <2>2 DEF LogType
    <2>4. PICK d \in Int : d = stock[x]
      BY <1>1, DailyAssumption
    <2>5. SumFunctionOnSet(g, LogType) = stock[x]
      BY <2>3, <2>4, LogTypesFinite, SumOfOne
    <2> QED
      BY <2>1, <2>3, <2>5 DEF SumFunction
  <1>3. [x \in Row |-> SumFunction(logged[x])] = stock
    BY <1>1, <1>2
  <1> QED
    BY <1>1, <1>3 DEF Ledger!LedgerInit

(***************************************************************************)
(* ImplementsLedger, for any camps, people and runs: whatever rations and  *)
(* production have read before, each of their steps is one affordable      *)
(* operation of the ledger, logged as such, or none.                       *)
(***************************************************************************)
THEOREM DailyJobsRefineLedger == DailySpec => ImplementsLedger
  <1>1. DailyInv /\ [DailyNext]_dailyVars
          => [Ledger!LedgerNext]_<<stock, [x \in Row |-> SumFunction(logged[x])]>>
    BY LedgerOrNothing
  <1> QED
    BY <1>1, LedgerOpens, PortionsAreLogged, PTL
    DEF DailySpec, ImplementsLedger, Ledger!LedgerSpec, Ledger!ledgerVars
=============================================================================
