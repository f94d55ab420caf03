------------------------------ MODULE Sessions ------------------------------
(***************************************************************************)
(* auth.service.ts, session.middleware.ts and users.service.ts: the        *)
(* sessions of one account (accounts share no row).                        *)
(*                                                                         *)
(* A session is three things that no transaction ties together: an access  *)
(* token that names the session_version it was signed for, a row of        *)
(* refresh_tokens, and last_activity.  Every statement of login, refresh   *)
(* and logout commits by itself, so other calls fall between any two of    *)
(* them and a crash leaves what was done so far.  Only the middleware's    *)
(* update looks at the version again.                                      *)
(***************************************************************************)
EXTENDS Integers, FiniteSets

CONSTANTS
  Token,       \* the rows refresh_tokens may get
  Call,        \* the HTTP requests that are being handled
  MaxVersion,  \* bound: the sessions that may be ended, and one
  None         \* no token

ASSUME SessionsAssumption == MaxVersion \in Nat \ {0} /\ None \notin Token

VARIABLES
  active,     \* users.is_active
  version,    \* users.session_version
  activity,   \* users.last_activity, seen from now
  token,      \* token[t]: the state of row t of refresh_tokens
  login,      \* login[t]: the first token of the login that t continues
  signed,     \* the versions access tokens have been signed for
  call,       \* call[h]: what call h has read and does next
  contested,  \* tokens that two open calls have found at once (history)
  closed,     \* logins whose live token a logout has revoked (history)
  toucher,    \* the version of the session that last wrote activity (history)
  revived,    \* a login or refresh that a logout overtook wrote it (history)
  removed     \* deleted, and not reactivated since (history)

account == <<active, version, activity>>
history == <<contested, closed, toucher, revived, removed>>
vars    == <<active, version, activity, token, login, signed, call, history>>

Version == 1 .. MaxVersion
Op      == {"idle", "login", "refresh", "logout", "request"}
Step    == {"idle", "user", "revoke", "create", "touch", "bump", "through"}

Handling == [op : Op, step : Step, token : Token \cup {None}, version : Version]

Idle == [op |-> "idle", step |-> "idle", token |-> None, version |-> 1]

TypeOK ==
  /\ active \in BOOLEAN
  /\ version \in Version
  /\ activity \in {"none", "recent", "old"}
  /\ token \in [Token -> {"none", "live", "expired", "revoked", "deleted"}]
  /\ login \in [Token -> Token \cup {None}]
  /\ signed \subseteq Version
  /\ call \in [Call -> Handling]
  /\ contested \subseteq Token
  /\ closed \subseteq Token \cup {None}
  /\ toucher \in Version
  /\ revived \in BOOLEAN
  /\ removed \in BOOLEAN

(* createUser: active, and no session yet. *)
Init ==
  /\ active = TRUE
  /\ version = 1
  /\ activity = "none"
  /\ token = [t \in Token |-> "none"]
  /\ login = [t \in Token |-> None]
  /\ signed = {}
  /\ call = [h \in Call |-> Idle]
  /\ contested = {}
  /\ closed = {}
  /\ toucher = 1
  /\ revived = FALSE
  /\ removed = FALSE

-----------------------------------------------------------------------------
Holders(t) == {h \in Call : call[h].token = t}

Becomes(h, state) == call' = [call EXCEPT ![h] = state]
Advance(h, step)  == Becomes(h, [call[h] EXCEPT !.step = step])

(* Call h has found the row of refresh token t. *)
Proceed(h, t, op, step) ==
  /\ call[h] = Idle
  /\ Becomes(h, [Idle EXCEPT !.op = op, !.step = step, !.token = t])
  /\ contested' = IF Holders(t) # {} THEN contested \cup {t} ELSE contested
  /\ UNCHANGED <<account, token, login, signed, closed, toucher, revived, removed>>

(* session_version is incremented and last_activity cleared, in one update. *)
EndSession ==
  /\ version < MaxVersion
  /\ version' = version + 1
  /\ activity' = "none"
  /\ revived' = FALSE

-----------------------------------------------------------------------------
(* login, after the password: the version to sign is the one read here. *)
ReadForLogin(h) ==
  /\ call[h] = Idle
  /\ active
  /\ Becomes(h, [Idle EXCEPT !.op = "login", !.step = "create", !.version = version])
  /\ UNCHANGED <<account, token, login, signed, history>>

(* Mutant of ReadForRefresh: any stored token will do. *)
ReadForRefreshAny(h, t) ==
  token[t] \in {"live", "revoked"} /\ Proceed(h, t, "refresh", "user")

ReadForRefresh(h, t) ==
  token[t] = "live" /\ Proceed(h, t, "refresh", "user")

(* refresh reads the user, and the version it will sign, after the token. *)
ReadUser(h) ==
  /\ call[h].step = "user"
  /\ Becomes(h, IF active THEN [call[h] EXCEPT !.step = "revoke", !.version = version]
                ELSE Idle)
  /\ UNCHANGED <<account, token, login, signed, history>>

(* logout takes any stored token, and the user it belongs to. *)
ReadForLogout(h, t) ==
  token[t] \in {"live", "expired", "revoked"} /\ Proceed(h, t, "logout", "revoke")

(***************************************************************************)
(* refresh and logout revoke the row by id, whatever has become of it; the *)
(* update fails if the clean-up has deleted it.                            *)
(***************************************************************************)
Revoke(h) ==
  LET t == call[h].token IN
  /\ call[h].step = "revoke"
  /\ IF token[t] = "deleted"
     THEN Becomes(h, Idle) /\ UNCHANGED <<token, closed>>
     ELSE /\ token' = [token EXCEPT ![t] = "revoked"]
          /\ Advance(h, IF call[h].op = "refresh" THEN "create" ELSE "bump")
          /\ closed' = IF call[h].op = "logout" /\ token[t] = "live"
                       THEN closed \cup {login[t]} ELSE closed
  /\ UNCHANGED <<account, login, signed, contested, toucher, revived, removed>>

(* A new row, for a new login or for the one whose token was rotated. *)
CreateToken(h, t) ==
  /\ call[h].step = "create"
  /\ token[t] = "none"
  /\ token' = [token EXCEPT ![t] = "live"]
  /\ login' = [login EXCEPT ![t] = IF call[h].op = "login" THEN t ELSE login[call[h].token]]
  /\ Advance(h, "touch")
  /\ UNCHANGED <<account, signed, history>>

(* last_activity by id, and the answer, with an access token. *)
Touch(h) ==
  /\ call[h].op \in {"login", "refresh"} /\ call[h].step = "touch"
  /\ activity' = "recent"
  /\ toucher' = call[h].version
  /\ revived' = (revived \/ call[h].version # version)
  /\ signed' = signed \cup {call[h].version}
  /\ Becomes(h, Idle)
  /\ UNCHANGED <<active, version, token, login, contested, closed, removed>>

Bump(h) ==
  /\ call[h].step = "bump"
  /\ EndSession
  /\ Becomes(h, Idle)
  /\ UNCHANGED <<active, token, login, signed, contested, closed, toucher, removed>>

-----------------------------------------------------------------------------
(* sessionMiddleware: the checks on the row that was read ... *)
ReadForRequest(h, v) ==
  /\ call[h] = Idle
  /\ v \in signed
  /\ active /\ v = version /\ activity = "recent"
  /\ Becomes(h, [Idle EXCEPT !.op = "request", !.step = "touch", !.version = v])
  /\ UNCHANGED <<account, token, login, signed, history>>

(* Mutant of TouchRequest: the version is not in the condition of the update. *)
TouchAnyVersion(h) ==
  /\ call[h].op = "request" /\ call[h].step = "touch"
  /\ activity' = "recent" /\ toucher' = call[h].version
  /\ Advance(h, "through")
  /\ UNCHANGED <<active, version, token, login, signed, contested, closed,
                 revived, removed>>

(* ... and the update that counts the rows which still have the version. *)
TouchRequest(h) ==
  /\ call[h].op = "request" /\ call[h].step = "touch"
  /\ IF call[h].version = version
     THEN activity' = "recent" /\ toucher' = version /\ Advance(h, "through")
     ELSE Becomes(h, Idle) /\ UNCHANGED <<activity, toucher>>
  /\ UNCHANGED <<active, version, token, login, signed, contested, closed,
                 revived, removed>>

(* The handler the request was let through to has answered. *)
Respond(h) ==
  /\ call[h].step = "through"
  /\ Becomes(h, Idle)
  /\ UNCHANGED <<account, token, login, signed, history>>

-----------------------------------------------------------------------------
(* Mutant of DeleteUser: the account is deactivated and keeps its version. *)
DeactivateOnly ==
  /\ active' = FALSE /\ activity' = "none" /\ removed' = TRUE /\ revived' = FALSE
  /\ UNCHANGED <<version, token, login, signed, call, contested, closed, toucher>>

DeleteUser ==
  /\ EndSession
  /\ active' = FALSE
  /\ removed' = TRUE
  /\ UNCHANGED <<token, login, signed, call, contested, closed, toucher>>

(* updateUser: an administrator may set is_active and last_activity. *)
UpdateUser(a, d) ==
  /\ active' = a
  /\ activity' = d
  /\ d # activity => d # "none"
  /\ toucher' = IF d = activity THEN toucher ELSE version
  /\ removed' = (removed /\ ~a)
  /\ UNCHANGED <<version, token, login, signed, call, contested, closed, revived>>

(* cleanup_expired_tokens, in the Go worker. *)
Cleanup ==
  /\ token' = [t \in Token |->
                 IF token[t] \in {"expired", "revoked"} THEN "deleted" ELSE token[t]]
  /\ UNCHANGED <<account, login, signed, call, history>>

-----------------------------------------------------------------------------
(* Time: expires_at is over.  Of a revoked row it makes no difference. *)
Expires(t) ==
  /\ token[t] = "live"
  /\ token' = [token EXCEPT ![t] = "expired"]
  /\ UNCHANGED <<account, login, signed, call, history>>

(* INACTIVITY_TIMEOUT_MS is over. *)
Inactivity ==
  /\ activity = "recent"
  /\ activity' = "old"
  /\ UNCHANGED <<active, version, token, login, signed, call, history>>

(* A call ends between two statements, and leaves what it has done. *)
Fail(h) ==
  /\ call[h] # Idle
  /\ Becomes(h, Idle)
  /\ UNCHANGED <<account, token, login, signed, history>>

Begin(h) ==
  \/ ReadForLogin(h)
  \/ \E t \in Token : ReadForRefresh(h, t) \/ ReadForLogout(h, t)
  \/ \E v \in Version : ReadForRequest(h, v)

Continue(h) ==
  \/ ReadUser(h)
  \/ Revoke(h)
  \/ \E t \in Token : CreateToken(h, t)
  \/ Touch(h)
  \/ Bump(h)
  \/ TouchRequest(h)
  \/ Respond(h)

Next ==
  \/ \E h \in Call : Begin(h) \/ Continue(h) \/ Fail(h)
  \/ DeleteUser
  \/ \E a \in BOOLEAN, d \in {"none", "recent", "old"} : UpdateUser(a, d)
  \/ Cleanup
  \/ \E t \in Token : Expires(t)
  \/ Inactivity

Spec == Init /\ [][Next]_vars

-----------------------------------------------------------------------------
LetsThrough(h) == call[h].step # "through" /\ call'[h].step = "through"

(***************************************************************************)
(* A session that has ended stays ended: whatever calls overlap, no        *)
(* request is let through for a version that a logout or deleteUser has    *)
(* left behind, nor for an account that was deleted and that nobody has    *)
(* activated again, although the middleware read the account earlier.      *)
(***************************************************************************)
EndedStaysEnded ==
  [][\A h \in Call : LetsThrough(h) => call[h].version = version /\ ~removed]_vars

(***************************************************************************)
(* Unless a login or a refresh that was under way at the last logout ended *)
(* after it, last_activity is cleared or belongs to the present session: a *)
(* request that passed its checks before a logout does not write it after. *)
(***************************************************************************)
ActivityOfSession == activity # "none" /\ ~revived => toucher = version

(***************************************************************************)
(* No call holds a version from the future nor, of a deleted account, is a *)
(* request that passed its checks left with the present one.  Who revokes  *)
(* or continues a token has found one.                                     *)
(***************************************************************************)
Checked(c)    == c.op = "request" /\ c.step = "touch"
NeedsToken(c) == c.step \in {"user", "revoke"} \/ (c.step = "create" /\ c.op # "login")

Suits(c) ==
  /\ c.version <= version
  /\ removed /\ Checked(c) => c.version < version
  /\ c.step = "create" => c.op # "request"
  /\ NeedsToken(c) => c.token \in Token

CallsAreBehind == (removed => ~active) /\ \A h \in Call : Suits(call[h])

SessionInv == TypeOK /\ ActivityOfSession /\ CallsAreBehind

(***************************************************************************)
(* A login whose tokens never were in the hands of two calls at once has   *)
(* at most one live refresh token, wherever its refreshes have failed, and *)
(* none once a logout has revoked the live one.                            *)
(***************************************************************************)
Uncontested(l) == \A t \in contested : login[t] # l
LiveIn(l)      == {t \in Token : token[t] = "live" /\ login[t] = l}

OneLiveToken ==
  \A l \in Token : Uncontested(l) =>
    /\ \A s, t \in LiveIn(l) : s = t
    /\ l \in closed => LiveIn(l) = {}

(* Rows that are stored belong to a login, of which the first row is one. *)
RowsOfLogins ==
  /\ \A t \in Token : IF token[t] = "none" THEN login[t] = None
                      ELSE login[t] \in Token /\ token[login[t]] # "none"
  /\ \A h \in Call : call[h].token # None => token[call[h].token] # "none"
  /\ \A t \in contested \cup closed : t \in Token /\ token[t] # "none"

(* Call h, a refresh of login l, has read the token and may still create one. *)
Rotates(h, l) ==
  /\ call[h].op = "refresh" /\ call[h].step \in {"user", "revoke", "create"}
  /\ call[h].token \in Token /\ login[call[h].token] = l

(* Nobody else has the token of such a call, or another live one. *)
RotationsApart ==
  /\ \A h \in Call : /\ call[h].step = "create" => call[h].op \in {"login", "refresh"}
                     /\ call[h].step = "user" => call[h].op = "refresh"
                     /\ call[h].step = "revoke" => call[h].op \in {"refresh", "logout"}
  /\ \A t \in Token \ contested : \A g, h \in Holders(t) : g = h
  /\ \A l \in Token : Uncontested(l) => \A h \in Call : Rotates(h, l) =>
       /\ LiveIn(l) \subseteq {call[h].token}
       /\ call[h].step = "create" => LiveIn(l) = {}
       /\ l \notin closed
       /\ \A g \in Call : Rotates(g, l) => g = h

(***************************************************************************)
(* Why it has: of a login that nobody contests one call at a time rotates  *)
(* the token, the one that found the live row, and it revokes that row     *)
(* before it creates the next.                                             *)
(***************************************************************************)
RotationInv == RowsOfLogins /\ RotationsApart /\ OneLiveToken
=============================================================================
