----------------------------- MODULE Catalogue ------------------------------
(***************************************************************************)
(* lib/cache.ts and the services whose reads go through it: roles,         *)
(* permissions, professions, resources and camps.                          *)
(*                                                                         *)
(* A read that misses queries the database, answers, and stores what it    *)
(* found without waiting for that.  A write changes the database and then  *)
(* deletes, one command after the other, the keys that may show it.        *)
(* Whatever goes wrong in Valkey is logged and passed over.                *)
(*                                                                         *)
(* Commands on one key change no other key, so one key is followed, any of *)
(* them, with the rows it shows: one of each table.  Of a value it only    *)
(* matters which of those rows have been written since it was read.  (A    *)
(* list is read by two queries, records and total, which count as one.)    *)
(***************************************************************************)
EXTENDS Integers, Sequences, FiniteSets

CONSTANTS
  Call,     \* the HTTP requests that are being handled, numbered
  MaxFills  \* bound: the reads and the values on their way to the cache at once

ASSUME CatalogueAssumption == Call \subseteq Nat /\ MaxFills \in Nat \ {0}

VARIABLES
  key,     \* the key that is followed
  row,     \* row[i]: the row of table i is "new", "there" or "gone"
  cache,   \* {}, or {old} when the key is cached: the tables written since
  link,    \* the connection to Valkey: "connecting" until it is made first
  call,    \* call[h]: what call h is doing
  fills,   \* of each value that is to be stored, the tables written since
  excused  \* a deletion of the key failed, or a fill came late, since it was right (history)

catalogueVars == <<key, row, cache, link, call, fills, excused>>

Table == {"role", "permission", "profession", "resource", "camp"}

(* The keys: a row, its list, and the two that are called catalog. *)
One(i)  == <<"one", i>>
List(i) == <<"list", i>>
Amounts == <<"catalog", "amounts">>
Active  == <<"catalog", "camps">>
Key     == {One(i) : i \in Table} \cup {List(i) : i \in Table} \cup {Amounts, Active}

(* The tables the value of a key is made of: a role lists its permissions. *)
Shows(k) ==
  CASE k \in {One("role"), List("role")} -> {"role", "permission"}
    [] k = Amounts                       -> {"profession", "resource"}
    [] k = Active                        -> {"camp"}
    [] OTHER                             -> {k[2]}

(* Mutant of Invalidates: a permission is not thought of as part of its roles. *)
InvalidatesOwn(i) ==
  <<IF i \in {"profession", "resource"} THEN {Amounts, One(i)}
    ELSE IF i = "camp" THEN {Active, One(i)} ELSE {One(i)}, {List(i)}>>

(* The commands that follow a write to a row of table i, and what each deletes. *)
RoleKeys       == <<{One("role")}, {List("role")}>>
PermissionKeys ==
  <<{One("permission")}, {List("permission")}, {List("role")}, {One("role")}>>
ProfessionKeys == <<{Amounts, One("profession")}, {List("profession")}>>
ResourceKeys   == <<{Amounts, One("resource")}, {List("resource")}>>
CampKeys       == <<{Active, One("camp")}, {List("camp")}>>

Invalidates(i) ==
  CASE i = "role"       -> RoleKeys
    [] i = "permission" -> PermissionKeys
    [] i = "profession" -> ProfessionKeys
    [] i = "resource"   -> ResourceKeys
    [] i = "camp"       -> CampKeys

Idle       == [step |-> "idle"]
Getting    == [step |-> "get"]
Querying   == [step |-> "query"]
Deletes(i, n) == [step |-> "invalidate", kind |-> i, done |-> n]

CatalogueTypeOK ==
  /\ key \in Key
  /\ row \in [Shows(key) -> {"new", "there", "gone"}]
  /\ cache \in {{}} \cup {{old} : old \in SUBSET Shows(key)}
  /\ link \in {"connecting", "ready", "lost"}
  /\ call \in [Call -> {Idle, Getting, Querying}
                         \cup {Deletes(i, n) : i \in Shows(key), n \in 0 .. 3}]
  /\ fills \subseteq SUBSET Shows(key)
  /\ excused \in BOOLEAN

CatalogueInit ==
  /\ key \in Key
  /\ row = [i \in Shows(key) |-> "new"]
  /\ cache = {}
  /\ link = "connecting"
  /\ call = [h \in Call |-> Idle]
  /\ fills = {}
  /\ excused = FALSE

-----------------------------------------------------------------------------
(* Mutant of Connected: a connection that was lost is waited for. *)
OnlyReady == link = "ready"

(* ensureConnected has returned: the first connection is waited for, and no other. *)
Connected == link # "connecting"

(* Call h, after a write to a row of table i, has still to delete the key. *)
Awaits(h, i) ==
  /\ call[h].step = "invalidate"
  /\ call[h].kind = i
  /\ \E n \in call[h].done + 1 .. Len(Invalidates(i)) : key \in Invalidates(i)[n]

(* The key is cached and shows an old row. *)
Stale == \E old \in cache : old # {}

CallBecomes(h, state) == call' = [call EXCEPT ![h] = state]

(* The key leaves the cache, and with it whatever was wrong with it. *)
Drop == cache' = {} /\ excused' = FALSE

-----------------------------------------------------------------------------
(* Requests are alike: the first call that is free is the next one. *)
Free(h) == call[h] = Idle /\ \A g \in Call : call[g] = Idle => h <= g

(* A read of one of these keys arrives. *)
Read(h, keys) ==
  /\ Free(h)
  /\ key \in keys
  /\ Cardinality(fills) + Cardinality({g \in Call : call[g] \in {Getting, Querying}}) < MaxFills
  /\ CallBecomes(h, Getting)
  /\ UNCHANGED <<key, row, cache, link, fills, excused>>

(* getCacheJson: a value answers the call; no value, or an error, sends it on. *)
Get(h) ==
  /\ call[h] = Getting
  /\ Connected
  /\ \/ link = "ready" /\ cache # {} /\ CallBecomes(h, Idle)
     \/ CallBecomes(h, Querying)
  /\ UNCHANGED <<key, row, cache, link, fills, excused>>

(***************************************************************************)
(* The getter: a row that is not there is a 404, and stored nowhere.  The  *)
(* answer does not wait for setCacheJson.                                  *)
(***************************************************************************)
Query(h) ==
  /\ call[h] = Querying
  /\ fills' = IF key[1] = "one" /\ row[key[2]] # "there" THEN fills ELSE fills \cup {{}}
  /\ CallBecomes(h, Idle)
  /\ UNCHANGED <<key, row, cache, link, excused>>

(* setCacheJson, with its TTL: the fill may come after the write it does not show. *)
Store(old) ==
  /\ old \in fills
  /\ link = "ready"
  /\ cache' = {old}
  /\ excused' = \E i \in old : \A h \in Call : ~Awaits(h, i)
  /\ fills' = fills \ {old}
  /\ UNCHANGED <<key, row, link, call>>

(* ... or Valkey fails it. *)
Discard(old) ==
  /\ old \in fills
  /\ Connected
  /\ fills' = fills \ {old}
  /\ UNCHANGED <<key, row, cache, link, call, excused>>

(***************************************************************************)
(* A write of a row of table i has committed: whatever shows the row, and   *)
(* is cached or on its way there, is old.  The answer waits for the        *)
(* deletions.                                                              *)
(***************************************************************************)
WriteRow(h, i, state) ==
  /\ Free(h)
  /\ i \in Shows(key)
  /\ row' = [row EXCEPT ![i] = state]
  /\ cache' = {old \cup {i} : old \in cache}
  /\ fills' = {old \cup {i} : old \in fills}
  /\ CallBecomes(h, Deletes(i, 0))
  /\ UNCHANGED <<key, link, excused>>

Create(h, i) == i \in Shows(key) /\ row[i] = "new" /\ WriteRow(h, i, "there")
Update(h, i) == i \in Shows(key) /\ row[i] = "there" /\ WriteRow(h, i, "there")

(* A row that others refer to stays, and the call is refused. *)
Delete(h, i) == i \in Shows(key) /\ row[i] = "there" /\ WriteRow(h, i, "gone")

(* The services: what each reads and writes. *)
Handles(h, i, keys) == Read(h, keys) \/ Create(h, i) \/ Update(h, i) \/ Delete(h, i)

RoleService(h)       == Handles(h, "role", {One("role"), List("role")})
PermissionService(h) == Handles(h, "permission", {One("permission"), List("permission")})
ProfessionService(h) == Handles(h, "profession", {One("profession"), List("profession"), Amounts})
ResourceService(h)   == Handles(h, "resource", {One("resource"), List("resource")})
CampService(h)       == Handles(h, "camp", {One("camp"), List("camp"), Active})

(* Call h has issued one more command, the last of which answers it. *)
Issued(h) ==
  CallBecomes(h, IF call[h].done + 1 = Len(Invalidates(call[h].kind)) THEN Idle
                 ELSE [call[h] EXCEPT !.done = @ + 1])

(* The command call h is about to issue deletes the key. *)
Aimed(h) == key \in Invalidates(call[h].kind)[call[h].done + 1]

(* deleteKeys and deleteByPrefix. *)
Invalidate(h) ==
  /\ call[h].step = "invalidate"
  /\ link = "ready"
  /\ IF Aimed(h) THEN Drop ELSE UNCHANGED <<cache, excused>>
  /\ Issued(h)
  /\ UNCHANGED <<key, row, link, fills>>

(* ... without a connection, or with an error: nothing is deleted. *)
PassOver(h) ==
  /\ call[h].step = "invalidate"
  /\ Connected
  /\ excused' = (excused \/ (Aimed(h) /\ Stale))
  /\ Issued(h)
  /\ UNCHANGED <<key, row, cache, link, fills>>

-----------------------------------------------------------------------------
(* Mutant of Expire: a value that shows an old row has no TTL. *)
ExpireFresh ==
  /\ cache = {{}}
  /\ Drop
  /\ UNCHANGED <<key, row, link, call, fills>>

(* The TTL of the key is over. *)
Expire ==
  /\ cache # {}
  /\ Drop
  /\ UNCHANGED <<key, row, link, call, fills>>

(* The client connects; a Valkey that was started again may be empty. *)
Connect ==
  /\ link # "ready"
  /\ link' = "ready"
  /\ Drop \/ UNCHANGED <<cache, excused>>
  /\ UNCHANGED <<key, row, call, fills>>

Disconnect ==
  /\ link = "ready"
  /\ link' = "lost"
  /\ UNCHANGED <<key, row, cache, call, fills, excused>>

(* The API dies, between any two commands, and is started again. *)
CacheRestart ==
  /\ link' = "connecting"
  /\ call' = [h \in Call |-> Idle]
  /\ fills' = {}
  /\ excused' = (excused \/ (Stale /\ \E h \in Call, i \in Shows(key) : Awaits(h, i)))
  /\ UNCHANGED <<key, row, cache>>

Continue(h) ==
  \/ Get(h)
  \/ Query(h)
  \/ Invalidate(h)
  \/ PassOver(h)

Fill == \E old \in fills : Store(old) \/ Discard(old)

CatalogueNext ==
  \/ \E h \in Call : \/ RoleService(h)
                     \/ PermissionService(h)
                     \/ ProfessionService(h)
                     \/ ResourceService(h)
                     \/ CampService(h)
                     \/ Continue(h)
  \/ Fill
  \/ Expire
  \/ Connect
  \/ Disconnect
  \/ CacheRestart

CatalogueSpec == CatalogueInit /\ [][CatalogueNext]_catalogueVars

(***************************************************************************)
(* The API's own steps go on, fills end, and the TTL of what is stale runs *)
(* out.  Nothing is assumed about the connection.                          *)
(***************************************************************************)
CatalogueFairness ==
  /\ \A h \in Call : WF_catalogueVars(Continue(h))
  /\ WF_catalogueVars(Fill)
  /\ WF_catalogueVars(Stale /\ Expire)

CatalogueFairSpec == CatalogueSpec /\ CatalogueFairness

-----------------------------------------------------------------------------
(***************************************************************************)
(* The key shows an old version of a row only while the write of the row   *)
(* is still deleting keys, after a deletion that failed, or after a fill   *)
(* that began before the write and ended after it: every write deletes     *)
(* every key it can be seen in.                                            *)
(***************************************************************************)
StaleForAReason ==
  \A old \in cache : \A i \in old : excused \/ \E h \in Call : Awaits(h, i)

(* A call that deletes keys has a command left: the last one answers it. *)
CommandLeft ==
  \A h \in Call : call[h].step = "invalidate" => call[h].done < Len(Invalidates(call[h].kind))

CatalogueInv == CatalogueTypeOK /\ CommandLeft /\ StaleForAReason

(***************************************************************************)
(* Once no write is under way any more, the cache is right again and stays *)
(* so, whatever deletions failed: the TTL ends what they have left, and no *)
(* fill brings it back.                                                    *)
(***************************************************************************)
Settles ==
  <>[](\A h \in Call : call[h].step # "invalidate") => <>[]~Stale

(***************************************************************************)
(* "The cache is fail-open" (docs/cache.md): once the client has been      *)
(* connected no call waits for Valkey, not even while the connection is    *)
(* lost.                                                                   *)
(***************************************************************************)
AnsweredOnceConnected ==
  \A h \in Call : call[h] # Idle /\ link # "connecting" ~> call[h] = Idle
=============================================================================
