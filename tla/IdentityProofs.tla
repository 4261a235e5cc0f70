--------------------------- MODULE IdentityProofs ---------------------------
(***************************************************************************)
(* What holds of the auth service for every number of accounts and of      *)
(* calls in progress.  Its parts share no state that both write, and each  *)
(* has an invariant of its own.                                            *)
(*                                                                         *)
(* Logins, refresh tokens, PINs and token versions: SessionsShape types    *)
(* the state; FollowInv (the password behind a token), RotateInv (what     *)
(* replaced a token), PinInv (the wrong PINs compared) and VersionInv (the *)
(* raises still owed) are each kept by a step on their own, beside it.     *)
(*                                                                         *)
(* One-time codes: nobody waits for a code that is not coming, since the   *)
(* cool-down is set by a call that stores a code next, and whoever stores  *)
(* the last code mails it; and a code stands a bounded number of guesses,  *)
(* for each was counted in a life of the counter, or before the code was   *)
(* stored.                                                                 *)
(*                                                                         *)
(* Accounts and roles: TablesFit has the keys and references, Explained    *)
(* and Assigned say why an account has no role, and Reserved that whoever  *)
(* deletes a role has seen that its name is not a protected one.           *)
(***************************************************************************)
EXTENDS Sessions, Codes, Accounts, FiniteSetTheorems, TLAPS

-----------------------------------------------------------------------------
(* Logins, tokens, PINs.                                                   *)

Ops == {"idle", "login", "adminlogin", "logout", "logoutall", "refresh", "change", "reset",
        "setpin", "updatepin", "verifypin"}
SessionSteps == {"idle", "check", "pin", "count", "lock", "forgive", "context", "persist", "write",
          "lookup", "account", "revoke", "versions", "aborted", "revokeall"}
Stores == {"postgres", "redis"}
Secrets == Passwords \cup Pins \cup {"none"}
SessionRecords ==
  [op : Ops, step : SessionSteps, id : Accounts \cup {Nobody}, password : Secrets, secret : Secrets,
   hash : 0 .. MaxOps + 1, todo : SUBSET Stores, late : BOOLEAN]

\* A call at rest, or one whose fields its request and its step account for.
CallFits(x) ==
  /\ x \in SessionRecords
  /\ x.op = "idle" <=> x.step = "idle"
  /\ x.op # "idle" => x.id \in Accounts
  /\ x.op \in {"login", "change", "reset", "setpin", "updatepin", "verifypin"} => x.id \in Users
  /\ x.op = "adminlogin" => x.id \in StaffIds
  /\ x.step \in {"count", "lock", "forgive"} => x.op \in {"login", "verifypin"}
  /\ x.op \in {"change", "reset"} => x.secret \in Passwords
  /\ x.op \in {"setpin", "updatepin"} => x.secret \in Pins
  /\ x.op \in {"logout", "refresh"} <=> x.hash # 0

UserRecords ==
  [id : Users, email : Users, phone : {"none"}, handle : Users, password : Passwords,
   status : {"active", "suspended", "deleted"}, version : Nat, picture : {"none"}]
UserTable(table) ==
  /\ table \subseteq UserRecords /\ {u.id : u \in table} = Users
  /\ \A u, v \in table : u.id = v.id => u = v
  /\ \A u \in table : u.email = u.id

TokenRecords == [hash : Hashes, user : Accounts, revoked : BOOLEAN]
TokenTable(table) ==
  /\ table \subseteq TokenRecords
  /\ \A s, t \in table : s.hash = t.hash => s = t
  /\ IsFiniteSet(table) /\ {t.hash : t \in table} = 1 .. Cardinality(table)

PinRecords == [id : Users, hash : Pins, attempts : Nat, locked : BOOLEAN]
PinTable(table) ==
  table \subseteq PinRecords /\ \A p, q \in table : p.id = q.id => p = q

OriginRecords == [password : Secrets, replaces : 0 .. MaxOps + 1, late : BOOLEAN]

CallsFit == calls \in [SessionCalls -> SessionRecords] /\ \A c \in SessionCalls : CallFits(calls[c])
Busy == {c \in SessionCalls : calls[c].op # "idle"}
\* A call that was given a token was given one of the table.
Presents(x, table) ==
  x.op \in {"logout", "refresh"} => \E t \in table : t.hash = x.hash /\ t.user = x.id

SessionsShape ==
  /\ UserTable(users) /\ TokenTable(tokens) /\ PinTable(pins)
  /\ redisVersion \in [Accounts -> Nat]
  /\ CallsFit /\ \A c \in SessionCalls : Presents(calls[c], tokens)
  /\ ops \in 0 .. MaxOps /\ Cardinality(tokens) + Cardinality(Busy) <= ops + 1
  /\ origin \in [Hashes -> OriginRecords]
  /\ guesses \in [Users -> Nat] /\ openings \in [Users -> Nat]

\* A password a live token or a call that will store one was given for still
\* stands, or something the property names has come between.
Follows(u, password, late) ==
  \/ \E x \in users : x.id = u /\ x.password = password
  \/ u \in loose \/ late \/ ChangingPassword(u)

Storing == {"pin", "count", "lock", "forgive", "account", "context", "revoke", "persist"}
WillStore(x) == x.op \in {"login", "refresh"} /\ x.step \in Storing /\ x.id \in Users
FollowInv ==
  /\ \A t \in tokens : t.user \in Users /\ ~t.revoked =>
       Follows(t.user, origin[t.hash].password, origin[t.hash].late)
  /\ \A c \in SessionCalls : WillStore(calls[c]) =>
       Follows(calls[c].id, calls[c].password, calls[c].late)

\* The tokens that took the place of one, and the calls about to store another.
ReplacedBy(h) == {k \in Hashes : origin[k].replaces = h}
Refreshing(x) == x.op = "refresh" /\ x.step \in {"account", "context", "revoke", "persist"}
Replacing(h) == {c \in SessionCalls : Refreshing(calls[c]) /\ calls[c].hash = h}
RotateInv ==
  /\ \A h \in Hashes : Cardinality(ReplacedBy(h)) + Cardinality(Replacing(h)) <= Cardinality(SessionCalls)
  /\ \A t \in tokens : ~t.revoked =>
       ReplacedBy(t.hash) = {} /\ \A c \in Replacing(t.hash) : calls[c].step # "persist"
  /\ \A k \in Hashes : /\ origin[k].replaces <= Cardinality(tokens)
                       /\ k > Cardinality(tokens) => origin[k].replaces = 0

\* The calls whose wrong PIN is not counted yet, and with them those that are
\* about to lock the PIN.
Counting(u) == {c \in SessionCalls : calls[c].id = u /\ calls[c].step = "count"}
Trying(u) == {c \in SessionCalls : calls[c].id = u /\ calls[c].step \in {"count", "lock"}}
PinFits(p) ==
  /\ p.attempts >= MaxPinAttempts =>
       \/ p.locked \/ openings[p.id] > 0
       \/ \E c \in SessionCalls : calls[c].id = p.id /\ calls[c].step = "lock"
  /\ guesses[p.id] <= p.attempts + Cardinality(Counting(p.id)) + openings[p.id]
  /\ guesses[p.id] <= MaxPinAttempts - 1
       + (IF p.locked THEN Cardinality(SessionCalls) ELSE Cardinality(Trying(p.id)))
       + Cardinality(SessionCalls) * openings[p.id]
PinInv ==
  /\ \A p \in pins : PinFits(p)
  /\ \A u \in Users : (\A p \in pins : p.id # u) => guesses[u] = 0

\* The calls that have still to raise a user's version in a store.
Owing(u, store) ==
  {c \in SessionCalls : calls[c].id = u /\ calls[c].step \in {"versions", "aborted"}
                          /\ store \in calls[c].todo}
VersionsBalance ==
  \A u \in users :
    u.id \in drifted \/
    u.version + Cardinality(Owing(u.id, "postgres")) =
      redisVersion[u.id] + Cardinality(Owing(u.id, "redis"))
\* Neither version is raised before the call comes to raising them.
NoneRaisedYet == \A c \in SessionCalls : calls[c].step \in {"check", "pin", "write"} => calls[c].todo = Stores
VersionInv == VersionsBalance /\ NoneRaisedYet

-----------------------------------------------------------------------------
(* Calls *)

LEMMA RequestCalled ==
  ASSUME NEW r \in Requests, TokenTable(tokens)
  PROVE  /\ CallFits(Called(r)) /\ Called(r).op # "idle" /\ Called(r).todo = Stores
         /\ Called(r).step \in {"check", "lookup", "versions", "pin"}
         /\ Called(r).step = "versions" => Called(r).op = "logoutall"
         /\ Called(r).op \in {"login", "refresh"} => Called(r).step \notin Storing
         /\ Presents(Called(r), tokens) /\ ~Called(r).late
<1> DEFINE told(password, secret, hash) ==
      [op |-> r.op, step |-> FirstStep(r.op), id |-> r.id, password |-> password,
       secret |-> secret, hash |-> hash, todo |-> Stores, late |-> FALSE]
<1> USE SessionsAssumption
    DEF Called, Idle, FirstStep, Storing, Stores, CallFits, SessionRecords, Ops, SessionSteps, Secrets, Accounts, Presents
<1>1. CASE r \in LoginRequests
  <2>1. DOMAIN r = {"op", "id", "password", "secret"}
    BY <1>1 DEF LoginRequests
  <2>2. r.op = "login" /\ r.id \in Users /\ r.password \in Passwords /\ r.secret \in Pins
    BY <1>1 DEF LoginRequests
  <2>3. Called(r) = told(r.password, r.secret, 0)
    BY <2>1
  <2> QED BY <2>2, <2>3
<1>2. CASE r \in AdminLoginRequests
  <2>1. DOMAIN r = {"op", "id", "password"}
    BY <1>2 DEF AdminLoginRequests
  <2>2. r.op = "adminlogin" /\ r.id \in StaffIds /\ r.password \in Passwords
    BY <1>2 DEF AdminLoginRequests
  <2>3. Called(r) = told(r.password, "none", 0)
    BY <2>1
  <2> QED BY <2>2, <2>3
<1>3. CASE r \in LogoutRequests \cup RefreshRequests
  <2>1. CASE r \in [op : {"logoutall"}, id : Accounts]
    <3>1. DOMAIN r = {"op", "id"} /\ r.op = "logoutall" /\ r.id \in Accounts
      BY <2>1
    <3>2. Called(r) = told("none", "none", 0)
      BY <3>1
    <3> QED BY <3>1, <3>2
  <2>2. ASSUME NEW t \in tokens, r \in [op : {"logout", "refresh"}, id : {t.user}, hash : {t.hash}]
        PROVE  r.id \in Accounts /\ r.hash \in Hashes /\ CallFits(Called(r))
               /\ Called(r) = told("none", "none", r.hash)
    <3>1. DOMAIN r = {"op", "id", "hash"} /\ r.op \in {"logout", "refresh"}
          /\ r.id = t.user /\ r.hash = t.hash
      BY <2>2
    <3>2. t.user \in Accounts /\ t.hash \in Hashes
      BY DEF TokenTable, TokenRecords
    <3>3. Called(r) = told("none", "none", r.hash)
      BY <3>1
    <3>4. r.hash \in 0 .. MaxOps + 1 /\ r.hash # 0
      BY <3>1, <3>2 DEF Hashes
    <3> QED BY <3>1, <3>2, <3>3, <3>4
  <2>3. CASE \E t \in tokens : r \in [op : {"logout", "refresh"}, id : {t.user}, hash : {t.hash}]
    <3>1. PICK t \in tokens : r \in [op : {"logout", "refresh"}, id : {t.user}, hash : {t.hash}]
      BY <2>3
    <3>2. r.op \in {"logout", "refresh"} /\ r.id = t.user /\ r.hash = t.hash
      BY <3>1
    <3> QED BY <2>2, <3>1, <3>2
  <2> QED BY <1>3, <2>1, <2>3 DEF LogoutRequests, RefreshRequests
<1>4. CASE r \in ChangePasswordRequests
  <2>1. DOMAIN r = {"op", "id", "password", "secret"}
    BY <1>4 DEF ChangePasswordRequests
  <2>2. r.op = "change" /\ r.id \in Users /\ r.password \in Passwords /\ r.secret \in Passwords
    BY <1>4 DEF ChangePasswordRequests
  <2>3. Called(r) = told(r.password, r.secret, 0)
    BY <2>1
  <2> QED BY <2>2, <2>3
<1>5. CASE r \in ResetPasswordRequests
  <2>1. DOMAIN r = {"op", "id", "secret"}
    BY <1>5 DEF ResetPasswordRequests
  <2>2. r.op = "reset" /\ r.id \in Users /\ r.secret \in Passwords
    BY <1>5 DEF ResetPasswordRequests
  <2>3. Called(r) = told("none", r.secret, 0)
    BY <2>1
  <2> QED BY <2>2, <2>3
<1>6. CASE r \in SetPINRequests \cup VerifyPINRequests
  <2>1. DOMAIN r = {"op", "id", "secret"}
    BY <1>6 DEF SetPINRequests, VerifyPINRequests
  <2>2. r.op \in {"setpin", "verifypin"} /\ r.id \in Users /\ r.secret \in Pins
    BY <1>6 DEF SetPINRequests, VerifyPINRequests
  <2>3. Called(r) = told("none", r.secret, 0)
    BY <2>1
  <2> QED BY <2>2, <2>3
<1>7. CASE r \in UpdatePINRequests
  <2>1. DOMAIN r = {"op", "id", "password", "secret"}
    BY <1>7 DEF UpdatePINRequests
  <2>2. r.op = "updatepin" /\ r.id \in Users /\ r.password \in Pins /\ r.secret \in Pins
    BY <1>7 DEF UpdatePINRequests
  <2>3. Called(r) = told(r.password, r.secret, 0)
    BY <2>1
  <2> QED BY <2>2, <2>3
<1> QED
  BY <1>1, <1>2, <1>3, <1>4, <1>5, <1>6, <1>7 DEF Requests, PinRequests, SessionRequests

\* The three ways in which a call goes on.
LEMMA IdleFits == CallFits(Idle) /\ Presents(Idle, tokens) /\ Idle.op = "idle" /\ Idle.step = "idle"
BY SessionsAssumption DEF CallFits, SessionRecords, Idle, Ops, SessionSteps, Secrets, Presents

LEMMA CallTurns ==
  ASSUME CallsFit, NEW c \in SessionCalls, NEW x, CallFits(x),
         calls' = [calls EXCEPT ![c] = x]
  PROVE  /\ CallsFit' /\ calls'[c] = x
         /\ \A d \in SessionCalls \ {c} : calls'[d] = calls[d]
         /\ Busy' = IF x.op = "idle" THEN Busy \ {c} ELSE Busy \cup {c}
BY DEF CallsFit, CallFits, Busy

LEMMA AnswerTurns ==
  ASSUME CallsFit, NEW c \in SessionCalls, Answer(c)
  PROVE  /\ CallsFit' /\ calls'[c] = Idle
         /\ \A d \in SessionCalls \ {c} : calls'[d] = calls[d]
         /\ Busy' = Busy \ {c}
BY CallTurns, IdleFits DEF Answer

LEMMA GotoTurns ==
  ASSUME CallsFit, NEW c \in SessionCalls, NEW s \in SessionSteps \ {"idle"}, calls[c].step # "idle",
         s \in {"count", "lock", "forgive"} => calls[c].op \in {"login", "verifypin"},
         Goto(c, s)
  PROVE  /\ CallsFit' /\ calls'[c].step = s
         /\ calls'[c].op = calls[c].op /\ calls'[c].id = calls[c].id
         /\ calls'[c].password = calls[c].password /\ calls'[c].secret = calls[c].secret
         /\ calls'[c].hash = calls[c].hash /\ calls'[c].todo = calls[c].todo
         /\ calls'[c].late = calls[c].late
         /\ \A d \in SessionCalls \ {c} : calls'[d] = calls[d]
         /\ Busy' = Busy
<1> DEFINE x == [calls[c] EXCEPT !.step = s]
<1>1. calls[c] \in SessionRecords /\ CallFits(calls[c])
  BY DEF CallsFit
<1>2. /\ x.step = s /\ x.op = calls[c].op /\ x.id = calls[c].id
      /\ x.password = calls[c].password /\ x.secret = calls[c].secret
      /\ x.hash = calls[c].hash /\ x.todo = calls[c].todo /\ x.late = calls[c].late
      /\ x \in SessionRecords
  BY <1>1 DEF SessionRecords
<1>3. calls' = [calls EXCEPT ![c] = x]
  BY DEF Goto
<1> HIDE DEF x
<1>4. CallFits(x)
  BY <1>1, <1>2 DEF CallFits
<1>5. c \in Busy
  BY <1>1 DEF Busy, CallFits
<1>6. x.op # "idle"
  BY <1>1, <1>2 DEF CallFits
<1>7. /\ CallsFit' /\ calls'[c] = x
      /\ \A d \in SessionCalls \ {c} : calls'[d] = calls[d]
  BY <1>3, <1>4, CallTurns
<1>8. Busy' = Busy \cup {c}
  BY <1>3, <1>4, <1>6, CallTurns
<1> QED
  BY <1>2, <1>5, <1>7, <1>8

-----------------------------------------------------------------------------
(* Tables *)

LEMMA UserRow ==
  ASSUME NEW table, UserTable(table), NEW id
  PROVE  /\ id \in Users => \E u \in table : u.id = id /\ RowsOf(table, id) = {u}
         /\ id \notin Users => RowsOf(table, id) = {} /\ Without(table, id) = table
BY DEF UserTable, RowsOf, Without

LEMMA UserReplaced ==
  ASSUME NEW table, UserTable(table), NEW u \in table,
         NEW v \in UserRecords, v.id = u.id, v.email = u.email
  PROVE  LET after == Without(table, u.id) \cup {v}
         IN  /\ UserTable(after) /\ v \in after
             /\ \A x \in after : x = v \/ (x \in table /\ x.id # u.id)
<1> DEFINE after == Without(table, u.id) \cup {v}
<1>1. {x.id : x \in after} = Users
  <2>1. ASSUME NEW i \in Users PROVE \E x \in after : x.id = i
    <3>1. PICK x \in table : x.id = i
      BY DEF UserTable
    <3>2. CASE i = u.id
      BY <3>2
    <3>3. CASE i # u.id
      BY <3>1, <3>3 DEF Without
    <3> QED BY <3>2, <3>3
  <2>2. ASSUME NEW x \in after PROVE x.id \in Users
    BY DEF Without, UserTable, UserRecords
  <2> QED BY <2>1, <2>2
<1> QED BY <1>1 DEF UserTable, Without

LEMMA VersionRaised ==
  ASSUME NEW table, UserTable(table), NEW id, NEW after, after = IncrementTokenVersion(table, id)
  PROVE  /\ UserTable(after)
         /\ \A u \in table, v \in after : u.id = v.id =>
              /\ v.password = u.password
              /\ v.version = IF u.id = id THEN u.version + 1 ELSE u.version
<1>1. CASE id \notin Users
  BY <1>1, UserRow DEF IncrementTokenVersion, UserTable, UserRecords
<1>2. CASE id \in Users
  <2>1. PICK u \in table : u.id = id /\ RowsOf(table, id) = {u}
    BY <1>2, UserRow
  <2> DEFINE v == [u EXCEPT !.version = @ + 1]
  <2>2. /\ v \in UserRecords /\ v.id = u.id /\ v.email = u.email
        /\ v.password = u.password /\ v.version = u.version + 1
    BY DEF UserTable, UserRecords
  <2>3. after = Without(table, u.id) \cup {v}
    BY <2>1 DEF IncrementTokenVersion
  <2> HIDE DEF v
  <2>4. /\ UserTable(after) /\ v \in after
        /\ \A x \in after : x = v \/ (x \in table /\ x.id # u.id)
    BY <2>2, <2>3, UserReplaced
  <2> QED BY <2>1, <2>2, <2>4 DEF UserTable
<1> QED BY <1>1, <1>2

LEMMA PasswordWritten ==
  ASSUME NEW table, UserTable(table), NEW id, NEW password \in Passwords,
         NEW after, after = UpdatePassword(table, id, password)
  PROVE  /\ UserTable(after)
         /\ \A u \in table, v \in after : u.id = v.id =>
              /\ v.password = IF u.id = id THEN password ELSE u.password
              /\ v.version = u.version
<1>1. CASE id \notin Users
  BY <1>1, UserRow DEF UpdatePassword, UserTable, UserRecords
<1>2. CASE id \in Users
  <2>1. PICK u \in table : u.id = id /\ RowsOf(table, id) = {u}
    BY <1>2, UserRow
  <2> DEFINE v == [u EXCEPT !.password = password]
  <2>2. /\ v \in UserRecords /\ v.id = u.id /\ v.email = u.email
        /\ v.password = password /\ v.version = u.version
    BY DEF UserTable, UserRecords
  <2>3. after = Without(table, u.id) \cup {v}
    BY <2>1 DEF UpdatePassword
  <2> HIDE DEF v
  <2>4. /\ UserTable(after) /\ v \in after
        /\ \A x \in after : x = v \/ (x \in table /\ x.id # u.id)
    BY <2>2, <2>3, UserReplaced
  <2> QED BY <2>1, <2>2, <2>4 DEF UserTable
<1> QED BY <1>1, <1>2

LEMMA StatusWritten ==
  ASSUME NEW table, UserTable(table), NEW id, NEW status \in {"active", "suspended", "deleted"},
         NEW after, after = UpdateUserStatus(table, id, status)
  PROVE  /\ UserTable(after)
         /\ \A u \in table, v \in after : u.id = v.id =>
              v.password = u.password /\ v.version = u.version
<1>1. CASE id \notin Users
  BY <1>1, UserRow DEF UpdateUserStatus, UserTable, UserRecords
<1>2. CASE id \in Users
  <2>1. PICK u \in table : u.id = id /\ RowsOf(table, id) = {u}
    BY <1>2, UserRow
  <2> DEFINE v == [u EXCEPT !.status = status]
  <2>2. /\ v \in UserRecords /\ v.id = u.id /\ v.email = u.email
        /\ v.password = u.password /\ v.version = u.version
    BY DEF UserTable, UserRecords
  <2>3. after = Without(table, u.id) \cup {v}
    BY <2>1 DEF UpdateUserStatus
  <2> HIDE DEF v
  <2>4. /\ UserTable(after) /\ v \in after
        /\ \A x \in after : x = v \/ (x \in table /\ x.id # u.id)
    BY <2>2, <2>3, UserReplaced
  <2> QED BY <2>1, <2>2, <2>4 DEF UserTable
<1> QED BY <1>1, <1>2

LEMMA AdminWritten ==
  ASSUME NEW table, UserTable(table), NEW id, NEW password \in Passwords,
         NEW result, result = AdminUpdate(table, id, "none", password), Succeeds(result)
  PROVE  /\ UserTable(result.val)
         /\ \A u \in table, v \in result.val : u.id = v.id =>
              v.version = u.version /\ (u.id # id => v.password = u.password)
<1> DEFINE after == AdminUpdateUser(table, id, "none", password)
<1>1. result.val = after
  BY DEF AdminUpdate, Succeeds, Ok, Fail, MapDBErrors
<1>2. CASE id \notin Users
  BY <1>2, UserRow DEF AdminUpdate, GetUserByID, Succeeds, Fail, MapDBErrors
<1>3. CASE id \in Users
  <2>1. PICK u \in table : u.id = id /\ RowsOf(table, id) = {u}
    BY <1>3, UserRow
  <2> HIDE DEF after
  <2> DEFINE word == IF password = "none" THEN u.password ELSE password
             v == [u EXCEPT !.email = u.email, !.password = word]
  <2>2. word \in Passwords
    BY DEF UserTable, UserRecords
  <2>3. after = Without(table, u.id) \cup {v}
    BY <2>1 DEF AdminUpdateUser, after
  <2> HIDE DEF word
  <2>4. /\ v \in UserRecords /\ v.id = u.id /\ v.email = u.email /\ v.version = u.version
    BY <2>2 DEF UserTable, UserRecords
  <2> HIDE DEF v, after
  <2>5. /\ UserTable(after) /\ v \in after
        /\ \A x \in after : x = v \/ (x \in table /\ x.id # u.id)
    BY <2>3, <2>4, UserReplaced
  <2> QED BY <1>1, <2>1, <2>4, <2>5 DEF UserTable
<1> QED BY <1>2, <1>3

\* Tokens are numbered from 1 without gaps, so that the next number is free.
LEMMA TokensCounted ==
  ASSUME NEW table, NEW n \in Nat, {t.hash : t \in table} = 1 .. n,
         \A s, t \in table : s.hash = t.hash => s = t
  PROVE  IsFiniteSet(table) /\ Cardinality(table) = n
<1> DEFINE f == [k \in 1 .. n |-> CHOOSE t \in table : t.hash = k]
<1>1. \A k \in 1 .. n : f[k] \in table /\ f[k].hash = k
  <2>1. \A k \in 1 .. n : \E t \in table : t.hash = k
    OBVIOUS
  <2> QED BY <2>1
<1>2. f \in Bijection(1 .. n, table)
  <2>1. f \in [1 .. n -> table]
    BY <1>1
  <2>2. \A k, l \in 1 .. n : f[k] = f[l] => k = l
    BY <1>1
  <2>3. \A t \in table : \E k \in 1 .. n : f[k] = t
    <3>1. TAKE t \in table
    <3>2. t.hash \in 1 .. n
      OBVIOUS
    <3>3. f[t.hash] = t
      BY <1>1, <3>2
    <3> QED BY <3>2, <3>3
  <2> HIDE DEF f
  <2> QED BY <2>1, <2>2, <2>3 DEF Bijection, Injection, Surjection, IsInjective
<1>3. ExistsBijection(1 .. n, table)
  BY <1>2 DEF ExistsBijection
<1> QED BY <1>3, FS_CountingElements, FS_NatBijection

Revised(table, after, revoked) ==
  /\ TokenTable(after) /\ Cardinality(after) = Cardinality(table)
  /\ \A t \in table : \E s \in after : s.hash = t.hash
  /\ \A s \in after : \E t \in table :
       s.hash = t.hash /\ s.user = t.user /\ s.revoked = (t.revoked \/ t \in revoked)

LEMMA TokensRevised ==
  ASSUME NEW table, TokenTable(table), NEW revoked, NEW after,
         after = {IF t \in revoked THEN [t EXCEPT !.revoked = TRUE] ELSE t : t \in table}
  PROVE  Revised(table, after, revoked)
<1> DEFINE turned(t) == IF t \in revoked THEN [t EXCEPT !.revoked = TRUE] ELSE t
<1>1. \A t \in table : /\ turned(t) \in TokenRecords /\ turned(t).hash = t.hash
                       /\ turned(t).user = t.user
                       /\ turned(t).revoked = (t.revoked \/ t \in revoked)
  BY DEF TokenTable, TokenRecords
<1>2. after = {turned(t) : t \in table}
  OBVIOUS
<1> HIDE DEF turned
<1>3. \A s \in after : \E t \in table : s = turned(t)
  BY <1>2
<1>4. \A t \in table : turned(t) \in after
  BY <1>2
<1>5. {s.hash : s \in after} = {t.hash : t \in table}
  <2>1. \A s \in after : \E t \in table : s.hash = t.hash
    BY <1>1, <1>3
  <2>2. \A t \in table : \E s \in after : s.hash = t.hash
    BY <1>1, <1>4
  <2>3. ASSUME NEW k \in {s.hash : s \in after} PROVE k \in {t.hash : t \in table}
    <3>1. PICK s \in after : k = s.hash
      OBVIOUS
    <3> QED BY <2>1, <3>1
  <2>4. ASSUME NEW k \in {t.hash : t \in table} PROVE k \in {s.hash : s \in after}
    <3>1. PICK t \in table : k = t.hash
      OBVIOUS
    <3> QED BY <2>2, <3>1
  <2> QED BY <2>3, <2>4
<1>6. \A s, t \in after : s.hash = t.hash => s = t
  BY <1>1, <1>3 DEF TokenTable
<1>7. Cardinality(table) \in Nat
  BY FS_CardinalityType DEF TokenTable
<1>8. IsFiniteSet(after) /\ Cardinality(after) = Cardinality(table)
  BY <1>5, <1>6, <1>7, TokensCounted DEF TokenTable
<1>9. TokenTable(after)
  <2>1. after \subseteq TokenRecords
    BY <1>1, <1>3
  <2>2. {s.hash : s \in after} = 1 .. Cardinality(after)
    BY <1>5, <1>8 DEF TokenTable
  <2> QED BY <1>6, <1>8, <2>1, <2>2 DEF TokenTable
<1>10. \A t \in table : \E s \in after : s.hash = t.hash
  BY <1>1, <1>4
<1>11. \A s \in after : \E t \in table :
         s.hash = t.hash /\ s.user = t.user /\ s.revoked = (t.revoked \/ t \in revoked)
  <2> SUFFICES ASSUME NEW s \in after
               PROVE  \E t \in table :
                        s.hash = t.hash /\ s.user = t.user /\ s.revoked = (t.revoked \/ t \in revoked)
    OBVIOUS
  <2>1. PICK t \in table : s = turned(t)
    BY <1>3
  <2> QED BY <1>1, <2>1
<1> QED
  BY <1>8, <1>9, <1>10, <1>11 DEF Revised

LEMMA TokenRevoked ==
  ASSUME TokenTable(tokens), NEW hash
  PROVE  Revised(tokens, RevokeRefreshToken(tokens, hash), {t \in tokens : t.hash = hash})
<1>1. RevokeRefreshToken(tokens, hash) =
        {IF t \in {s \in tokens : s.hash = hash} THEN [t EXCEPT !.revoked = TRUE] ELSE t : t \in tokens}
  BY DEF RevokeRefreshToken
<1> QED BY <1>1, TokensRevised

LEMMA AllTokensRevoked ==
  ASSUME TokenTable(tokens), NEW id
  PROVE  Revised(tokens, RevokeAllRefreshTokensForUser(tokens, id), {t \in tokens : t.user = id})
<1>1. RevokeAllRefreshTokensForUser(tokens, id) =
        {IF t \in {s \in tokens : s.user = id} THEN [t EXCEPT !.revoked = TRUE] ELSE t : t \in tokens}
  BY DEF RevokeAllRefreshTokensForUser
<1> QED BY <1>1, TokensRevised

LEMMA TokenCreated ==
  ASSUME TokenTable(tokens), NewHash \in Hashes, NEW id \in Accounts,
         NEW after, after = CreateRefreshToken(tokens, RefreshToken(NewHash, id))
  PROVE  /\ TokenTable(after) /\ Cardinality(after) = Cardinality(tokens) + 1
         /\ \A t \in tokens : t \in after /\ t.hash # NewHash
         /\ \A t \in after : t \in tokens \/ (t.hash = NewHash /\ t.user = id /\ ~t.revoked)
<1> DEFINE new == RefreshToken(NewHash, id)
           n == Cardinality(tokens)
<1>1. new \in TokenRecords /\ new.hash = NewHash /\ new.user = id /\ ~new.revoked
  BY DEF RefreshToken, TokenRecords
<1>2. n \in Nat /\ NewHash = n + 1
  BY FS_CardinalityType DEF TokenTable, NewHash
<1>3. after = tokens \cup {new}
  BY DEF CreateRefreshToken
<1>4. \A t \in tokens : t.hash \in 1 .. n
  BY DEF TokenTable
<1> HIDE DEF new, n
<1>5. \A t \in tokens : t.hash # NewHash
  BY <1>2, <1>4
<1>6. {t.hash : t \in after} = 1 .. n + 1
  <2>1. {t.hash : t \in after} = {t.hash : t \in tokens} \cup {NewHash}
    BY <1>1, <1>3
  <2>2. {t.hash : t \in tokens} = 1 .. n
    BY DEF TokenTable, n
  <2> QED BY <2>1, <2>2, <1>2
<1>7. \A s, t \in after : s.hash = t.hash => s = t
  BY <1>1, <1>3, <1>5 DEF TokenTable
<1>8. IsFiniteSet(after) /\ Cardinality(after) = n + 1
  <2>1. n + 1 \in Nat
    BY <1>2
  <2> QED BY <2>1, <1>6, <1>7, TokensCounted
<1>9. TokenTable(after)
  BY <1>1, <1>3, <1>6, <1>7, <1>8 DEF TokenTable
<1> QED BY <1>1, <1>3, <1>5, <1>8, <1>9 DEF n

\* One row of a PIN gives way to another.
PinBecomes(after, id, v) ==
  /\ PinTable(after) /\ v \in after /\ v.id = id
  /\ \A p \in after : p = v \/ (p \in pins /\ p.id # id)
  /\ \A p \in pins : p.id # id => p \in after

LEMMA PinRow ==
  ASSUME PinTable(pins), NEW id
  PROVE  /\ \A p \in pins : p.id = id => RowsOf(pins, id) = {p}
         /\ (\A p \in pins : p.id # id) => RowsOf(pins, id) = {} /\ Without(pins, id) = pins
BY DEF PinTable, RowsOf, Without

LEMMA PinReplaced ==
  ASSUME PinTable(pins), NEW id, NEW v \in PinRecords, v.id = id
  PROVE  PinBecomes(Without(pins, id) \cup {v}, id, v)
BY DEF PinTable, Without, PinBecomes

LEMMA PinStatements ==
  ASSUME PinTable(pins), NEW q \in pins
  PROVE  /\ \E v \in PinRecords :
              /\ PinBecomes(IncrementPINFailedAttempts(pins, q.id), q.id, v)
              /\ v.attempts = q.attempts + 1 /\ v.locked = q.locked
         /\ \E v \in PinRecords :
              /\ PinBecomes(LockPIN(pins, q.id), q.id, v)
              /\ v.attempts = q.attempts /\ v.locked = TRUE
         /\ \E v \in PinRecords :
              /\ PinBecomes(ResetPINFailedAttempts(pins, q.id), q.id, v)
              /\ v.attempts = 0 /\ v.locked = FALSE
         /\ \A hash \in Pins : \E v \in PinRecords :
              /\ PinBecomes(UpdatePINHash(pins, q.id, hash), q.id, v)
              /\ v.attempts = 0 /\ v.locked = FALSE
         /\ \E v \in PinRecords :
              /\ PinBecomes(Without(pins, q.id) \cup {[q EXCEPT !.locked = FALSE]}, q.id, v)
              /\ v.attempts = q.attempts /\ v.locked = FALSE
<1>1. q \in PinRecords /\ RowsOf(pins, q.id) = {q}
  BY PinRow DEF PinTable
<1>2. \E v \in PinRecords :
        /\ PinBecomes(IncrementPINFailedAttempts(pins, q.id), q.id, v)
        /\ v.attempts = q.attempts + 1 /\ v.locked = q.locked
  <2> DEFINE v == [q EXCEPT !.attempts = @ + 1]
  <2>1. v \in PinRecords /\ v.id = q.id /\ v.attempts = q.attempts + 1 /\ v.locked = q.locked
    BY <1>1 DEF PinRecords
  <2>2. IncrementPINFailedAttempts(pins, q.id) = Without(pins, q.id) \cup {v}
    BY <1>1 DEF IncrementPINFailedAttempts
  <2> HIDE DEF v
  <2> QED BY <2>1, <2>2, PinReplaced
<1>3. \E v \in PinRecords :
        /\ PinBecomes(LockPIN(pins, q.id), q.id, v)
        /\ v.attempts = q.attempts /\ v.locked = TRUE
  <2> DEFINE v == [q EXCEPT !.locked = TRUE]
  <2>1. v \in PinRecords /\ v.id = q.id /\ v.attempts = q.attempts /\ v.locked = TRUE
    BY <1>1 DEF PinRecords
  <2>2. LockPIN(pins, q.id) = Without(pins, q.id) \cup {v}
    BY <1>1 DEF LockPIN
  <2> HIDE DEF v
  <2> QED BY <2>1, <2>2, PinReplaced
<1>4. \E v \in PinRecords :
        /\ PinBecomes(ResetPINFailedAttempts(pins, q.id), q.id, v)
        /\ v.attempts = 0 /\ v.locked = FALSE
  <2> DEFINE v == [q EXCEPT !.attempts = 0, !.locked = FALSE]
  <2>1. v \in PinRecords /\ v.id = q.id /\ v.attempts = 0 /\ v.locked = FALSE
    BY <1>1 DEF PinRecords
  <2>2. ResetPINFailedAttempts(pins, q.id) = Without(pins, q.id) \cup {v}
    BY <1>1 DEF ResetPINFailedAttempts
  <2> HIDE DEF v
  <2> QED BY <2>1, <2>2, PinReplaced
<1>5. ASSUME NEW hash \in Pins
      PROVE  \E v \in PinRecords :
               /\ PinBecomes(UpdatePINHash(pins, q.id, hash), q.id, v)
               /\ v.attempts = 0 /\ v.locked = FALSE
  <2> DEFINE v == Pin(q.id, hash)
  <2>1. v \in PinRecords /\ v.id = q.id /\ v.attempts = 0 /\ v.locked = FALSE
    BY <1>1 DEF PinRecords, Pin
  <2>2. UpdatePINHash(pins, q.id, hash) = Without(pins, q.id) \cup {v}
    BY <1>1 DEF UpdatePINHash
  <2> HIDE DEF v
  <2> QED BY <2>1, <2>2, PinReplaced
<1>6. \E v \in PinRecords :
        /\ PinBecomes(Without(pins, q.id) \cup {[q EXCEPT !.locked = FALSE]}, q.id, v)
        /\ v.attempts = q.attempts /\ v.locked = FALSE
  <2> DEFINE v == [q EXCEPT !.locked = FALSE]
  <2>1. v \in PinRecords /\ v.id = q.id /\ v.attempts = q.attempts /\ v.locked = FALSE
    BY <1>1 DEF PinRecords
  <2> HIDE DEF v
  <2>2. PinBecomes(Without(pins, q.id) \cup {v}, q.id, v)
    BY <2>1, PinReplaced
  <2> QED BY <2>1, <2>2 DEF v
<1> QED BY <1>2, <1>3, <1>4, <1>5, <1>6

LEMMA PinCreated ==
  ASSUME PinTable(pins), NEW id \in Users, NEW hash \in Pins, \A p \in pins : p.id # id
  PROVE  PinBecomes(CreatePIN(pins, Pin(id, hash)), id, Pin(id, hash))
<1>1. Pin(id, hash) \in PinRecords /\ Pin(id, hash).id = id
  BY DEF Pin, PinRecords
<1>2. CreatePIN(pins, Pin(id, hash)) = Without(pins, id) \cup {Pin(id, hash)}
  BY PinRow DEF CreatePIN
<1> QED BY <1>1, <1>2, PinReplaced

-----------------------------------------------------------------------------
(* The shape of the state *)

\* A call that ends or goes on with what it was given; the others stay.
Carried(c) ==
  /\ CallsFit' /\ Busy' \subseteq Busy
  /\ \A d \in SessionCalls \ {c} : calls'[d] = calls[d]
  /\ \/ calls'[c] = Idle
     \/ /\ calls'[c].op = calls[c].op /\ calls'[c].id = calls[c].id
        /\ calls'[c].hash = calls[c].hash

\* A call that goes on as what it was.
LEMMA CarriedOn ==
  ASSUME CallsFit, NEW c \in SessionCalls, NEW x, CallFits(x), c \in Busy,
         x.op = calls[c].op, x.id = calls[c].id, x.hash = calls[c].hash,
         calls' = [calls EXCEPT ![c] = x]
  PROVE  Carried(c)
<1>1. /\ CallsFit' /\ calls'[c] = x
      /\ \A d \in SessionCalls \ {c} : calls'[d] = calls[d]
      /\ Busy' = IF x.op = "idle" THEN Busy \ {c} ELSE Busy \cup {c}
  BY CallTurns
<1>2. Busy' \subseteq Busy
  BY <1>1
<1> QED BY <1>1, <1>2 DEF Carried

LEMMA GoneOn ==
  ASSUME CallsFit, NEW c \in SessionCalls
  PROVE  /\ Answer(c) => Carried(c)
         /\ \A s \in SessionSteps \ {"idle"} :
              /\ Goto(c, s) /\ calls[c].step # "idle"
              /\ s \in {"count", "lock", "forgive"} => calls[c].op \in {"login", "verifypin"}
              => Carried(c)
<1>1. Answer(c) => Carried(c)
  BY AnswerTurns DEF Carried
<1>2. ASSUME NEW s \in SessionSteps \ {"idle"}, Goto(c, s), calls[c].step # "idle",
             s \in {"count", "lock", "forgive"} => calls[c].op \in {"login", "verifypin"}
      PROVE  Carried(c)
  BY <1>2, GotoTurns DEF Carried
<1> QED BY <1>1, <1>2

\* The tables of a step, and everything else that has a type.
TablesAfter ==
  /\ UserTable(users') /\ PinTable(pins') /\ redisVersion' \in [Accounts -> Nat]
  /\ TokenTable(tokens') /\ Cardinality(tokens') = Cardinality(tokens)
  /\ \A t \in tokens : \E s \in tokens' : s.hash = t.hash /\ s.user = t.user
  /\ ops' = ops /\ origin' \in [Hashes -> OriginRecords]
  /\ guesses' \in [Users -> Nat] /\ openings' \in [Users -> Nat]

LEMMA Counts ==
  ASSUME SessionsShape
  PROVE  /\ Cardinality(tokens) \in Nat /\ IsFiniteSet(Busy) /\ Cardinality(Busy) \in Nat
         /\ IsFiniteSet(SessionCalls) /\ Cardinality(SessionCalls) \in Nat
         /\ \A c \in Busy : NewHash \in Hashes
<1>1. IsFiniteSet(SessionCalls) /\ MaxOps \in Nat
  BY SessionsAssumption
<1>2. Busy \in SUBSET SessionCalls /\ IsFiniteSet(tokens)
  BY DEF Busy, SessionsShape, TokenTable
<1>3. IsFiniteSet(Busy) /\ Cardinality(Busy) \in Nat /\ Cardinality(tokens) \in Nat
      /\ Cardinality(SessionCalls) \in Nat
  BY <1>1, <1>2, FS_Subset, FS_CardinalityType
<1>4. ASSUME NEW c \in Busy PROVE NewHash \in Hashes
  <2>1. Cardinality(Busy) # 0
    BY <1>3, <1>4, FS_EmptySet
  <2> QED BY <1>1, <1>3, <2>1 DEF SessionsShape, NewHash, Hashes
<1> QED BY <1>1, <1>3, <1>4

LEMMA ShapeKept ==
  ASSUME SessionsShape, CallsFit', Busy' \subseteq Busy, TablesAfter,
         \A d \in SessionCalls :
           \/ calls'[d] = Idle
           \/ /\ calls'[d].op = calls[d].op /\ calls'[d].id = calls[d].id
              /\ calls'[d].hash = calls[d].hash
  PROVE  SessionsShape'
<1>1. Cardinality(Busy') <= Cardinality(Busy) /\ Cardinality(Busy') \in Nat
  BY Counts, FS_Subset, FS_CardinalityType
<1>2. ASSUME NEW d \in SessionCalls PROVE Presents(calls'[d], tokens')
  <2>1. Presents(calls[d], tokens)
    BY DEF SessionsShape
  <2>2. CASE calls'[d] = Idle
    BY <2>2 DEF Presents, Idle
  <2>3. CASE calls'[d] # Idle
    <3>1. calls'[d].op = calls[d].op /\ calls'[d].id = calls[d].id /\ calls'[d].hash = calls[d].hash
      BY <2>3
    <3> QED BY <2>1, <3>1 DEF Presents, TablesAfter
  <2> QED BY <2>2, <2>3
<1>3. Cardinality(tokens') + Cardinality(Busy') <= ops' + 1
  BY <1>1, Counts DEF SessionsShape, TablesAfter
<1> QED
  BY <1>2, <1>3 DEF SessionsShape, TablesAfter

LEMMA ShapeCarried ==
  ASSUME SessionsShape, NEW c \in SessionCalls, Carried(c), TablesAfter
  PROVE  SessionsShape'
<1>1. ASSUME NEW d \in SessionCalls
      PROVE  \/ calls'[d] = Idle
             \/ /\ calls'[d].op = calls[d].op /\ calls'[d].id = calls[d].id
                /\ calls'[d].hash = calls[d].hash
  BY DEF Carried
<1> QED
  BY <1>1, ShapeKept DEF Carried

LEMMA TablesSame ==
  ASSUME SessionsShape
  PROVE  /\ UserTable(users) /\ PinTable(pins) /\ TokenTable(tokens) /\ CallsFit
         /\ redisVersion \in [Accounts -> Nat] /\ origin \in [Hashes -> OriginRecords]
         /\ guesses \in [Users -> Nat] /\ openings \in [Users -> Nat]
         /\ \A t \in tokens : \E s \in tokens : s.hash = t.hash /\ s.user = t.user
BY DEF SessionsShape

\* The calls that only read, and the step each goes to.
OnlyReads(c) ==
  \/ LoginCheck(c) \/ AdminLoginCheck(c) \/ LoadContext(c) \/ SetPIN(c) \/ UpdatePIN(c)
  \/ RefreshAccount(c) \/ VersionsRaised(c) \/ CheckOldPassword(c) \/ FindResetUser(c)

LEMMA ReadsCarry ==
  ASSUME SessionsShape, NEW c \in SessionCalls, OnlyReads(c)
  PROVE  Carried(c) /\ UNCHANGED <<rowVars, ops, ghostVars>>
<1>1. CallsFit
  BY DEF SessionsShape
<1> USE GoneOn, <1>1 DEF At, Same, SessionSteps
<1>2. CASE LoginCheck(c)
  BY <1>2 DEF LoginCheck
<1>3. CASE AdminLoginCheck(c)
  BY <1>3 DEF AdminLoginCheck
<1>4. CASE LoadContext(c)
  BY <1>4 DEF LoadContext
<1>5. CASE SetPIN(c)
  BY <1>5 DEF SetPIN
<1>6. CASE UpdatePIN(c)
  BY <1>6 DEF UpdatePIN
<1>7. CASE RefreshAccount(c)
  BY <1>7 DEF RefreshAccount
<1>8. CASE VersionsRaised(c)
  BY <1>8 DEF VersionsRaised
<1>9. CASE CheckOldPassword(c)
  BY <1>9 DEF CheckOldPassword
<1>10. CASE FindResetUser(c)
  BY <1>10 DEF FindResetUser
<1> QED
  BY <1>2, <1>3, <1>4, <1>5, <1>6, <1>7, <1>8, <1>9, <1>10 DEF OnlyReads

LEMMA ReadsShape ==
  ASSUME SessionsShape, NEW c \in SessionCalls, OnlyReads(c)
  PROVE  SessionsShape'
<1>1. TablesAfter
  BY ReadsCarry, TablesSame DEF TablesAfter, rowVars, ghostVars
<1> QED BY <1>1, ReadsCarry, ShapeCarried

LEMMA PinShape ==
  ASSUME SessionsShape, NEW c \in SessionCalls,
         \/ VerifyPIN(c) \/ CountAttempt(c) \/ LockAfterAttempts(c) \/ ForgiveAttempts(c)
         \/ InsertPIN(c) \/ WritePIN(c)
  PROVE  SessionsShape' /\ Carried(c)
<1>1. CallsFit /\ CallFits(calls[c])
  BY DEF SessionsShape, CallsFit
<1>2. PinTable(pins)
  BY DEF SessionsShape
<1>3. SUFFICES Carried(c) /\ TablesAfter
  BY ShapeCarried
<1> DEFINE id == calls[c].id
<1>4. calls[c].step \in {"count", "lock", "forgive"} \/ calls[c].op \in {"login", "verifypin", "setpin", "updatepin"}
        => id \in Users
  BY <1>1 DEF CallFits
<1>5. CASE VerifyPIN(c)
  <2>1. Carried(c)
    BY <1>1, <1>5, GoneOn DEF VerifyPIN, At, AfterPin, SessionSteps
  <2>2. guesses' \in [Users -> Nat]
    BY <1>4, <1>5, TablesSame DEF VerifyPIN, At
  <2> QED
    BY <1>5, <2>1, <2>2, TablesSame DEF VerifyPIN, TablesAfter, rowVars, Same
<1>6. CASE CountAttempt(c)
  <2>1. Carried(c)
    BY <1>1, <1>6, GoneOn DEF CountAttempt, At, SessionSteps
  <2>2. PinTable(pins')
    <3>1. CASE \E q \in pins : q.id = id
      BY <1>2, <1>6, <3>1, PinStatements DEF CountAttempt, PinBecomes
    <3>2. CASE \A q \in pins : q.id # id
      BY <1>2, <1>6, <3>2, PinRow DEF CountAttempt, IncrementPINFailedAttempts
    <3> QED BY <3>1, <3>2
  <2> QED
    BY <1>6, <2>1, <2>2, TablesSame DEF CountAttempt, TablesAfter, ghostVars, Same
<1>7. CASE LockAfterAttempts(c)
  <2>1. Carried(c)
    BY <1>1, <1>7, GoneOn DEF LockAfterAttempts
  <2>2. PinTable(pins')
    <3>1. CASE \E q \in pins : q.id = id
      BY <1>2, <1>7, <3>1, PinStatements DEF LockAfterAttempts, PinBecomes
    <3>2. CASE \A q \in pins : q.id # id
      BY <1>2, <1>7, <3>2, PinRow DEF LockAfterAttempts, LockPIN
    <3> QED BY <3>1, <3>2
  <2> QED
    BY <1>7, <2>1, <2>2, TablesSame DEF LockAfterAttempts, TablesAfter, ghostVars, Same
<1>8. CASE ForgiveAttempts(c)
  <2>1. Carried(c)
    BY <1>1, <1>8, GoneOn DEF ForgiveAttempts, At, AfterPin, SessionSteps
  <2>2. PinTable(pins')
    <3>1. CASE \E q \in pins : q.id = id
      BY <1>2, <1>8, <3>1, PinStatements DEF ForgiveAttempts, PinBecomes
    <3>2. CASE \A q \in pins : q.id # id
      BY <1>2, <1>8, <3>2, PinRow DEF ForgiveAttempts, ResetPINFailedAttempts
    <3> QED BY <3>1, <3>2
  <2>3. guesses' \in [Users -> Nat] /\ openings' \in [Users -> Nat]
    BY <1>4, <1>8, TablesSame DEF ForgiveAttempts
  <2> QED
    BY <1>8, <2>1, <2>2, <2>3, TablesSame DEF ForgiveAttempts, TablesAfter, Same
<1>9. CASE InsertPIN(c)
  <2>1. Carried(c)
    BY <1>1, <1>9, GoneOn DEF InsertPIN
  <2>2. id \in Users /\ calls[c].secret \in Pins
    BY <1>1, <1>9 DEF InsertPIN, At, CallFits
  <2>3. PinTable(pins')
    <3>1. CASE PINExists(pins, id)
      BY <1>2, <1>9, <3>1 DEF InsertPIN, PinRepoCreate, Succeeds, Fail, MapDBErrors
    <3>2. CASE ~PINExists(pins, id)
      <4>1. \A q \in pins : q.id # id
        BY <3>2 DEF PINExists, RowsOf
      <4>2. pins' = CreatePIN(pins, Pin(id, calls[c].secret))
        BY <1>9, <3>2 DEF InsertPIN, PinRepoCreate, Succeeds, Ok
      <4> QED BY <1>2, <2>2, <4>1, <4>2, PinCreated DEF PinBecomes
    <3> QED BY <3>1, <3>2
  <2> QED
    BY <1>9, <2>1, <2>3, TablesSame DEF InsertPIN, TablesAfter, ghostVars, Same
<1>10. CASE WritePIN(c)
  <2>1. Carried(c)
    BY <1>1, <1>10, GoneOn DEF WritePIN
  <2>2. id \in Users /\ calls[c].secret \in Pins
    BY <1>1, <1>10 DEF WritePIN, At, CallFits
  <2>3. PinTable(pins')
    <3>1. CASE \E q \in pins : q.id = id
      <4>1. PICK q \in pins : q.id = id
        BY <3>1
      <4>2. \A hash \in Pins : \E v \in PinRecords : PinBecomes(UpdatePINHash(pins, q.id, hash), q.id, v)
        <5>1. \A hash \in Pins : \E v \in PinRecords :
                /\ PinBecomes(UpdatePINHash(pins, q.id, hash), q.id, v)
                /\ v.attempts = 0 /\ v.locked = FALSE
          BY <1>2, PinStatements
        <5> QED BY <5>1
      <4> QED BY <1>10, <2>2, <4>1, <4>2 DEF WritePIN, PinBecomes
    <3>2. CASE \A q \in pins : q.id # id
      BY <1>2, <1>10, <3>2, PinRow DEF WritePIN, UpdatePINHash
    <3> QED BY <3>1, <3>2
  <2>4. guesses' \in [Users -> Nat] /\ openings' \in [Users -> Nat]
    BY <1>10, <2>2, TablesSame DEF WritePIN
  <2> QED
    BY <1>10, <2>1, <2>3, <2>4, TablesSame DEF WritePIN, TablesAfter, Same
<1> QED
  BY <1>5, <1>6, <1>7, <1>8, <1>9, <1>10

LEMMA SessionShape ==
  ASSUME SessionsShape, NEW c \in SessionCalls,
         \/ LookupToken(c) \/ RevokeToken(c) \/ IncrementVersion(c) \/ UpgradeVersion(c)
         \/ VersionFails(c) \/ AbortVersions(c) \/ WritePassword(c) \/ FailCall(c)
  PROVE  SessionsShape' /\ Carried(c)
<1>1. CallsFit /\ CallFits(calls[c]) /\ calls[c] \in SessionRecords
  BY DEF SessionsShape, CallsFit
<1>2. UserTable(users) /\ TokenTable(tokens)
  BY DEF SessionsShape
<1>3. SUFFICES Carried(c) /\ TablesAfter
  BY ShapeCarried
<1> DEFINE id == calls[c].id
<1>4. calls[c].op # "idle" => id \in Accounts
  BY <1>1 DEF CallFits
<1>5. CASE LookupToken(c)
  <2>1. ASSUME calls[c].op = "refresh", calls[c].step = "lookup",
               calls' = [calls EXCEPT ![c].step = "account",
                                      ![c].password = origin[calls[c].hash].password,
                                      ![c].late = @ \/ origin[calls[c].hash].late]
        PROVE  Carried(c)
    <3> DEFINE word == origin[calls[c].hash].password
               late == calls[c].late \/ origin[calls[c].hash].late
               x == [[[calls[c] EXCEPT !.step = "account"] EXCEPT !.password = word] EXCEPT !.late = late]
    <3>1. calls[c].hash \in Hashes
      BY <1>1, <2>1, SessionsAssumption DEF CallFits, SessionRecords, Hashes
    <3>2. word \in Secrets /\ late \in BOOLEAN
      BY <1>1, <3>1 DEF SessionsShape, OriginRecords, SessionRecords
    <3>3. calls' = [calls EXCEPT ![c] = x]
      BY <1>1, <2>1 DEF CallsFit, SessionRecords
    <3> HIDE DEF word, late
    <3>4. /\ x \in SessionRecords /\ x.op = calls[c].op /\ x.id = calls[c].id /\ x.hash = calls[c].hash
          /\ x.step = "account" /\ x.secret = calls[c].secret
      BY <1>1, <3>2 DEF SessionRecords, SessionSteps
    <3> HIDE DEF x
    <3>5. CallFits(x) /\ c \in Busy
      BY <1>1, <2>1, <3>4 DEF CallFits, Busy
    <3> QED
      BY <1>1, <2>1, <3>3, <3>4, <3>5, CallTurns DEF Carried
  <2>2. Carried(c)
    BY <1>1, <1>5, <2>1, GoneOn DEF LookupToken, At, SessionSteps
  <2> QED
    BY <1>5, <2>2, TablesSame DEF LookupToken, TablesAfter, rowVars, ghostVars, Same
<1>6. CASE RevokeToken(c)
  <2>1. Carried(c)
    BY <1>1, <1>6, GoneOn DEF RevokeToken, At, SessionSteps
  <2>2. Revised(tokens, tokens', {t \in tokens : t.hash = calls[c].hash})
    BY <1>2, <1>6, TokenRevoked DEF RevokeToken
  <2>3. /\ TokenTable(tokens') /\ Cardinality(tokens') = Cardinality(tokens)
        /\ \A t \in tokens : \E s \in tokens' : s.hash = t.hash /\ s.user = t.user
    BY <1>2, <2>2 DEF Revised, TokenTable
  <2> QED
    BY <1>6, <2>1, <2>3, TablesSame DEF RevokeToken, TablesAfter, ghostVars, Same
<1>7. CASE IncrementVersion(c)
  <2>1. CASE UNCHANGED users /\ calls' = [calls EXCEPT ![c].step = "aborted"]
    <3>1. Carried(c)
      BY <1>1, <1>7, <2>1, GoneOn DEF IncrementVersion, At, SessionSteps, Goto
    <3> QED
      BY <1>7, <2>1, <3>1, TablesSame DEF IncrementVersion, TablesAfter, ghostVars, Same
  <2>2. CASE /\ users' = IncrementTokenVersion(users, id)
             /\ calls' = [calls EXCEPT ![c].todo = @ \ {"postgres"}]
    <3> DEFINE x == [calls[c] EXCEPT !.todo = @ \ {"postgres"}]
    <3>1. /\ x \in SessionRecords /\ x.op = calls[c].op /\ x.id = calls[c].id /\ x.hash = calls[c].hash
          /\ x.step = calls[c].step /\ x.secret = calls[c].secret
      BY <1>1 DEF SessionRecords
    <3>2. calls' = [calls EXCEPT ![c] = x]
      BY <1>1, <2>2
    <3> HIDE DEF x
    <3>3. CallFits(x) /\ c \in Busy
      BY <1>1, <1>7, <3>1 DEF CallFits, Busy, IncrementVersion, At
    <3>4. Carried(c)
      BY <1>1, <3>1, <3>2, <3>3, CarriedOn
    <3> QED
      BY <1>2, <1>7, <2>2, <3>4, TablesSame, VersionRaised DEF IncrementVersion, TablesAfter, ghostVars, Same
  <2> QED
    BY <1>7, <2>1, <2>2 DEF IncrementVersion, RepoIncrementTokenVersion, Succeeds, Ok, Fail
<1>8. CASE UpgradeVersion(c)
  <2> DEFINE x == [calls[c] EXCEPT !.todo = @ \ {"redis"}]
  <2>1. /\ x \in SessionRecords /\ x.op = calls[c].op /\ x.id = calls[c].id /\ x.hash = calls[c].hash
        /\ x.step = calls[c].step /\ x.secret = calls[c].secret
    BY <1>1 DEF SessionRecords
  <2>2. calls' = [calls EXCEPT ![c] = x]
    BY <1>8 DEF UpgradeVersion
  <2> HIDE DEF x
  <2>3. CallFits(x) /\ c \in Busy
    BY <1>1, <1>8, <2>1 DEF CallFits, Busy, UpgradeVersion, At
  <2>4. Carried(c)
    BY <1>1, <2>1, <2>2, <2>3, CarriedOn
  <2>5. redisVersion' \in [Accounts -> Nat]
    BY <1>1, <1>4, <1>8, TablesSame DEF UpgradeVersion, At
  <2> QED
    BY <1>8, <2>4, <2>5, TablesSame DEF UpgradeVersion, TablesAfter, ghostVars, Same
<1>9. CASE VersionFails(c)
  <2>1. Carried(c)
    BY <1>1, <1>9, GoneOn DEF VersionFails, At, SessionSteps
  <2> QED
    BY <1>9, <2>1, TablesSame DEF VersionFails, TablesAfter, rowVars, ghostVars
<1>10. CASE AbortVersions(c)
  <2>1. Carried(c)
    BY <1>1, <1>10, GoneOn DEF AbortVersions
  <2>2. UserTable(users')
    BY <1>2, <1>10, VersionRaised DEF AbortVersions
  <2>3. redisVersion' \in [Accounts -> Nat]
    BY <1>1, <1>4, <1>10, TablesSame DEF AbortVersions, At
  <2> QED
    BY <1>10, <2>1, <2>2, <2>3, TablesSame DEF AbortVersions, TablesAfter, Same
<1>11. CASE WritePassword(c)
  <2>1. Carried(c)
    BY <1>1, <1>11, GoneOn DEF WritePassword, At, SessionSteps
  <2>2. calls[c].secret \in Passwords
    BY <1>1, <1>11 DEF WritePassword, At, CallFits
  <2>3. UserTable(users')
    BY <1>2, <1>11, <2>2, PasswordWritten DEF WritePassword
  <2> QED
    BY <1>11, <2>1, <2>3, TablesSame DEF WritePassword, TablesAfter, ghostVars, Same
<1>12. CASE FailCall(c)
  <2>1. Carried(c)
    BY <1>1, <1>12, GoneOn DEF FailCall
  <2>2. openings' \in [Users -> Nat]
    <3>1. calls[c].step \in {"count", "lock"} => id \in Users
      BY <1>1 DEF CallFits
    <3> QED BY <1>12, <3>1, TablesSame DEF FailCall
  <2> QED
    BY <1>12, <2>1, <2>2, TablesSame DEF FailCall, TablesAfter, rowVars
<1> QED
  BY <1>5, <1>6, <1>7, <1>8, <1>9, <1>10, <1>11, <1>12

\* RevokeAll ends its own call and marks those that will store a token.
LEMMA Overtaken ==
  ASSUME CallsFit, NEW c \in SessionCalls, calls[c].step # "idle", RevokeAll(c)
  PROVE  /\ CallsFit' /\ Busy' \subseteq Busy /\ calls'[c] = Idle
         /\ \A d \in SessionCalls \ {c} :
              /\ calls'[d].op = calls[d].op /\ calls'[d].step = calls[d].step
              /\ calls'[d].id = calls[d].id /\ calls'[d].password = calls[d].password
              /\ calls'[d].secret = calls[d].secret /\ calls'[d].hash = calls[d].hash
              /\ calls'[d].todo = calls[d].todo
              /\ calls[d].late => calls'[d].late
              /\ calls[d].id = calls[c].id /\ calls[d].op \in {"login", "refresh"} => calls'[d].late
<1> DEFINE after == Overtake(calls[c].id)
<1>1. ASSUME NEW d \in SessionCalls
      PROVE  /\ after[d] \in SessionRecords
             /\ after[d].op = calls[d].op /\ after[d].step = calls[d].step
             /\ after[d].id = calls[d].id /\ after[d].password = calls[d].password
             /\ after[d].secret = calls[d].secret /\ after[d].hash = calls[d].hash
             /\ after[d].todo = calls[d].todo
             /\ calls[d].late => after[d].late
             /\ calls[d].id = calls[c].id /\ calls[d].op \in {"login", "refresh"} => after[d].late
  <2>1. calls[d] \in SessionRecords
    BY DEF CallsFit
  <2>2. [calls[d] EXCEPT !.late = TRUE] \in SessionRecords
    BY <2>1 DEF SessionRecords
  <2> QED BY <2>1, <2>2 DEF Overtake, SessionRecords
<1>2. ASSUME NEW d \in SessionCalls PROVE CallFits(after[d])
  <2> HIDE DEF after
  <2>1. CallFits(calls[d])
    BY DEF CallsFit
  <2> QED BY <1>1, <2>1 DEF CallFits
<1>3. calls' = [after EXCEPT ![c] = Idle] /\ DOMAIN after = SessionCalls
  BY DEF RevokeAll, Overtake
<1> HIDE DEF after
<1>4. calls'[c] = Idle /\ \A d \in SessionCalls \ {c} : calls'[d] = after[d]
  BY <1>3
<1>5. CallsFit'
  <2>1. calls' \in [SessionCalls -> SessionRecords]
    <3>1. after = [d \in SessionCalls |-> after[d]]
      BY DEF after, Overtake
    <3> QED BY <1>1, <1>3, <3>1, IdleFits DEF CallFits
  <2> QED BY <1>2, <1>4, <2>1, IdleFits DEF CallsFit
<1>6. Busy' \subseteq Busy
  BY <1>1, <1>4, IdleFits DEF Busy
<1> QED BY <1>1, <1>4, <1>5, <1>6

LEMMA RevokeAllShape ==
  ASSUME SessionsShape, NEW c \in SessionCalls, RevokeAll(c)
  PROVE  SessionsShape'
<1>1. CallsFit /\ TokenTable(tokens)
  BY DEF SessionsShape
<1>2. calls[c].step # "idle"
  BY DEF RevokeAll, At
<1>3. Revised(tokens, tokens', {t \in tokens : t.user = calls[c].id})
  BY <1>1, AllTokensRevoked DEF RevokeAll
<1>4. /\ TokenTable(tokens') /\ Cardinality(tokens') = Cardinality(tokens)
      /\ \A t \in tokens : \E s \in tokens' : s.hash = t.hash /\ s.user = t.user
  BY <1>1, <1>3 DEF Revised, TokenTable
<1>5. TablesAfter
  BY <1>4, TablesSame DEF RevokeAll, TablesAfter, Same
<1> QED BY <1>1, <1>2, <1>5, Overtaken, ShapeKept

LEMMA PersistShape ==
  ASSUME SessionsShape, NEW c \in SessionCalls, PersistToken(c)
  PROVE  /\ SessionsShape' /\ Carried(c) /\ NewHash \in Hashes
         /\ Cardinality(tokens') = Cardinality(tokens) + 1
         /\ \A t \in tokens : t \in tokens' /\ t.hash # NewHash
         /\ \A t \in tokens' : t \in tokens \/ (t.hash = NewHash /\ t.user = calls[c].id)
<1>1. CallsFit /\ CallFits(calls[c]) /\ calls[c] \in SessionRecords /\ TokenTable(tokens)
  BY DEF SessionsShape, CallsFit
<1>2. c \in Busy /\ calls[c].id \in Accounts
  BY <1>1 DEF PersistToken, At, Busy, CallFits
<1>3. NewHash \in Hashes
  BY <1>2, Counts
<1>4. Carried(c) /\ calls'[c] = Idle /\ Busy' = Busy \ {c}
  BY <1>1, AnswerTurns, GoneOn DEF PersistToken
<1>5. /\ TokenTable(tokens') /\ Cardinality(tokens') = Cardinality(tokens) + 1
      /\ \A t \in tokens : t \in tokens' /\ t.hash # NewHash
      /\ \A t \in tokens' : t \in tokens \/ (t.hash = NewHash /\ t.user = calls[c].id)
  BY <1>1, <1>2, <1>3, TokenCreated DEF PersistToken
<1>6. Cardinality(Busy') = Cardinality(Busy) - 1
  BY <1>2, <1>4, Counts, FS_RemoveElement
<1>7. Cardinality(tokens') + Cardinality(Busy') <= ops' + 1
  BY <1>5, <1>6, Counts DEF SessionsShape, PersistToken, Same
<1>8. ASSUME NEW d \in SessionCalls PROVE Presents(calls'[d], tokens')
  BY <1>4, <1>5, IdleFits DEF SessionsShape, Presents, Carried
<1>9. origin' \in [Hashes -> OriginRecords]
  <2> DEFINE new == [password |-> calls[c].password, replaces |-> calls[c].hash, late |-> calls[c].late]
  <2>1. new \in OriginRecords
    BY <1>1 DEF SessionRecords, OriginRecords
  <2>2. origin' = [origin EXCEPT ![NewHash] = new]
    BY DEF PersistToken
  <2> HIDE DEF new
  <2> QED BY <2>1, <2>2, TablesSame
<1> QED
  BY <1>3, <1>4, <1>5, <1>7, <1>8, <1>9, TablesSame DEF SessionsShape, PersistToken, Same, Carried

LEMMA StartShape ==
  ASSUME SessionsShape, NEW c \in SessionCalls, NEW r \in Requests, Start(c, r)
  PROVE  /\ SessionsShape' /\ calls[c].step = "idle"
         /\ calls'[c] = Called(r) /\ \A d \in SessionCalls \ {c} : calls'[d] = calls[d]
<1> DEFINE x == Called(r)
<1>1. CallsFit /\ TokenTable(tokens) /\ ops \in 0 .. MaxOps /\ MaxOps \in Nat
  BY SessionsAssumption DEF SessionsShape
<1>2. CallFits(x) /\ x.op # "idle" /\ Presents(x, tokens)
  BY <1>1, RequestCalled
<1>3. calls' = [calls EXCEPT ![c] = x]
  BY DEF Start
<1> HIDE DEF x
<1>4. /\ CallsFit' /\ calls'[c] = x /\ \A d \in SessionCalls \ {c} : calls'[d] = calls[d]
      /\ Busy' = Busy \cup {c}
  BY <1>1, <1>2, <1>3, CallTurns
<1>5. Cardinality(Busy') \in Nat /\ Cardinality(Busy') <= Cardinality(Busy) + 1
  <2>1. IsFiniteSet(Busy) /\ Cardinality(Busy) \in Nat
    BY Counts
  <2>2. Cardinality(Busy \cup {c}) = IF c \in Busy THEN Cardinality(Busy) ELSE Cardinality(Busy) + 1
    BY <2>1, FS_AddElement
  <2> QED BY <1>4, <2>1, <2>2
<1>6. ops' \in 0 .. MaxOps /\ ops' = ops + 1 /\ UNCHANGED <<rowVars, ghostVars>>
  BY <1>1 DEF Start
<1>7. Cardinality(tokens') + Cardinality(Busy') <= ops' + 1
  BY <1>1, <1>5, <1>6, Counts DEF SessionsShape, rowVars
<1>8. \A d \in SessionCalls : Presents(calls'[d], tokens')
  BY <1>2, <1>4, <1>6 DEF SessionsShape, rowVars
<1>9. calls[c].step = "idle"
  BY <1>1 DEF CallsFit, CallFits, Start
<1> QED
  BY <1>4, <1>6, <1>7, <1>8, <1>9 DEF SessionsShape, rowVars, ghostVars, x

LEMMA LockRunsOutShape ==
  ASSUME SessionsShape, NEW u \in Users, LockRunsOut(u)
  PROVE  SessionsShape'
<1>1. PICK q \in RowsOf(pins, u) :
        q.locked /\ pins' = Without(pins, u) \cup {[q EXCEPT !.locked = FALSE]}
  BY DEF LockRunsOut
<1>2. q \in pins /\ q.id = u
  BY <1>1 DEF RowsOf
<1>3. PinTable(pins')
  BY <1>1, <1>2, PinStatements, TablesSame DEF PinBecomes
<1>4. openings' \in [Users -> Nat]
  BY TablesSame DEF LockRunsOut
<1> QED
  BY <1>3, <1>4 DEF SessionsShape, LockRunsOut, Same, CallsFit, Busy

LEMMA AdminFacts ==
  ASSUME SessionsShape, NEW u \in Users, AdminStep(u)
  PROVE  /\ UserTable(users') /\ ops' \in 0 .. MaxOps /\ ops' = ops + 1
         /\ UNCHANGED <<staff, tokens, pins, redisVersion, calls, origin, drifted, guesses, openings>>
         /\ \A x \in users, y \in users' : x.id = y.id =>
              y.version = x.version /\ (y.password = x.password \/ x.id \in loose')
         /\ loose \subseteq loose'
<1>1. UserTable(users) /\ ops \in 0 .. MaxOps /\ MaxOps \in Nat
  BY SessionsAssumption DEF SessionsShape
<1>2. ASSUME NEW p \in Passwords, AdminSetsPassword(u, p)
      PROVE  /\ UserTable(users') /\ ops' \in 0 .. MaxOps /\ ops' = ops + 1
             /\ UNCHANGED <<staff, tokens, pins, redisVersion, calls, origin, drifted, guesses, openings>>
             /\ \A x \in users, y \in users' : x.id = y.id =>
                  y.version = x.version /\ (y.password = x.password \/ x.id \in loose')
             /\ loose \subseteq loose'
  <2> DEFINE result == AdminUpdate(users, u, "none", p)
  <2>1. Succeeds(result) /\ users' = result.val /\ loose' = loose \cup {u}
    BY <1>2 DEF AdminSetsPassword
  <2>2. /\ UserTable(users')
        /\ \A x \in users, y \in users' : x.id = y.id =>
             y.version = x.version /\ (x.id # u => y.password = x.password)
    BY <1>1, <2>1, AdminWritten
  <2> QED BY <1>1, <1>2, <2>1, <2>2 DEF AdminSetsPassword
<1>3. ASSUME NEW s \in {"active", "suspended", "deleted"}, AdminSetsStatus(u, s)
      PROVE  /\ UserTable(users') /\ ops' \in 0 .. MaxOps /\ ops' = ops + 1
             /\ UNCHANGED <<staff, tokens, pins, redisVersion, calls, origin, drifted, guesses, openings>>
             /\ \A x \in users, y \in users' : x.id = y.id =>
                  y.version = x.version /\ (y.password = x.password \/ x.id \in loose')
             /\ loose \subseteq loose'
  <2>1. users' = UpdateUserStatus(users, u, s)
    BY <1>3 DEF AdminSetsStatus, SoftDeleteUser, UpdateUserStatus
  <2>2. /\ UserTable(users')
        /\ \A x \in users, y \in users' : x.id = y.id =>
             y.version = x.version /\ y.password = x.password
    BY <1>1, <2>1, StatusWritten
  <2> QED BY <1>1, <1>3, <2>2 DEF AdminSetsStatus, ghostVars
<1> QED BY <1>2, <1>3 DEF AdminStep

LEMMA AdminShape ==
  ASSUME SessionsShape, NEW u \in Users, AdminStep(u)
  PROVE  SessionsShape'
<1>1. Busy' = Busy /\ CallsFit'
  BY AdminFacts DEF Busy, CallsFit, SessionsShape
<1>2. Cardinality(tokens') + Cardinality(Busy') <= ops' + 1
  BY <1>1, AdminFacts, Counts DEF SessionsShape
<1> QED BY <1>1, <1>2, AdminFacts DEF SessionsShape

LEMMA InitShape == SessionsInit => SessionsShape
<1> SUFFICES ASSUME SessionsInit PROVE SessionsShape
  OBVIOUS
<1>1. PICK p \in Passwords, q \in Pins :
        /\ users = {[User(u, u, "none", u, p) EXCEPT !.status = "active"] : u \in Users}
        /\ pins \in {{}, {Pin(u, q) : u \in Users}}
  BY DEF SessionsInit
<1>2. UserTable(users)
  <2> DEFINE row(u) == [User(u, u, "none", u, p) EXCEPT !.status = "active"]
  <2>1. \A u \in Users : row(u) \in UserRecords /\ row(u).id = u /\ row(u).email = u
    BY DEF User, UserRecords
  <2>2. users = {row(u) : u \in Users}
    BY <1>1
  <2> HIDE DEF row
  <2>3. \A x \in users : \E u \in Users : x = row(u)
    BY <2>2
  <2>4. \A u \in Users : row(u) \in users
    BY <2>2
  <2>5. {x.id : x \in users} = Users
    <3>1. \A u \in Users : \E x \in users : x.id = u
      BY <2>1, <2>4
    <3>2. \A x \in users : x.id \in Users
      BY <2>1, <2>3
    <3> QED BY <3>1, <3>2
  <2> QED BY <2>1, <2>3, <2>5 DEF UserTable
<1>3. PinTable(pins)
  <2>1. \A u \in Users : Pin(u, q) \in PinRecords /\ Pin(u, q).id = u
    BY DEF Pin, PinRecords
  <2> QED BY <1>1, <2>1 DEF PinTable
<1>4. TokenTable(tokens) /\ Cardinality(tokens) \in {0, 1}
  <2>1. CASE tokens = {}
    <3>1. {t.hash : t \in tokens} = 1 .. 0
      BY <2>1
    <3> QED BY <2>1, <3>1, FS_EmptySet DEF TokenTable
  <2>2. CASE \E u \in Users : tokens = {RefreshToken(1, u)}
    <3>1. PICK u \in Users : tokens = {RefreshToken(1, u)}
      BY <2>2
    <3>2. RefreshToken(1, u) \in TokenRecords /\ RefreshToken(1, u).hash = 1
      BY SessionsAssumption DEF RefreshToken, TokenRecords, Hashes, Accounts
    <3>3. {t.hash : t \in tokens} = 1 .. 1
      BY <3>1, <3>2
    <3> QED BY <3>1, <3>2, <3>3, FS_Singleton DEF TokenTable
  <2> QED BY <2>1, <2>2 DEF SessionsInit
<1>5. CallsFit /\ Busy = {} /\ \A c \in SessionCalls : Presents(calls[c], tokens)
  BY IdleFits DEF SessionsInit, CallsFit, CallFits, Busy
<1>6. Cardinality(tokens) + Cardinality(Busy) <= ops + 1 /\ ops \in 0 .. MaxOps
  BY <1>4, <1>5, FS_EmptySet, SessionsAssumption DEF SessionsInit
<1>7. origin \in [Hashes -> OriginRecords]
  <2>1. PICK w \in {u.password : u \in users} :
          origin = [h \in Hashes |-> [password |-> w, replaces |-> 0, late |-> FALSE]]
    BY DEF SessionsInit
  <2>2. w \in Passwords
    BY <1>2 DEF UserTable, UserRecords
  <2> QED BY <2>1, <2>2, SessionsAssumption DEF OriginRecords, Secrets
<1> QED
  BY <1>2, <1>3, <1>4, <1>5, <1>6, <1>7 DEF SessionsInit, SessionsShape

LEMMA StepShape == SessionsShape /\ [SessionsNext]_sessionVars => SessionsShape'
<1> SUFFICES ASSUME SessionsShape, [SessionsNext]_sessionVars PROVE SessionsShape'
  OBVIOUS
<1>1. ASSUME NEW c \in SessionCalls, CallStep(c) PROVE SessionsShape'
  BY <1>1, ReadsShape, PinShape, SessionShape, RevokeAllShape, PersistShape DEF CallStep, OnlyReads
<1>2. ASSUME NEW c \in SessionCalls, NEW r \in Requests, Start(c, r) PROVE SessionsShape'
  BY <1>2, StartShape
<1>3. ASSUME NEW u \in Users, LockRunsOut(u) \/ AdminStep(u) PROVE SessionsShape'
  BY <1>3, LockRunsOutShape, AdminShape
<1>4. CASE UNCHANGED sessionVars
  BY <1>4 DEF sessionVars, rowVars, ghostVars, SessionsShape, CallsFit, Busy
<1> QED BY <1>1, <1>2, <1>3, <1>4 DEF SessionsNext

\* The rows, the calls and the counters of the auth service keep their shape:
\* tokens are numbered without gaps, one PIN per user, and a call at a step
\* has what that step reads (auth_usecase.go, userpin_usecase.go).
THEOREM SessionsTypeCorrect == SessionsSpec => []SessionsTypeOK
<1>1. SessionsShape => SessionsTypeOK
  BY DEF SessionsShape, SessionsTypeOK, UserTable, UserRecords, TokenTable, TokenRecords, PinTable,
         CallsFit, SessionRecords, Stores
<1> QED
  BY <1>1, InitShape, StepShape, PTL DEF SessionsSpec

-----------------------------------------------------------------------------
(* What the steps do to the calls *)

\* Where a call is counted, and where it is not, when only it moves.
LEMMA OneMoves ==
  ASSUME NEW S, IsFiniteSet(S), NEW A \in SUBSET S, NEW B \in SUBSET S, NEW c \in S,
         \A d \in S \ {c} : d \in A <=> d \in B
  PROVE  /\ Cardinality(A) \in Nat /\ Cardinality(B) \in Nat
         /\ Cardinality(A) <= Cardinality(S) /\ Cardinality(B) <= Cardinality(S)
         /\ (c \in A <=> c \in B) => Cardinality(B) = Cardinality(A)
         /\ c \in A /\ c \notin B => Cardinality(B) = Cardinality(A) - 1
         /\ c \notin A /\ c \in B => Cardinality(B) = Cardinality(A) + 1
<1>1. IsFiniteSet(A) /\ IsFiniteSet(B) /\ Cardinality(A) <= Cardinality(S) /\ Cardinality(B) <= Cardinality(S)
  BY FS_Subset
<1>2. Cardinality(A) \in Nat /\ Cardinality(B) \in Nat
  BY <1>1, FS_CardinalityType
<1>3. CASE c \in A <=> c \in B
  <2>1. A = B
    BY <1>3
  <2> QED BY <1>1, <1>2, <1>3, <2>1
<1>4. CASE c \in A /\ c \notin B
  <2>1. B = A \ {c}
    BY <1>4
  <2> QED BY <1>1, <1>2, <1>4, <2>1, FS_RemoveElement
<1>5. CASE c \notin A /\ c \in B
  <2>1. B = A \cup {c}
    BY <1>5
  <2> QED BY <1>1, <1>2, <1>5, <2>1, FS_AddElement
<1> QED BY <1>3, <1>4, <1>5

\* A call goes on to a step with what it was given.
Onward(c, s) ==
  /\ calls'[c].step = s
  /\ calls'[c].op = calls[c].op /\ calls'[c].id = calls[c].id
  /\ calls'[c].password = calls[c].password /\ calls'[c].secret = calls[c].secret
  /\ calls'[c].hash = calls[c].hash /\ calls'[c].todo = calls[c].todo
  /\ calls'[c].late = calls[c].late

LEMMA GotoOnward ==
  ASSUME CallsFit, NEW c \in SessionCalls, NEW s \in SessionSteps \ {"idle"}, calls[c].step # "idle",
         s \in {"count", "lock", "forgive"} => calls[c].op \in {"login", "verifypin"},
         Goto(c, s)
  PROVE  Onward(c, s)
BY GotoTurns DEF Onward

\* Which step each read leads to, and what a login has read by then.
LEMMA ReadsLead ==
  ASSUME SessionsShape, NEW c \in SessionCalls, OnlyReads(c)
  PROVE  \/ calls'[c] = Idle /\ calls[c].step \in {"check", "pin", "context", "account"}
         \/ /\ calls[c].op = "login" /\ calls[c].step = "check" /\ Onward(c, "pin")
            /\ \E u \in users : u.id = calls[c].id /\ u.password = calls[c].password
         \/ calls[c].op = "adminlogin" /\ calls[c].step = "check" /\ Onward(c, "persist")
         \/ calls[c].op = "login" /\ calls[c].step = "context" /\ Onward(c, "persist")
         \/ calls[c].op = "refresh" /\ calls[c].step = "context" /\ Onward(c, "revoke")
         \/ calls[c].op \in {"setpin", "updatepin"} /\ calls[c].step = "pin" /\ Onward(c, "write")
         \/ calls[c].op = "refresh" /\ calls[c].step = "account" /\ Onward(c, "context")
         \/ calls[c].step = "versions" /\ calls[c].todo = {} /\ Onward(c, "revokeall")
         \/ calls[c].op \in {"change", "reset"} /\ calls[c].step = "check" /\ Onward(c, "write")
<1>1. CallsFit /\ UserTable(users)
  BY DEF SessionsShape
<1> USE GotoOnward, AnswerTurns, <1>1 DEF At, Same, SessionSteps
<1>2. CASE LoginCheck(c)
  <2>1. CASE Authenticates(GetByEmail(users, calls[c].id), calls[c].password)
    <3>1. PICK row \in users : row.email = calls[c].id /\ row.password = calls[c].password
      <4> DEFINE found == GetUserByEmail(users, calls[c].id)
      <4>1. found # {}
        BY <2>1 DEF Authenticates, GetByEmail, OneRow, Succeeds, Fail
      <4>2. (CHOOSE r \in found : TRUE) \in found
        BY <4>1
      <4>3. (CHOOSE r \in found : TRUE).password = calls[c].password
        BY <2>1, <4>1 DEF Authenticates, GetByEmail, OneRow, Ok
      <4>4. \A r \in found : r \in users /\ r.email = calls[c].id
        BY DEF GetUserByEmail
      <4> HIDE DEF found
      <4> QED BY <4>2, <4>3, <4>4
    <3> QED BY <1>2, <2>1, <3>1 DEF LoginCheck, UserTable
  <2>2. CASE ~Authenticates(GetByEmail(users, calls[c].id), calls[c].password)
    BY <1>2, <2>2 DEF LoginCheck
  <2> QED BY <2>1, <2>2
<1>3. CASE AdminLoginCheck(c)
  BY <1>3 DEF AdminLoginCheck
<1>4. CASE LoadContext(c)
  BY <1>4 DEF LoadContext
<1>5. CASE SetPIN(c)
  BY <1>5 DEF SetPIN
<1>6. CASE UpdatePIN(c)
  BY <1>6 DEF UpdatePIN
<1>7. CASE RefreshAccount(c)
  BY <1>7 DEF RefreshAccount
<1>8. CASE VersionsRaised(c)
  BY <1>8 DEF VersionsRaised
<1>9. CASE CheckOldPassword(c)
  BY <1>9 DEF CheckOldPassword
<1>10. CASE FindResetUser(c)
  BY <1>10 DEF FindResetUser
<1> QED
  BY <1>2, <1>3, <1>4, <1>5, <1>6, <1>7, <1>8, <1>9, <1>10 DEF OnlyReads

\* Where the PIN leads a call.
PinSteps(c) ==
  \/ VerifyPIN(c) \/ CountAttempt(c) \/ LockAfterAttempts(c) \/ ForgiveAttempts(c)
  \/ InsertPIN(c) \/ WritePIN(c)

LEMMA PinLead ==
  ASSUME SessionsShape, NEW c \in SessionCalls, PinSteps(c)
  PROVE  /\ calls[c].step \in {"pin", "count", "lock", "forgive", "write"}
         /\ calls[c].op \in {"login", "verifypin", "setpin", "updatepin"} /\ calls[c].id \in Users
         /\ UNCHANGED <<users, staff, tokens, redisVersion, ops, origin, loose, drifted>>
         /\ \/ calls'[c] = Idle
            \/ /\ calls[c].op \in {"login", "verifypin"} /\ calls[c].step \in {"pin", "count", "forgive"}
               /\ \/ Onward(c, "count") \/ Onward(c, "forgive") \/ Onward(c, "lock")
                  \/ calls[c].op = "login" /\ Onward(c, "context")
<1>1. CallsFit /\ CallFits(calls[c])
  BY DEF SessionsShape, CallsFit
<1> USE GotoOnward, AnswerTurns, <1>1 DEF At, Same, SessionSteps, ghostVars
<1>2. CASE VerifyPIN(c)
  BY <1>2 DEF VerifyPIN, AfterPin, rowVars, CallFits
<1>3. CASE CountAttempt(c)
  BY <1>3 DEF CountAttempt, CallFits
<1>4. CASE LockAfterAttempts(c)
  BY <1>4 DEF LockAfterAttempts, CallFits
<1>5. CASE ForgiveAttempts(c)
  BY <1>5 DEF ForgiveAttempts, AfterPin, CallFits
<1>6. CASE InsertPIN(c)
  BY <1>6 DEF InsertPIN, CallFits
<1>7. CASE WritePIN(c)
  BY <1>7 DEF WritePIN, CallFits
<1> QED BY <1>2, <1>3, <1>4, <1>5, <1>6, <1>7 DEF PinSteps

\* A live token leads a call on; a refresh takes its password along.
LEMMA LookupLead ==
  ASSUME SessionsShape, NEW c \in SessionCalls, LookupToken(c)
  PROVE  /\ calls[c].step = "lookup" /\ UNCHANGED <<rowVars, ops, ghostVars>>
         /\ \/ calls'[c] = Idle
            \/ calls[c].op = "logout" /\ Onward(c, "revoke")
            \/ /\ calls[c].op = "refresh" /\ calls'[c].step = "account"
               /\ calls'[c].op = "refresh" /\ calls'[c].id = calls[c].id /\ calls'[c].hash = calls[c].hash
               /\ calls'[c].password = origin[calls[c].hash].password
               /\ origin[calls[c].hash].late => calls'[c].late
               /\ \E t \in tokens : t.hash = calls[c].hash /\ t.user = calls[c].id /\ ~t.revoked
<1>1. CallsFit /\ CallFits(calls[c]) /\ calls[c] \in SessionRecords /\ Presents(calls[c], tokens)
  BY DEF SessionsShape, CallsFit
<1>2. calls[c].step = "lookup" /\ calls[c].op \in {"logout", "refresh"} /\ UNCHANGED <<rowVars, ops, ghostVars>>
  BY DEF LookupToken, At, Same
<1> DEFINE found == GetByTokenHash(tokens, calls[c].hash)
           live == IF Succeeds(found) THEN ~found.val.revoked ELSE FALSE
<1>3. CASE Answer(c)
  BY <1>1, <1>2, <1>3, AnswerTurns
<1>4. CASE calls[c].op = "logout" /\ Goto(c, "revoke")
  BY <1>1, <1>2, <1>4, GotoOnward DEF SessionSteps
<1>5. CASE /\ live /\ calls[c].op = "refresh"
           /\ calls' = [calls EXCEPT ![c].step = "account",
                                     ![c].password = origin[calls[c].hash].password,
                                     ![c].late = @ \/ origin[calls[c].hash].late]
  <2>1. PICK t \in tokens : t.hash = calls[c].hash /\ t.user = calls[c].id
    BY <1>1, <1>5 DEF Presents
  <2>2. GetRefreshToken(tokens, calls[c].hash) = {t}
    BY <2>1 DEF GetRefreshToken, SessionsShape, TokenTable
  <2>3. found = Ok(t)
    BY <2>2 DEF GetByTokenHash, OneRow
  <2>4. ~t.revoked
    BY <1>5, <2>3 DEF Succeeds, Ok
  <2>5. /\ calls'[c].step = "account" /\ calls'[c].op = "refresh"
        /\ calls'[c].id = calls[c].id /\ calls'[c].hash = calls[c].hash
        /\ calls'[c].password = origin[calls[c].hash].password
        /\ calls'[c].late = (calls[c].late \/ origin[calls[c].hash].late)
    BY <1>1, <1>5 DEF CallsFit, SessionRecords
  <2> QED BY <1>2, <1>5, <2>1, <2>4, <2>5
<1> QED BY <1>3, <1>4, <1>5 DEF LookupToken

-----------------------------------------------------------------------------
(* The two versions *)

Raising == {"versions", "aborted"}

LEMMA OwingElsewhere ==
  ASSUME NEW c \in SessionCalls,
         \A d \in SessionCalls \ {c} :
           calls'[d].id = calls[d].id /\ calls'[d].step = calls[d].step /\ calls'[d].todo = calls[d].todo,
         calls[c].step \notin Raising \/ calls[c].todo = {},
         calls'[c].step \notin Raising \/ calls'[c].todo = {}
  PROVE  \A u \in Users, store \in Stores : Owing(u, store)' = Owing(u, store)
BY DEF Owing, Raising

LEMMA BalanceKept ==
  ASSUME SessionsShape, VersionsBalance, UserTable(users'),
         redisVersion' = redisVersion, drifted \subseteq drifted',
         \A x \in users, y \in users' : x.id = y.id => y.version = x.version,
         \A u \in Users, store \in Stores : Owing(u, store)' = Owing(u, store)
  PROVE  VersionsBalance'
<1> SUFFICES ASSUME NEW y \in users', y.id \notin drifted'
             PROVE  y.version + Cardinality(Owing(y.id, "postgres")') =
                      redisVersion'[y.id] + Cardinality(Owing(y.id, "redis")')
  BY DEF VersionsBalance
<1>1. PICK x \in users : x.id = y.id
  <2>1. y.id \in {u.id : u \in users}
    BY DEF SessionsShape, UserTable, UserRecords
  <2> QED BY <2>1
<1>2. x.version + Cardinality(Owing(x.id, "postgres")) =
        redisVersion[x.id] + Cardinality(Owing(x.id, "redis"))
  BY <1>1 DEF VersionsBalance
<1>3. y.id \in Users
  BY DEF UserTable
<1>4. /\ Owing(y.id, "postgres")' = Owing(y.id, "postgres")
      /\ Owing(y.id, "redis")' = Owing(y.id, "redis")
  BY <1>3 DEF Stores
<1> QED BY <1>1, <1>2, <1>4

\* A step of a call that raises a version: the call owes one raise less.
LEMMA OwesLess ==
  ASSUME SessionsShape, NEW c \in SessionCalls, NEW store \in Stores, store \in calls[c].todo,
         calls[c].step = "versions", calls[c].id \in Users,
         \A d \in SessionCalls \ {c} : calls'[d] = calls[d],
         calls'[c].id = calls[c].id, calls'[c].step = "versions", calls'[c].todo = calls[c].todo \ {store}
  PROVE  /\ \A u \in Users : u = calls[c].id =>
              Cardinality(Owing(u, store)') = Cardinality(Owing(u, store)) - 1
         /\ \A u \in Users, other \in Stores : u # calls[c].id \/ other # store =>
              Owing(u, other)' = Owing(u, other)
         /\ \A u \in Users, other \in Stores :
              Cardinality(Owing(u, other)) \in Nat /\ Cardinality(Owing(u, other)') \in Nat
<1>1. IsFiniteSet(SessionCalls)
  BY SessionsAssumption
<1>2. \A u \in Users, other \in Stores : u # calls[c].id \/ other # store =>
        Owing(u, other)' = Owing(u, other)
  BY DEF Owing
<1>4. ASSUME NEW u \in Users, u = calls[c].id
      PROVE  Cardinality(Owing(u, store)') = Cardinality(Owing(u, store)) - 1
  <2> DEFINE before == Owing(u, store)
             after == Owing(u, store)'
  <2>1. /\ before \in SUBSET SessionCalls /\ after \in SUBSET SessionCalls
        /\ c \in before /\ c \notin after /\ \A d \in SessionCalls \ {c} : d \in before <=> d \in after
    BY <1>4 DEF Owing
  <2> HIDE DEF before, after
  <2>2. Cardinality(after) = Cardinality(before) - 1
    BY <1>1, <2>1, OneMoves
  <2> QED BY <2>2 DEF before, after
<1>5. ASSUME NEW u \in Users, NEW other \in Stores
      PROVE  Cardinality(Owing(u, other)) \in Nat /\ Cardinality(Owing(u, other)') \in Nat
  <2>1. Owing(u, other) \in SUBSET SessionCalls /\ Owing(u, other)' \in SUBSET SessionCalls
    BY DEF Owing
  <2> QED BY <1>1, <2>1, FS_Subset, FS_CardinalityType
<1> QED BY <1>2, <1>4, <1>5

\* A step of a call that is not raising versions.
LEMMA VersionsElsewhere ==
  ASSUME SessionsShape, VersionInv, UserTable(users'), NEW c \in SessionCalls, Carried(c),
         calls[c].step \notin Raising \/ calls[c].todo = {}, calls'[c].step \notin Raising,
         calls'[c].step \in {"check", "pin", "write"} => calls'[c].todo = Stores,
         redisVersion' = redisVersion, drifted \subseteq drifted',
         \A x \in users, y \in users' : x.id = y.id => y.version = x.version
  PROVE  VersionInv'
<1>1. \A u \in Users, store \in Stores : Owing(u, store)' = Owing(u, store)
  BY OwingElsewhere DEF Carried
<1>2. VersionsBalance'
  BY <1>1, BalanceKept DEF VersionInv
<1>3. NoneRaisedYet'
  BY DEF VersionInv, NoneRaisedYet, Carried
<1> QED BY <1>2, <1>3 DEF VersionInv

LEMMA ReadsVersions ==
  ASSUME SessionsShape, VersionInv, NEW c \in SessionCalls, OnlyReads(c)
  PROVE  VersionInv'
<1>1. Carried(c) /\ UNCHANGED <<rowVars, ops, ghostVars>>
  BY ReadsCarry
<1>2. /\ calls[c].step \notin Raising \/ calls[c].todo = {}
      /\ calls'[c].step \notin Raising
      /\ calls'[c].step \in {"check", "pin", "write"} => calls'[c].todo = Stores
  BY ReadsLead, IdleFits DEF Raising, Onward, VersionInv, NoneRaisedYet
<1>3. UserTable(users) /\ users' = users /\ redisVersion' = redisVersion /\ drifted' = drifted
  BY <1>1 DEF SessionsShape, rowVars, ghostVars
<1> QED BY <1>1, <1>2, <1>3, VersionsElsewhere DEF UserTable

LEMMA PinVersions ==
  ASSUME SessionsShape, VersionInv, NEW c \in SessionCalls, PinSteps(c)
  PROVE  VersionInv'
<1>1. Carried(c)
  BY PinShape DEF PinSteps
<1>2. /\ calls[c].step \notin Raising /\ calls'[c].step \notin Raising
      /\ calls'[c].step \notin {"check", "pin", "write"}
      /\ users' = users /\ redisVersion' = redisVersion /\ drifted' = drifted
  BY PinLead, IdleFits DEF Raising, Onward
<1> QED BY <1>1, <1>2, VersionsElsewhere DEF SessionsShape, UserTable

LEMMA TokenVersions ==
  ASSUME SessionsShape, VersionInv, NEW c \in SessionCalls,
         LookupToken(c) \/ RevokeToken(c) \/ PersistToken(c) \/ FailCall(c)
  PROVE  VersionInv'
<1>1. Carried(c)
  BY SessionShape, PersistShape
<1>2. CallsFit /\ UserTable(users)
  BY DEF SessionsShape
<1>3. users' = users /\ redisVersion' = redisVersion /\ drifted' = drifted
  BY DEF LookupToken, RevokeToken, PersistToken, FailCall, rowVars, ghostVars
<1>4. /\ calls[c].step \notin Raising /\ calls'[c].step \notin Raising
      /\ calls'[c].step \notin {"check", "pin", "write"}
  <2>1. CASE LookupToken(c)
    BY <2>1, LookupLead, IdleFits DEF Raising, Onward
  <2>2. CASE RevokeToken(c)
    BY <1>2, <2>2, AnswerTurns, GotoTurns, IdleFits DEF RevokeToken, At, Raising, SessionSteps
  <2>3. CASE PersistToken(c)
    BY <1>2, <2>3, AnswerTurns, IdleFits DEF PersistToken, At, Raising
  <2>4. CASE FailCall(c)
    BY <1>2, <2>4, AnswerTurns, IdleFits DEF FailCall, Raising
  <2> QED BY <2>1, <2>2, <2>3, <2>4
<1> QED BY <1>1, <1>2, <1>3, <1>4, VersionsElsewhere DEF UserTable

\* A call that comes to raising the versions owes both.
LEMMA OwesBoth ==
  ASSUME SessionsShape, VersionsBalance, NEW c \in SessionCalls, calls[c].step \notin Raising,
         calls'[c].step = "versions", calls'[c].todo = Stores,
         \A d \in SessionCalls \ {c} : calls'[d] = calls[d],
         UserTable(users'), redisVersion' = redisVersion, drifted' = drifted,
         \A x \in users, y \in users' : x.id = y.id => y.version = x.version
  PROVE  VersionsBalance'
<1> SUFFICES ASSUME NEW y \in users', y.id \notin drifted
             PROVE  y.version + Cardinality(Owing(y.id, "postgres")') =
                      redisVersion[y.id] + Cardinality(Owing(y.id, "redis")')
  BY DEF VersionsBalance
<1>1. PICK x \in users : x.id = y.id
  <2>1. y.id \in {u.id : u \in users}
    BY DEF SessionsShape, UserTable, UserRecords
  <2> QED BY <2>1
<1>2. /\ x.version + Cardinality(Owing(x.id, "postgres")) =
           redisVersion[x.id] + Cardinality(Owing(x.id, "redis"))
      /\ x.version \in Nat /\ y.version = x.version /\ x.id \in Users
  BY <1>1 DEF VersionsBalance, SessionsShape, UserTable, UserRecords
<1>3. redisVersion[x.id] \in Nat
  BY <1>2 DEF SessionsShape, Accounts
<1>4. ASSUME NEW store \in Stores
      PROVE  /\ Cardinality(Owing(x.id, store)) \in Nat
             /\ Cardinality(Owing(x.id, store)') =
                  IF calls'[c].id = x.id THEN Cardinality(Owing(x.id, store)) + 1
                  ELSE Cardinality(Owing(x.id, store))
  <2> DEFINE before == Owing(x.id, store)
             after == Owing(x.id, store)'
  <2>1. /\ before \in SUBSET SessionCalls /\ after \in SUBSET SessionCalls /\ c \notin before
        /\ c \in after <=> calls'[c].id = x.id
        /\ \A d \in SessionCalls \ {c} : d \in before <=> d \in after
    BY DEF Owing, Raising
  <2> HIDE DEF before, after
  <2>2. IsFiniteSet(SessionCalls)
    BY SessionsAssumption
  <2>3. /\ Cardinality(before) \in Nat
        /\ Cardinality(after) = IF calls'[c].id = x.id THEN Cardinality(before) + 1 ELSE Cardinality(before)
    BY <2>1, <2>2, OneMoves
  <2> QED BY <2>3 DEF before, after
<1>5. /\ Cardinality(Owing(x.id, "postgres")') =
           IF calls'[c].id = x.id THEN Cardinality(Owing(x.id, "postgres")) + 1
           ELSE Cardinality(Owing(x.id, "postgres"))
      /\ Cardinality(Owing(x.id, "redis")') =
           IF calls'[c].id = x.id THEN Cardinality(Owing(x.id, "redis")) + 1
           ELSE Cardinality(Owing(x.id, "redis"))
      /\ Cardinality(Owing(x.id, "postgres")) \in Nat /\ Cardinality(Owing(x.id, "redis")) \in Nat
  BY <1>4 DEF Stores
<1> QED BY <1>1, <1>2, <1>3, <1>5

LEMMA WriteVersions ==
  ASSUME SessionsShape, VersionInv, NEW c \in SessionCalls, WritePassword(c)
  PROVE  VersionInv'
<1>1. /\ Carried(c) /\ CallsFit /\ UserTable(users)
      /\ calls[c].step = "write" /\ calls[c].op \in {"change", "reset"} /\ calls[c].secret \in Passwords
      /\ redisVersion' = redisVersion /\ drifted' = drifted
  BY SessionShape DEF SessionsShape, WritePassword, At, CallsFit, CallFits, ghostVars
<1>2. UserTable(users') /\ \A x \in users, y \in users' : x.id = y.id => y.version = x.version
  BY <1>1, PasswordWritten DEF WritePassword
<1>3. calls'[c].step = (IF calls[c].op = "change" THEN "revokeall" ELSE "versions")
      /\ calls'[c].todo = calls[c].todo
  BY <1>1, GotoTurns DEF WritePassword, SessionSteps
<1>4. CASE calls[c].op = "change"
  BY <1>1, <1>2, <1>3, <1>4, VersionsElsewhere DEF Raising
<1>5. CASE calls[c].op = "reset"
  <2>1. calls'[c].todo = Stores
    BY <1>1, <1>3 DEF VersionInv, NoneRaisedYet
  <2>2. VersionsBalance'
    BY <1>1, <1>2, <1>3, <1>5, <2>1, OwesBoth DEF Carried, VersionInv, Raising
  <2>3. NoneRaisedYet'
    BY <1>1, <1>3, <1>5 DEF Carried, VersionInv, NoneRaisedYet
  <2> QED BY <2>2, <2>3 DEF VersionInv
<1> QED BY <1>1, <1>4, <1>5

LEMMA StartVersions ==
  ASSUME SessionsShape, VersionInv, NEW c \in SessionCalls, NEW r \in Requests, Start(c, r)
  PROVE  VersionInv'
<1>1. /\ calls[c].step = "idle" /\ calls'[c] = Called(r) /\ UserTable(users)
      /\ \A d \in SessionCalls \ {c} : calls'[d] = calls[d]
      /\ users' = users /\ redisVersion' = redisVersion /\ drifted' = drifted
  BY StartShape DEF SessionsShape, Start, rowVars, ghostVars
<1>2. calls'[c].todo = Stores /\ calls'[c].step \in {"check", "lookup", "versions", "pin"}
  BY <1>1, RequestCalled DEF SessionsShape
<1>3. NoneRaisedYet'
  BY <1>1, <1>2 DEF VersionInv, NoneRaisedYet
<1>4. CASE calls'[c].step = "versions"
  BY <1>1, <1>2, <1>3, <1>4, OwesBoth DEF VersionInv, Raising, UserTable
<1>5. CASE calls'[c].step # "versions"
  <2>1. \A u \in Users, store \in Stores : Owing(u, store)' = Owing(u, store)
    BY <1>1, <1>2, <1>5, OwingElsewhere DEF Raising
  <2>2. VersionsBalance'
    BY <1>1, <2>1, BalanceKept DEF VersionInv, UserTable
  <2> QED BY <1>3, <2>2 DEF VersionInv
<1> QED BY <1>4, <1>5

LEMMA RevokeAllVersions ==
  ASSUME SessionsShape, VersionInv, NEW c \in SessionCalls, RevokeAll(c)
  PROVE  VersionInv'
<1>1. CallsFit /\ UserTable(users) /\ calls[c].step = "revokeall"
      /\ users' = users /\ redisVersion' = redisVersion /\ drifted' = drifted
  BY DEF SessionsShape, RevokeAll, At
<1>2. /\ calls'[c] = Idle
      /\ \A d \in SessionCalls \ {c} :
           calls'[d].id = calls[d].id /\ calls'[d].step = calls[d].step /\ calls'[d].todo = calls[d].todo
  BY <1>1, Overtaken
<1>3. \A u \in Users, store \in Stores : Owing(u, store)' = Owing(u, store)
  BY <1>1, <1>2, IdleFits, OwingElsewhere DEF Raising
<1>4. VersionsBalance'
  BY <1>1, <1>3, BalanceKept DEF VersionInv, UserTable
<1>5. NoneRaisedYet'
  BY <1>2, IdleFits DEF VersionInv, NoneRaisedYet
<1> QED BY <1>4, <1>5 DEF VersionInv

LEMMA IncrementVersions ==
  ASSUME SessionsShape, VersionInv, NEW c \in SessionCalls, IncrementVersion(c)
  PROVE  VersionInv'
<1> DEFINE id == calls[c].id
<1>1. /\ Carried(c) /\ CallsFit /\ calls[c] \in SessionRecords /\ UserTable(users)
      /\ calls[c].step = "versions" /\ "postgres" \in calls[c].todo
      /\ redisVersion' = redisVersion /\ drifted' = drifted
  BY SessionShape DEF SessionsShape, IncrementVersion, At, CallsFit, ghostVars
<1>2. CASE UNCHANGED users /\ calls' = [calls EXCEPT ![c].step = "aborted"]
  <2>1. Onward(c, "aborted")
    BY <1>1, <1>2, GotoOnward DEF Goto, SessionSteps
  <2>2. \A u \in Users, store \in Stores : Owing(u, store)' = Owing(u, store)
    BY <1>1, <2>1 DEF Onward, Owing, Carried
  <2>3. VersionsBalance'
    BY <1>1, <1>2, <2>2, BalanceKept DEF VersionInv, UserTable
  <2>4. NoneRaisedYet'
    BY <1>1, <2>1 DEF VersionInv, NoneRaisedYet, Onward, Carried
  <2> QED BY <2>3, <2>4 DEF VersionInv
<1>3. CASE /\ id \in Users /\ users' = IncrementTokenVersion(users, id)
           /\ calls' = [calls EXCEPT ![c].todo = @ \ {"postgres"}]
  <2>1. /\ calls'[c].id = id /\ calls'[c].step = "versions"
        /\ calls'[c].todo = calls[c].todo \ {"postgres"}
        /\ \A d \in SessionCalls \ {c} : calls'[d] = calls[d]
    BY <1>1, <1>3 DEF CallsFit, SessionRecords
  <2>2. /\ \A u \in Users : u = id =>
             Cardinality(Owing(u, "postgres")') = Cardinality(Owing(u, "postgres")) - 1
        /\ \A u \in Users, other \in Stores : u # id \/ other # "postgres" =>
             Owing(u, other)' = Owing(u, other)
        /\ \A u \in Users, other \in Stores :
             Cardinality(Owing(u, other)) \in Nat /\ Cardinality(Owing(u, other)') \in Nat
    BY <1>1, <1>3, <2>1, OwesLess DEF Stores
  <2>3. /\ UserTable(users')
        /\ \A x \in users, y \in users' : x.id = y.id =>
             y.version = IF x.id = id THEN x.version + 1 ELSE x.version
    BY <1>1, <1>3, VersionRaised
  <2>4. VersionsBalance'
    <3> SUFFICES ASSUME NEW y \in users', y.id \notin drifted
                 PROVE  y.version + Cardinality(Owing(y.id, "postgres")') =
                          redisVersion[y.id] + Cardinality(Owing(y.id, "redis")')
      BY <1>1 DEF VersionsBalance
    <3>1. PICK x \in users : x.id = y.id
      <4>1. y.id \in {u.id : u \in users}
        BY <1>1, <2>3 DEF UserTable, UserRecords
      <4> QED BY <4>1
    <3>2. /\ x.version + Cardinality(Owing(x.id, "postgres")) =
               redisVersion[x.id] + Cardinality(Owing(x.id, "redis"))
          /\ x.version \in Nat /\ x.id \in Users
      BY <1>1, <3>1 DEF VersionInv, VersionsBalance, UserTable, UserRecords
    <3>3. redisVersion[x.id] \in Nat
      BY <3>2 DEF SessionsShape, Accounts
    <3>4. Owing(x.id, "redis")' = Owing(x.id, "redis")
      BY <2>2, <3>2 DEF Stores
    <3>5. Cardinality(Owing(x.id, "postgres")) \in Nat /\ Cardinality(Owing(x.id, "redis")) \in Nat
      BY <2>2, <3>2 DEF Stores
    <3>6. CASE x.id = id
      <4>1. y.version = x.version + 1
        BY <2>3, <3>1, <3>6
      <4>2. Cardinality(Owing(x.id, "postgres")') = Cardinality(Owing(x.id, "postgres")) - 1
        BY <2>2, <3>2, <3>6
      <4>3. Cardinality(Owing(x.id, "redis")') = Cardinality(Owing(x.id, "redis"))
        BY <3>4
      <4>4. y.version + Cardinality(Owing(x.id, "postgres")') =
              redisVersion[x.id] + Cardinality(Owing(x.id, "redis")')
        BY <3>2, <3>3, <3>5, <4>1, <4>2, <4>3
      <4> QED BY <3>1, <4>4
    <3>7. CASE x.id # id
      <4>1. Owing(x.id, "postgres")' = Owing(x.id, "postgres")
        BY <2>2, <3>2, <3>7 DEF Stores
      <4> QED BY <2>3, <3>1, <3>2, <3>4, <3>7, <4>1
    <3> QED BY <3>6, <3>7
  <2>5. NoneRaisedYet'
    BY <2>1 DEF VersionInv, NoneRaisedYet
  <2> QED BY <2>4, <2>5 DEF VersionInv
<1>4. id \notin Users => ~Succeeds(RepoIncrementTokenVersion(users, id))
  BY <1>1, UserRow DEF RepoIncrementTokenVersion, GetUserByID, Succeeds, Fail
<1> QED
  BY <1>2, <1>3, <1>4 DEF IncrementVersion, RepoIncrementTokenVersion, Succeeds, Ok, Fail

LEMMA UpgradeVersions ==
  ASSUME SessionsShape, VersionInv, NEW c \in SessionCalls, UpgradeVersion(c)
  PROVE  VersionInv'
<1> DEFINE id == calls[c].id
<1>1. /\ CallsFit /\ calls[c] \in SessionRecords /\ UserTable(users) /\ id \in Accounts
      /\ calls[c].step = "versions" /\ "redis" \in calls[c].todo
      /\ users' = users /\ drifted' = drifted
      /\ redisVersion' = [redisVersion EXCEPT ![id] = @ + 1]
  BY DEF SessionsShape, UpgradeVersion, At, CallsFit, CallFits, ghostVars
<1>2. /\ calls'[c].id = id /\ calls'[c].step = "versions"
      /\ calls'[c].todo = calls[c].todo \ {"redis"}
      /\ \A d \in SessionCalls \ {c} : calls'[d] = calls[d]
  BY <1>1 DEF UpgradeVersion, CallsFit, SessionRecords
<1>3. VersionsBalance'
  <2> SUFFICES ASSUME NEW x \in users, x.id \notin drifted
               PROVE  x.version + Cardinality(Owing(x.id, "postgres")') =
                        redisVersion'[x.id] + Cardinality(Owing(x.id, "redis")')
    BY <1>1 DEF VersionsBalance
  <2>1. /\ x.version + Cardinality(Owing(x.id, "postgres")) =
             redisVersion[x.id] + Cardinality(Owing(x.id, "redis"))
        /\ x.version \in Nat /\ x.id \in Users
    BY <1>1 DEF VersionInv, VersionsBalance, UserTable, UserRecords
  <2>2. x.id \in Accounts /\ redisVersion[x.id] \in Nat
    BY <2>1 DEF SessionsShape, Accounts
  <2>3. CASE x.id = id
    <3>1. /\ \A u \in Users : u = id =>
               Cardinality(Owing(u, "redis")') = Cardinality(Owing(u, "redis")) - 1
          /\ \A u \in Users : Owing(u, "postgres")' = Owing(u, "postgres")
          /\ \A u \in Users, store \in Stores : Cardinality(Owing(u, store)) \in Nat
      BY <1>1, <1>2, <2>1, <2>3, OwesLess DEF Stores
    <3>2. redisVersion'[x.id] = redisVersion[x.id] + 1
      BY <1>1, <2>3 DEF SessionsShape
    <3>3. /\ Cardinality(Owing(x.id, "redis")') = Cardinality(Owing(x.id, "redis")) - 1
          /\ Cardinality(Owing(x.id, "postgres")') = Cardinality(Owing(x.id, "postgres"))
          /\ Cardinality(Owing(x.id, "redis")) \in Nat /\ Cardinality(Owing(x.id, "postgres")) \in Nat
      BY <2>1, <2>3, <3>1 DEF Stores
    <3> QED BY <2>1, <2>2, <3>2, <3>3
  <2>4. CASE x.id # id
    <3>1. redisVersion'[x.id] = redisVersion[x.id]
      BY <1>1, <2>2, <2>4 DEF SessionsShape
    <3>2. \A store \in Stores : Owing(x.id, store)' = Owing(x.id, store)
      BY <1>2, <2>4 DEF Owing
    <3> QED BY <2>1, <3>1, <3>2 DEF Stores
  <2> QED BY <2>3, <2>4
<1>4. NoneRaisedYet'
  BY <1>2 DEF VersionInv, NoneRaisedYet
<1> QED BY <1>3, <1>4 DEF VersionInv

LEMMA FailVersions ==
  ASSUME SessionsShape, VersionInv, NEW c \in SessionCalls, VersionFails(c) \/ AbortVersions(c)
  PROVE  VersionInv'
<1>1. Carried(c) /\ CallsFit /\ UserTable(users)
  BY SessionShape DEF SessionsShape
<1>2. CASE VersionFails(c)
  <2>1. Onward(c, "aborted") /\ calls[c].step = "versions"
    BY <1>1, <1>2, GotoOnward DEF VersionFails, At, SessionSteps
  <2>2. \A u \in Users, store \in Stores : Owing(u, store)' = Owing(u, store)
    BY <1>1, <2>1 DEF Onward, Owing, Carried
  <2>3. VersionsBalance'
    BY <1>1, <1>2, <2>2, BalanceKept DEF VersionInv, UserTable, VersionFails, rowVars, ghostVars
  <2>4. NoneRaisedYet'
    BY <1>1, <2>1 DEF VersionInv, NoneRaisedYet, Onward, Carried
  <2> QED BY <2>3, <2>4 DEF VersionInv
<1>3. CASE AbortVersions(c)
  <2> DEFINE id == calls[c].id
  <2>1. /\ drifted' = drifted \cup {id} /\ calls'[c] = Idle
        /\ \/ users' = users
           \/ users' = IncrementTokenVersion(users, id)
        /\ \/ redisVersion' = redisVersion
           \/ redisVersion' = [redisVersion EXCEPT ![id] = @ + 1]
    BY <1>1, <1>3, AnswerTurns DEF AbortVersions
  <2>2. /\ UserTable(users')
        /\ \A x \in users, y \in users' : x.id = y.id /\ x.id # id => y.version = x.version
    <3>1. CASE users' = users
      BY <1>1, <3>1 DEF UserTable
    <3>2. CASE users' = IncrementTokenVersion(users, id)
      BY <1>1, <3>2, VersionRaised
    <3> QED BY <2>1, <3>1, <3>2
  <2>3. VersionsBalance'
    <3> SUFFICES ASSUME NEW y \in users', y.id \notin drifted, y.id # id
                 PROVE  y.version + Cardinality(Owing(y.id, "postgres")') =
                          redisVersion'[y.id] + Cardinality(Owing(y.id, "redis")')
      BY <2>1 DEF VersionsBalance
    <3>1. PICK x \in users : x.id = y.id
      <4>1. y.id \in {u.id : u \in users}
        BY <1>1, <2>2 DEF UserTable, UserRecords
      <4> QED BY <4>1
    <3>2. /\ x.version + Cardinality(Owing(x.id, "postgres")) =
               redisVersion[x.id] + Cardinality(Owing(x.id, "redis"))
          /\ x.id \in Users
      BY <1>1, <3>1 DEF VersionInv, VersionsBalance, UserTable, UserRecords
    <3>3. redisVersion'[x.id] = redisVersion[x.id]
      BY <2>1, <3>1, <3>2 DEF SessionsShape, Accounts
    <3>4. \A store \in Stores : Owing(x.id, store)' = Owing(x.id, store)
      BY <1>1, <2>1, <3>1 DEF Owing, Carried, Idle
    <3> QED BY <2>2, <3>1, <3>2, <3>3, <3>4 DEF Stores
  <2>4. NoneRaisedYet'
    BY <1>1, <2>1, IdleFits DEF VersionInv, NoneRaisedYet, Carried
  <2> QED BY <2>3, <2>4 DEF VersionInv
<1> QED BY <1>2, <1>3

LEMMA StepVersions == SessionsShape /\ VersionInv /\ [SessionsNext]_sessionVars => VersionInv'
<1> SUFFICES ASSUME SessionsShape, VersionInv, [SessionsNext]_sessionVars PROVE VersionInv'
  OBVIOUS
<1>1. ASSUME NEW c \in SessionCalls, CallStep(c) PROVE VersionInv'
  BY <1>1, ReadsVersions, PinVersions, TokenVersions, WriteVersions, RevokeAllVersions,
     IncrementVersions, UpgradeVersions, FailVersions DEF CallStep, OnlyReads, PinSteps
<1>2. ASSUME NEW c \in SessionCalls, NEW r \in Requests, Start(c, r) PROVE VersionInv'
  BY <1>2, StartVersions
<1>3. ASSUME NEW u \in Users, LockRunsOut(u) PROVE VersionInv'
  <2>1. UNCHANGED <<users, calls, redisVersion, drifted>>
    BY <1>3 DEF LockRunsOut
  <2>2. \A id, store : Owing(id, store)' = Owing(id, store)
    BY <2>1 DEF Owing
  <2>3. NoneRaisedYet'
    BY <2>1 DEF VersionInv, NoneRaisedYet
  <2> QED BY <2>1, <2>2, <2>3 DEF VersionInv, VersionsBalance
<1>4. ASSUME NEW u \in Users, AdminStep(u) PROVE VersionInv'
  <2>1. /\ UserTable(users') /\ calls' = calls /\ redisVersion' = redisVersion /\ drifted' = drifted
        /\ \A x \in users, y \in users' : x.id = y.id => y.version = x.version
    BY <1>4, AdminFacts
  <2>2. \A v \in Users, store \in Stores : Owing(v, store)' = Owing(v, store)
    BY <2>1 DEF Owing
  <2>3. VersionsBalance'
    BY <2>1, <2>2, BalanceKept DEF VersionInv
  <2> QED BY <2>1, <2>3 DEF VersionInv, NoneRaisedYet
<1>5. CASE UNCHANGED sessionVars
  BY <1>5 DEF sessionVars, rowVars, ghostVars, VersionInv, VersionsBalance, NoneRaisedYet, Owing
<1> QED BY <1>1, <1>2, <1>3, <1>4, <1>5 DEF SessionsNext

\* The token version in postgres and the one in redis differ only while a call
\* is raising them, or after one of the two raises failed: however many
\* logouts and resets overlap, each raises both (Logout, ResetPassword).
THEOREM VersionsDoNotDrift == SessionsSpec => []VersionsAgree
<1>1. SessionsInit => VersionInv
  <2> SUFFICES ASSUME SessionsInit PROVE VersionInv
    OBVIOUS
  <2>1. NoneRaisedYet
    BY DEF SessionsInit, NoneRaisedYet, Idle
  <2>2. \A u \in Users, store \in Stores : Owing(u, store) = {}
    BY DEF SessionsInit, Owing, Idle
  <2>3. \A u \in users : u.id \in Users /\ u.version = 0
    BY DEF SessionsInit, User
  <2>4. \A u \in Users : redisVersion[u] = 0
    BY DEF SessionsInit, Accounts
  <2>5. VersionsBalance
    BY <2>2, <2>3, <2>4 DEF VersionsBalance, Stores
  <2> QED BY <2>1, <2>5 DEF VersionInv
<1>2. SessionsShape /\ VersionInv => VersionsAgree
  <2> SUFFICES ASSUME SessionsShape, VersionInv, NEW u \in users, u.id \notin drifted,
                      \A c \in SessionCalls : ~(calls[c].id = u.id /\ calls[c].step \in {"versions", "aborted"})
               PROVE  u.version = redisVersion[u.id]
    BY DEF VersionsAgree
  <2>1. Owing(u.id, "postgres") = {} /\ Owing(u.id, "redis") = {}
    BY DEF Owing
  <2>2. u.version \in Nat /\ redisVersion[u.id] \in Nat
    BY DEF SessionsShape, UserTable, UserRecords, Accounts
  <2>3. u.version + Cardinality(Owing(u.id, "postgres")) =
          redisVersion[u.id] + Cardinality(Owing(u.id, "redis"))
    BY DEF VersionInv, VersionsBalance
  <2>4. Cardinality(Owing(u.id, "postgres")) = 0 /\ Cardinality(Owing(u.id, "redis")) = 0
    BY <2>1, FS_EmptySet
  <2> QED BY <2>2, <2>3, <2>4
<1> QED
  BY <1>1, <1>2, InitShape, StepShape, StepVersions, PTL DEF SessionsSpec

-----------------------------------------------------------------------------
(* The lock of the PIN *)

\* The calls of a user that are trying the PIN, before and after a step of c.
LEMMA Tallies ==
  ASSUME SessionsShape, NEW c \in SessionCalls, NEW u,
         \A d \in SessionCalls \ {c} : calls'[d].id = calls[d].id /\ calls'[d].step = calls[d].step
  PROVE  LET K == Cardinality(SessionCalls)
             counting == Cardinality(Counting(u))
             trying == Cardinality(Trying(u))
         IN  /\ K \in Nat /\ K >= 1
             /\ counting \in Nat /\ trying \in Nat /\ counting <= trying /\ trying <= K
             /\ counting' \in Nat /\ trying' \in Nat /\ counting' <= trying' /\ trying' <= K
             /\ (c \in Counting(u) <=> c \in Counting(u)') => counting' = counting
             /\ c \in Counting(u) /\ c \notin Counting(u)' => counting' = counting - 1
             /\ c \notin Counting(u) /\ c \in Counting(u)' => counting' = counting + 1
             /\ (c \in Trying(u) <=> c \in Trying(u)') => trying' = trying
             /\ c \in Trying(u) /\ c \notin Trying(u)' => trying' = trying - 1
             /\ c \notin Trying(u) /\ c \in Trying(u)' => trying' = trying + 1
<1> DEFINE A == Counting(u)
           B == Counting(u)'
           C == Trying(u)
           D == Trying(u)'
<1>1. IsFiniteSet(SessionCalls)
  BY SessionsAssumption
<1>2. /\ A \in SUBSET SessionCalls /\ B \in SUBSET SessionCalls /\ C \in SUBSET SessionCalls
      /\ D \in SUBSET SessionCalls /\ A \subseteq C /\ B \subseteq D
      /\ \A d \in SessionCalls \ {c} : d \in A <=> d \in B
      /\ \A d \in SessionCalls \ {c} : d \in C <=> d \in D
  BY DEF Counting, Trying
<1>3. Cardinality(SessionCalls) # 0 /\ Cardinality(SessionCalls) \in Nat
  BY <1>1, FS_EmptySet, FS_CardinalityType
<1> HIDE DEF A, B, C, D
<1>4. IsFiniteSet(C) /\ IsFiniteSet(D)
  BY <1>1, <1>2, FS_Subset
<1>5. Cardinality(A) <= Cardinality(C) /\ Cardinality(B) <= Cardinality(D)
  BY <1>2, <1>4, FS_Subset
<1>6. /\ Cardinality(A) \in Nat /\ Cardinality(B) \in Nat
      /\ (c \in A <=> c \in B) => Cardinality(B) = Cardinality(A)
      /\ c \in A /\ c \notin B => Cardinality(B) = Cardinality(A) - 1
      /\ c \notin A /\ c \in B => Cardinality(B) = Cardinality(A) + 1
  BY <1>1, <1>2, OneMoves
<1>7. /\ Cardinality(C) \in Nat /\ Cardinality(D) \in Nat
      /\ Cardinality(C) <= Cardinality(SessionCalls) /\ Cardinality(D) <= Cardinality(SessionCalls)
      /\ (c \in C <=> c \in D) => Cardinality(D) = Cardinality(C)
      /\ c \in C /\ c \notin D => Cardinality(D) = Cardinality(C) - 1
      /\ c \notin C /\ c \in D => Cardinality(D) = Cardinality(C) + 1
  BY <1>1, <1>2, OneMoves
<1> QED BY <1>3, <1>5, <1>6, <1>7 DEF A, B, C, D

\* The PINs of other users, whatever a call does.
LEMMA OthersFit ==
  ASSUME SessionsShape, NEW c \in SessionCalls, NEW p \in pins, PinFits(p),
         \A d \in SessionCalls \ {c} : calls'[d].id = calls[d].id /\ calls'[d].step = calls[d].step,
         calls[c].id # p.id \/ calls[c].step \notin {"count", "lock"},
         calls'[c].id # p.id \/ calls'[c].step \notin {"count", "lock"},
         guesses'[p.id] = guesses[p.id], openings'[p.id] = openings[p.id]
  PROVE  PinFits(p)'
<1>1. Counting(p.id)' = Counting(p.id) /\ Trying(p.id)' = Trying(p.id)
  BY DEF Counting, Trying
<1>2. (\E d \in SessionCalls : calls[d].id = p.id /\ calls[d].step = "lock") =>
        \E d \in SessionCalls : calls'[d].id = p.id /\ calls'[d].step = "lock"
  OBVIOUS
<1> QED BY <1>1, <1>2 DEF PinFits

LEMMA PinElsewhere ==
  ASSUME SessionsShape, PinInv, NEW c \in SessionCalls,
         \A d \in SessionCalls \ {c} : calls'[d].id = calls[d].id /\ calls'[d].step = calls[d].step,
         calls[c].step \notin {"count", "lock"}, calls'[c].step \notin {"count", "lock"},
         pins' = pins, guesses' = guesses, openings' = openings
  PROVE  PinInv'
BY OthersFit DEF PinInv

\* A call that changes the PIN of its user, or what is remembered of it.
LEMMA PinMoved ==
  ASSUME SessionsShape, PinInv, NEW c \in SessionCalls, Carried(c), calls[c].id \in Users,
         NEW v, PinBecomes(pins', calls[c].id, v), PinFits(v)',
         \A u \in Users \ {calls[c].id} : guesses'[u] = guesses[u] /\ openings'[u] = openings[u]
  PROVE  PinInv'
<1>1. ASSUME NEW p \in pins, p.id # calls[c].id PROVE PinFits(p)'
  <2>1. p.id \in Users /\ p.id # Nobody /\ calls'[c].id # p.id
    BY <1>1, SessionsAssumption DEF SessionsShape, PinTable, PinRecords, Carried, Idle
  <2> QED BY <1>1, <2>1, OthersFit DEF PinInv, Carried
<1>2. ASSUME NEW p \in pins' PROVE PinFits(p)'
  <2>1. CASE p = v
    BY <2>1
  <2>2. CASE p # v
    BY <1>1, <2>2 DEF PinBecomes
  <2> QED BY <2>1, <2>2
<1>3. ASSUME NEW u \in Users, \A p \in pins' : p.id # u PROVE guesses'[u] = 0
  BY <1>3 DEF PinInv, PinBecomes
<1> QED BY <1>2, <1>3 DEF PinInv

LEMMA PinAbsent ==
  ASSUME SessionsShape, PinInv, NEW c \in SessionCalls, Carried(c), calls[c].id \in Users,
         \A p \in pins : p.id # calls[c].id, pins' = pins, guesses'[calls[c].id] = 0,
         \A u \in Users \ {calls[c].id} : guesses'[u] = guesses[u] /\ openings'[u] = openings[u]
  PROVE  PinInv'
<1>1. ASSUME NEW p \in pins PROVE PinFits(p)'
  <2>1. p.id \in Users /\ p.id # Nobody /\ calls'[c].id # p.id /\ p.id # calls[c].id
    BY SessionsAssumption DEF SessionsShape, PinTable, PinRecords, Carried, Idle
  <2> QED BY <2>1, OthersFit DEF PinInv, Carried
<1> QED BY <1>1 DEF PinInv

\* What a call has when it comes to its PIN.
LEMMA PinRead ==
  ASSUME SessionsShape, NEW id
  PROVE  LET found == GetByUserID(pins, id)
         IN  /\ Succeeds(found) => found.val \in pins /\ found.val.id = id
             /\ ~Succeeds(found) => \A p \in pins : p.id # id
<1>1. \A p \in GetPINByUserID(pins, id) : p \in pins /\ p.id = id
  BY DEF GetPINByUserID, RowsOf
<1>2. \A p \in pins : p.id = id => p \in GetPINByUserID(pins, id)
  BY DEF GetPINByUserID, RowsOf
<1>3. CASE GetPINByUserID(pins, id) = {}
  BY <1>2, <1>3 DEF GetByUserID, OneRow, Succeeds, Fail, MapDBErrors
<1>4. CASE GetPINByUserID(pins, id) # {}
  BY <1>1, <1>4 DEF GetByUserID, OneRow, Succeeds, Ok
<1> QED BY <1>3, <1>4

LEMMA VerifyKeepsPin ==
  ASSUME SessionsShape, PinInv, NEW c \in SessionCalls, VerifyPIN(c)
  PROVE  PinInv'
<1> DEFINE id == calls[c].id
           found == GetByUserID(pins, id)
           right == found.val.hash = calls[c].secret
<1>1. /\ CallsFit /\ Carried(c) /\ id \in Users /\ calls[c].step = "pin"
      /\ calls[c].op \in {"login", "verifypin"}
      /\ pins' = pins /\ openings' = openings
      /\ \A d \in SessionCalls \ {c} : calls'[d].id = calls[d].id /\ calls'[d].step = calls[d].step
  BY PinShape, PinLead DEF PinSteps, VerifyPIN, At, rowVars, SessionsShape, Carried
<1>2. CASE Succeeds(found) /\ ~found.val.locked /\ ~right
  <2> DEFINE p == found.val
  <2>1. p \in pins /\ p.id = id /\ p.attempts \in Nat /\ ~p.locked
    BY <1>2, PinRead DEF SessionsShape, PinTable, PinRecords
  <2>2. Onward(c, "count") /\ guesses' = [guesses EXCEPT ![id] = @ + 1]
    BY <1>1, <1>2, GotoOnward DEF VerifyPIN, SessionSteps
  <2> HIDE DEF found
  <2>3. PICK q \in pins : q = p
    BY <2>1
  <2>4. ASSUME NEW u \in Users, u = id
        PROVE  /\ c \notin Counting(u) /\ c \in Counting(u)'
               /\ c \notin Trying(u) /\ c \in Trying(u)'
    BY <1>1, <2>2, <2>4 DEF Counting, Trying, Onward
  <2>5. /\ q.id = id /\ q.id \in Users /\ q.attempts \in Nat /\ ~q.locked
        /\ guesses'[q.id] = guesses[q.id] + 1 /\ guesses[q.id] \in Nat
        /\ openings'[q.id] = openings[q.id] /\ openings[q.id] \in Nat
    BY <1>1, <2>1, <2>2, <2>3 DEF SessionsShape
  <2>6. /\ Cardinality(Counting(q.id)') = Cardinality(Counting(q.id)) + 1
        /\ Cardinality(Trying(q.id)') = Cardinality(Trying(q.id)) + 1
        /\ Cardinality(Counting(q.id)) \in Nat /\ Cardinality(Trying(q.id)) \in Nat
        /\ Cardinality(SessionCalls) \in Nat
    BY <1>1, <2>4, <2>5, Tallies
  <2>7. PinFits(q)
    BY DEF PinInv
  <2>8. MaxPinAttempts \in Nat
    BY SessionsAssumption
  <2>9. guesses'[q.id] <= q.attempts + Cardinality(Counting(q.id)') + openings'[q.id]
    <3>1. guesses[q.id] <= q.attempts + Cardinality(Counting(q.id)) + openings[q.id]
      BY <2>7 DEF PinFits
    <3> QED BY <2>5, <2>6, <3>1
  <2>10. guesses'[q.id] <= MaxPinAttempts - 1 + Cardinality(Trying(q.id)')
           + Cardinality(SessionCalls) * openings'[q.id]
    <3> DEFINE rounds == Cardinality(SessionCalls) * openings[q.id]
    <3>1. guesses[q.id] <= MaxPinAttempts - 1 + Cardinality(Trying(q.id)) + rounds
      BY <2>5, <2>7 DEF PinFits
    <3>2. rounds \in Nat /\ rounds = Cardinality(SessionCalls) * openings'[q.id]
      BY <2>5, <2>6
    <3> HIDE DEF rounds
    <3>3. guesses'[q.id] <= MaxPinAttempts - 1 + Cardinality(Trying(q.id)') + rounds
      BY <2>5, <2>6, <2>8, <3>1, <3>2
    <3> QED BY <3>2, <3>3
  <2>11. q.attempts >= MaxPinAttempts =>
           \/ openings'[q.id] > 0
           \/ \E d \in SessionCalls : calls'[d].id = q.id /\ calls'[d].step = "lock"
    BY <1>1, <2>5, <2>7 DEF PinFits
  <2>12. PinFits(q)'
    BY <2>5, <2>9, <2>10, <2>11 DEF PinFits
  <2>13. PinBecomes(pins', id, q)
    BY <1>1, <2>5 DEF PinBecomes, SessionsShape, PinTable
  <2> QED
    BY <1>1, <2>2, <2>12, <2>13, PinMoved DEF SessionsShape
<1>3. CASE ~(Succeeds(found) /\ ~found.val.locked /\ ~right)
  <2>1. guesses' = guesses
    BY <1>3 DEF VerifyPIN
  <2>2. calls'[c] = Idle \/ Onward(c, "forgive") \/ Onward(c, "context")
    BY <1>1, <1>3, AnswerTurns, GotoOnward DEF VerifyPIN, AfterPin, SessionSteps
  <2> QED
    BY <1>1, <2>1, <2>2, IdleFits, PinElsewhere DEF Onward
<1> QED BY <1>2, <1>3

LEMMA CountKeepsPin ==
  ASSUME SessionsShape, PinInv, NEW c \in SessionCalls, CountAttempt(c)
  PROVE  PinInv'
<1> DEFINE id == calls[c].id
<1>1. /\ CallsFit /\ PinTable(pins) /\ Carried(c) /\ id \in Users /\ calls[c].step = "count"
      /\ calls[c].op \in {"login", "verifypin"} /\ guesses' = guesses /\ openings' = openings
      /\ pins' = IncrementPINFailedAttempts(pins, id)
      /\ \A d \in SessionCalls \ {c} : calls'[d].id = calls[d].id /\ calls'[d].step = calls[d].step
  BY PinShape, PinLead DEF PinSteps, CountAttempt, At, ghostVars, SessionsShape, Carried
<1>2. CASE \A p \in pins : p.id # id
  <2>1. pins' = pins
    BY <1>1, <1>2, PinRow DEF IncrementPINFailedAttempts
  <2>2. guesses'[id] = 0
    BY <1>1, <1>2 DEF PinInv
  <2> QED BY <1>1, <1>2, <2>1, <2>2, PinAbsent
<1>3. ASSUME NEW q \in pins, q.id = id PROVE PinInv'
  <2>1. PICK v \in PinRecords :
          /\ PinBecomes(IncrementPINFailedAttempts(pins, q.id), q.id, v)
          /\ v.attempts = q.attempts + 1 /\ v.locked = q.locked
    BY <1>1, PinStatements
  <2>2. PinBecomes(pins', id, v) /\ v.id = q.id
    BY <1>1, <1>3, <2>1 DEF PinBecomes
  <2>3. RowsOf(pins', id) = {v}
    BY <2>2 DEF PinBecomes, RowsOf, PinTable
  <2>4. IF v.attempts >= MaxPinAttempts THEN Goto(c, "lock") ELSE Answer(c)
    BY <1>1, <2>3 DEF CountAttempt
  <2>5. /\ v.attempts >= MaxPinAttempts => Onward(c, "lock")
        /\ v.attempts < MaxPinAttempts => calls'[c] = Idle
    BY <1>1, <2>1, <2>4, AnswerTurns, GotoOnward, SessionsAssumption DEF SessionSteps, PinRecords
  <2>6. /\ v.attempts = q.attempts + 1 /\ q.attempts \in Nat /\ v.attempts \in Nat /\ v.id \in Users
        /\ guesses'[v.id] = guesses[v.id] /\ guesses[v.id] \in Nat
        /\ openings'[v.id] = openings[v.id] /\ openings[v.id] \in Nat
        /\ MaxPinAttempts \in Nat \ {0}
    BY <1>1, <2>1, <2>2, SessionsAssumption DEF SessionsShape, PinTable, PinRecords
  <2>7. ASSUME NEW u \in Users, u = id
        PROVE  /\ c \in Counting(u) /\ c \notin Counting(u)' /\ c \in Trying(u)
               /\ v.attempts >= MaxPinAttempts => c \in Trying(u)'
    BY <1>1, <2>5, <2>7, SessionsAssumption, <2>6 DEF Counting, Trying, Onward, Idle
  <2>8. /\ Cardinality(Counting(v.id)') = Cardinality(Counting(v.id)) - 1
        /\ v.attempts >= MaxPinAttempts => Cardinality(Trying(v.id)') = Cardinality(Trying(v.id))
        /\ Cardinality(Counting(v.id)) \in Nat /\ Cardinality(Trying(v.id)) \in Nat
        /\ Cardinality(Counting(v.id)') \in Nat /\ Cardinality(Trying(v.id)') \in Nat
        /\ Cardinality(Counting(v.id)') <= Cardinality(Trying(v.id)')
        /\ Cardinality(Trying(v.id)') <= Cardinality(SessionCalls)
        /\ Cardinality(SessionCalls) \in Nat /\ Cardinality(SessionCalls) >= 1
    BY <1>1, <1>3, <2>2, <2>6, <2>7, Tallies
  <2>9. PinFits(q)
    BY DEF PinInv
  <2>10. guesses'[v.id] <= v.attempts + Cardinality(Counting(v.id)') + openings'[v.id]
    <3>1. guesses[v.id] <= q.attempts + Cardinality(Counting(v.id)) + openings[v.id]
      BY <2>2, <2>9 DEF PinFits
    <3> QED BY <2>6, <2>8, <3>1
  <2> DEFINE rounds == Cardinality(SessionCalls) * openings[v.id]
  <2>11. rounds \in Nat /\ openings[v.id] <= rounds
         /\ Cardinality(SessionCalls) * openings'[v.id] = rounds
    BY <2>6, <2>8
  <2>12. guesses'[v.id] <= MaxPinAttempts - 1
           + (IF v.locked THEN Cardinality(SessionCalls) ELSE Cardinality(Trying(v.id)'))
           + Cardinality(SessionCalls) * openings'[v.id]
    <3>1. guesses[v.id] <= MaxPinAttempts - 1
            + (IF v.locked THEN Cardinality(SessionCalls) ELSE Cardinality(Trying(v.id))) + rounds
      BY <2>1, <2>2, <2>9 DEF PinFits
    <3> HIDE DEF rounds
    <3>2. CASE v.attempts >= MaxPinAttempts
      BY <2>6, <2>8, <2>11, <3>1, <3>2
    <3>3. CASE v.attempts < MaxPinAttempts
      <4>1. guesses'[v.id] <= v.attempts + Cardinality(Trying(v.id)') + rounds
        BY <2>6, <2>8, <2>10, <2>11
      <4>2. v.attempts <= MaxPinAttempts - 1
        BY <2>6, <3>3
      <4>3. guesses'[v.id] <= MaxPinAttempts - 1 + Cardinality(Trying(v.id)') + rounds
        BY <2>6, <2>8, <2>11, <4>1, <4>2
      <4>4. Cardinality(Trying(v.id)') <=
              IF v.locked THEN Cardinality(SessionCalls) ELSE Cardinality(Trying(v.id)')
        BY <2>8
      <4> QED BY <2>6, <2>8, <2>11, <4>3, <4>4
    <3> QED BY <2>6, <3>2, <3>3
  <2>13. v.attempts >= MaxPinAttempts =>
           \E d \in SessionCalls : calls'[d].id = v.id /\ calls'[d].step = "lock"
    BY <1>3, <2>2, <2>5 DEF Onward
  <2>14. PinFits(v)'
    BY <2>10, <2>12, <2>13 DEF PinFits
  <2> QED BY <1>1, <2>2, <2>14, PinMoved
<1> QED BY <1>2, <1>3

LEMMA LockKeepsPin ==
  ASSUME SessionsShape, PinInv, NEW c \in SessionCalls, LockAfterAttempts(c)
  PROVE  PinInv'
<1> DEFINE id == calls[c].id
<1>1. /\ CallsFit /\ PinTable(pins) /\ Carried(c) /\ id \in Users /\ calls[c].step = "lock"
      /\ guesses' = guesses /\ openings' = openings /\ calls'[c] = Idle
      /\ pins' = LockPIN(pins, id)
      /\ \A d \in SessionCalls \ {c} : calls'[d].id = calls[d].id /\ calls'[d].step = calls[d].step
  BY PinShape, PinLead, AnswerTurns DEF PinSteps, LockAfterAttempts, At, ghostVars, SessionsShape, Carried
<1>2. CASE \A p \in pins : p.id # id
  <2>1. pins' = pins
    BY <1>1, <1>2, PinRow DEF LockPIN
  <2>2. guesses'[id] = 0
    BY <1>1, <1>2 DEF PinInv
  <2> QED BY <1>1, <1>2, <2>1, <2>2, PinAbsent
<1>3. ASSUME NEW q \in pins, q.id = id PROVE PinInv'
  <2>1. PICK v \in PinRecords :
          /\ PinBecomes(LockPIN(pins, q.id), q.id, v)
          /\ v.attempts = q.attempts /\ v.locked = TRUE
    BY <1>1, PinStatements
  <2>2. PinBecomes(pins', id, v) /\ v.id = q.id
    BY <1>1, <1>3, <2>1 DEF PinBecomes
  <2>3. /\ v.attempts \in Nat /\ v.id \in Users /\ v.locked
        /\ guesses'[v.id] = guesses[v.id] /\ guesses[v.id] \in Nat
        /\ openings'[v.id] = openings[v.id] /\ openings[v.id] \in Nat
        /\ MaxPinAttempts \in Nat \ {0}
    BY <1>1, <2>1, <2>2, SessionsAssumption DEF SessionsShape, PinTable, PinRecords
  <2>4. c \notin Counting(v.id) /\ c \notin Counting(v.id)'
    BY <1>1, IdleFits DEF Counting
  <2>5. /\ Cardinality(Counting(v.id)') = Cardinality(Counting(v.id))
        /\ Cardinality(Counting(v.id)) \in Nat /\ Cardinality(Trying(v.id)) \in Nat
        /\ Cardinality(Trying(v.id)) <= Cardinality(SessionCalls)
        /\ Cardinality(SessionCalls) \in Nat
    BY <1>1, <2>4, Tallies
  <2>6. PinFits(q)
    BY DEF PinInv
  <2> DEFINE rounds == Cardinality(SessionCalls) * openings[v.id]
  <2>7. rounds \in Nat /\ Cardinality(SessionCalls) * openings'[v.id] = rounds
    BY <2>3, <2>5
  <2>8. guesses[v.id] <= MaxPinAttempts - 1
          + (IF q.locked THEN Cardinality(SessionCalls) ELSE Cardinality(Trying(v.id))) + rounds
    BY <2>2, <2>6 DEF PinFits
  <2>9. guesses'[v.id] <= MaxPinAttempts - 1 + Cardinality(SessionCalls) + rounds
    <3> HIDE DEF rounds
    <3> QED BY <2>3, <2>5, <2>7, <2>8
  <2>10. guesses'[v.id] <= v.attempts + Cardinality(Counting(v.id)') + openings'[v.id]
    BY <2>1, <2>2, <2>3, <2>5, <2>6 DEF PinFits
  <2>11. PinFits(v)'
    BY <2>3, <2>7, <2>9, <2>10 DEF PinFits
  <2> QED BY <1>1, <2>2, <2>11, PinMoved
<1> QED BY <1>2, <1>3

\* A fresh counter, whoever set it.
LEMMA FreshFits ==
  ASSUME SessionsShape, NEW v \in PinRecords, v.attempts = 0, guesses'[v.id] = 0, openings'[v.id] \in Nat
  PROVE  PinFits(v)'
<1>1. IsFiniteSet(SessionCalls) /\ MaxPinAttempts \in Nat \ {0}
  BY SessionsAssumption
<1>2. IsFiniteSet(Counting(v.id)') /\ IsFiniteSet(Trying(v.id)')
  <2>1. Counting(v.id)' \in SUBSET SessionCalls /\ Trying(v.id)' \in SUBSET SessionCalls
    BY DEF Counting, Trying
  <2> QED BY <1>1, <2>1, FS_Subset
<1>3. /\ Cardinality(SessionCalls) \in Nat /\ Cardinality(Counting(v.id)') \in Nat
      /\ Cardinality(Trying(v.id)') \in Nat
  BY <1>1, <1>2, FS_CardinalityType
<1>4. Cardinality(SessionCalls) * openings'[v.id] \in Nat
  BY <1>3
<1>5. 0 <= v.attempts + Cardinality(Counting(v.id)') + openings'[v.id]
  BY <1>3
<1>6. 0 <= MaxPinAttempts - 1
          + (IF v.locked THEN Cardinality(SessionCalls) ELSE Cardinality(Trying(v.id)'))
          + Cardinality(SessionCalls) * openings'[v.id]
  BY <1>1, <1>3, <1>4
<1>7. ~(v.attempts >= MaxPinAttempts)
  BY <1>1
<1> QED BY <1>5, <1>6, <1>7 DEF PinFits

LEMMA ResetKeepsPin ==
  ASSUME SessionsShape, PinInv, NEW c \in SessionCalls, ForgiveAttempts(c) \/ WritePIN(c)
  PROVE  PinInv'
<1> DEFINE id == calls[c].id
<1>1. /\ PinTable(pins) /\ Carried(c) /\ id \in Users
      /\ guesses' = [guesses EXCEPT ![id] = 0] /\ openings' = [openings EXCEPT ![id] = 0]
      /\ pins' = ResetPINFailedAttempts(pins, id)
         \/ (pins' = UpdatePINHash(pins, id, calls[c].secret) /\ calls[c].secret \in Pins)
  BY PinShape, PinLead DEF PinSteps, ForgiveAttempts, WritePIN, At, SessionsShape, CallsFit, CallFits
<1>2. /\ guesses'[id] = 0 /\ openings'[id] = 0
      /\ \A u \in Users \ {id} : guesses'[u] = guesses[u] /\ openings'[u] = openings[u]
  BY <1>1 DEF SessionsShape
<1>3. CASE \A p \in pins : p.id # id
  <2>1. pins' = pins
    <3>1. RowsOf(pins, id) = {} /\ Without(pins, id) = pins
      BY <1>1, <1>3, PinRow
    <3>2. ResetPINFailedAttempts(pins, id) = pins
      BY <3>1 DEF ResetPINFailedAttempts
    <3>3. UpdatePINHash(pins, id, calls[c].secret) = pins
      BY <3>1 DEF UpdatePINHash
    <3> QED BY <1>1, <3>2, <3>3
  <2> QED BY <1>1, <1>2, <1>3, <2>1, PinAbsent
<1>4. ASSUME NEW q \in pins, q.id = id PROVE PinInv'
  <2>1. \E v \in PinRecords : PinBecomes(pins', q.id, v) /\ v.attempts = 0
    <3>1. CASE pins' = ResetPINFailedAttempts(pins, id)
      <4>1. \E v \in PinRecords :
              /\ PinBecomes(ResetPINFailedAttempts(pins, q.id), q.id, v)
              /\ v.attempts = 0 /\ v.locked = FALSE
        BY <1>1, PinStatements
      <4> QED BY <1>4, <3>1, <4>1
    <3>2. CASE pins' = UpdatePINHash(pins, id, calls[c].secret) /\ calls[c].secret \in Pins
      <4>1. \A hash \in Pins : \E v \in PinRecords :
              /\ PinBecomes(UpdatePINHash(pins, q.id, hash), q.id, v)
              /\ v.attempts = 0 /\ v.locked = FALSE
        BY <1>1, PinStatements
      <4>2. \E v \in PinRecords :
              /\ PinBecomes(UpdatePINHash(pins, q.id, calls[c].secret), q.id, v)
              /\ v.attempts = 0 /\ v.locked = FALSE
        BY <3>2, <4>1
      <4> QED BY <1>4, <3>2, <4>2
    <3> QED BY <1>1, <3>1, <3>2
  <2>2. PICK v \in PinRecords : PinBecomes(pins', q.id, v) /\ v.attempts = 0
    BY <2>1
  <2>3. PinFits(v)'
    BY <1>2, <1>4, <2>2, FreshFits DEF PinBecomes
  <2> QED BY <1>1, <1>2, <1>4, <2>2, <2>3, PinMoved
<1> QED BY <1>3, <1>4

LEMMA InsertKeepsPin ==
  ASSUME SessionsShape, PinInv, NEW c \in SessionCalls, InsertPIN(c)
  PROVE  PinInv'
<1> DEFINE id == calls[c].id
<1>1. /\ PinTable(pins) /\ Carried(c) /\ id \in Users /\ calls[c].secret \in Pins
      /\ guesses' = guesses /\ openings' = openings /\ calls'[c] = Idle /\ calls[c].step = "write"
      /\ \A d \in SessionCalls \ {c} : calls'[d].id = calls[d].id /\ calls'[d].step = calls[d].step
  BY PinShape, PinLead, AnswerTurns
     DEF PinSteps, InsertPIN, At, ghostVars, SessionsShape, CallsFit, CallFits, Carried
<1>2. CASE PINExists(pins, id)
  <2>1. pins' = pins
    BY <1>2 DEF InsertPIN, PinRepoCreate, Succeeds, Fail, MapDBErrors
  <2> QED BY <1>1, <2>1, IdleFits, PinElsewhere
<1>3. CASE ~PINExists(pins, id)
  <2>1. \A q \in pins : q.id # id
    BY <1>3 DEF PINExists, RowsOf
  <2>2. pins' = CreatePIN(pins, Pin(id, calls[c].secret))
    BY <1>3 DEF InsertPIN, PinRepoCreate, Succeeds, Ok
  <2>3. PinBecomes(pins', id, Pin(id, calls[c].secret))
    BY <1>1, <2>1, <2>2, PinCreated
  <2>4. Pin(id, calls[c].secret) \in PinRecords /\ Pin(id, calls[c].secret).attempts = 0
    BY <1>1 DEF Pin, PinRecords
  <2>5. PICK v \in PinRecords : PinBecomes(pins', id, v) /\ v.attempts = 0
    BY <2>3, <2>4
  <2>6. guesses'[v.id] = 0 /\ openings'[v.id] \in Nat
    BY <1>1, <2>1, <2>5 DEF PinBecomes, PinInv, SessionsShape
  <2>7. PinFits(v)'
    BY <2>5, <2>6, FreshFits
  <2> QED BY <1>1, <2>5, <2>7, PinMoved
<1> QED BY <1>2, <1>3

LEMMA OpeningKeepsPin ==
  ASSUME SessionsShape, PinInv, NEW u \in Users, LockRunsOut(u)
  PROVE  PinInv'
<1>1. PICK q \in RowsOf(pins, u) :
        q.locked /\ pins' = Without(pins, u) \cup {[q EXCEPT !.locked = FALSE]}
  BY DEF LockRunsOut
<1>2. q \in pins /\ q.id = u /\ PinTable(pins) /\ calls' = calls /\ guesses' = guesses
      /\ openings' = [openings EXCEPT ![u] = @ + 1]
  BY <1>1 DEF RowsOf, SessionsShape, LockRunsOut
<1>3. PICK v \in PinRecords :
        /\ PinBecomes(Without(pins, q.id) \cup {[q EXCEPT !.locked = FALSE]}, q.id, v)
        /\ v.attempts = q.attempts /\ v.locked = FALSE
  BY <1>2, PinStatements
<1>4. PinBecomes(pins', u, v) /\ v.id = u
  BY <1>1, <1>2, <1>3 DEF PinBecomes
<1>5. Counting(u)' = Counting(u) /\ Trying(u)' = Trying(u)
  BY <1>2 DEF Counting, Trying
<1>6. /\ Cardinality(SessionCalls) \in Nat /\ Cardinality(Counting(u)) \in Nat
      /\ Cardinality(Trying(u)) \in Nat
  <2>1. Counting(u) \in SUBSET SessionCalls /\ Trying(u) \in SUBSET SessionCalls
    BY DEF Counting, Trying
  <2> QED BY <2>1, SessionsAssumption, FS_Subset, FS_CardinalityType
<1>7. /\ q.attempts \in Nat /\ v.attempts = q.attempts /\ ~v.locked /\ q.locked
      /\ guesses'[u] = guesses[u] /\ guesses[u] \in Nat
      /\ openings'[u] = openings[u] + 1 /\ openings[u] \in Nat
      /\ MaxPinAttempts \in Nat \ {0}
  BY <1>1, <1>2, <1>3, SessionsAssumption DEF SessionsShape, PinTable, PinRecords
<1>8. PinFits(q)
  BY <1>2 DEF PinInv
<1> DEFINE rounds == Cardinality(SessionCalls) * openings[u]
<1>9. rounds \in Nat /\ Cardinality(SessionCalls) * openings'[u] = rounds + Cardinality(SessionCalls)
  BY <1>6, <1>7
<1>10. guesses[u] <= MaxPinAttempts - 1 + Cardinality(SessionCalls) + rounds
  BY <1>2, <1>7, <1>8 DEF PinFits
<1>11. guesses'[u] <= MaxPinAttempts - 1 + Cardinality(Trying(u)') + (rounds + Cardinality(SessionCalls))
  <2> HIDE DEF rounds
  <2> QED BY <1>5, <1>6, <1>7, <1>9, <1>10
<1>12. guesses'[u] <= v.attempts + Cardinality(Counting(u)') + openings'[u]
  <2>1. guesses[u] <= q.attempts + Cardinality(Counting(u)) + openings[u]
    BY <1>2, <1>8 DEF PinFits
  <2> QED BY <1>5, <1>6, <1>7, <2>1
<1>13. PinFits(v)'
  BY <1>4, <1>7, <1>9, <1>11, <1>12 DEF PinFits
<1>14. ASSUME NEW p \in pins, p.id # u PROVE PinFits(p)'
  <2>1. Counting(p.id)' = Counting(p.id) /\ Trying(p.id)' = Trying(p.id)
    BY <1>2 DEF Counting, Trying
  <2>2. guesses'[p.id] = guesses[p.id] /\ openings'[p.id] = openings[p.id]
    BY <1>2, <1>14 DEF SessionsShape, PinTable, PinRecords
  <2> QED BY <1>2, <2>1, <2>2 DEF PinFits, PinInv
<1>15. ASSUME NEW w \in Users, \A p \in pins' : p.id # w PROVE guesses'[w] = 0
  BY <1>2, <1>4, <1>15 DEF PinInv, PinBecomes
<1>16. \A p \in pins' : PinFits(p)'
  BY <1>4, <1>13, <1>14 DEF PinBecomes
<1> QED BY <1>15, <1>16 DEF PinInv

LEMMA FailKeepsPin ==
  ASSUME SessionsShape, PinInv, NEW c \in SessionCalls, FailCall(c)
  PROVE  PinInv'
<1> DEFINE id == calls[c].id
<1>1. /\ CallsFit /\ PinTable(pins) /\ Carried(c) /\ pins' = pins /\ guesses' = guesses /\ calls'[c] = Idle
      /\ \A d \in SessionCalls \ {c} : calls'[d].id = calls[d].id /\ calls'[d].step = calls[d].step
  BY SessionShape, AnswerTurns DEF FailCall, rowVars, SessionsShape, Carried
<1>2. CASE calls[c].step \notin {"count", "lock"}
  <2>1. openings' = openings
    BY <1>2 DEF FailCall
  <2> QED BY <1>1, <1>2, <2>1, IdleFits, PinElsewhere
<1>3. CASE calls[c].step \in {"count", "lock"}
  <2>1. id \in Users /\ openings' = [openings EXCEPT ![id] = @ + 1]
    BY <1>1, <1>3 DEF FailCall, CallsFit, CallFits
  <2>2. CASE \A p \in pins : p.id # id
    <3>1. guesses'[id] = 0
      BY <1>1, <2>1, <2>2 DEF PinInv
    <3> QED BY <1>1, <2>1, <2>2, <3>1, PinAbsent DEF SessionsShape
  <2>3. ASSUME NEW q \in pins, q.id = id PROVE PinInv'
    <3>1. PinBecomes(pins', id, q)
      BY <1>1, <2>3 DEF PinBecomes, PinTable
    <3>2. /\ q.attempts \in Nat /\ q.id \in Users
          /\ guesses'[q.id] = guesses[q.id] /\ guesses[q.id] \in Nat
          /\ openings'[q.id] = openings[q.id] + 1 /\ openings[q.id] \in Nat
          /\ MaxPinAttempts \in Nat \ {0}
      BY <1>1, <2>1, <2>3, SessionsAssumption DEF SessionsShape, PinTable, PinRecords
    <3>3. /\ Cardinality(SessionCalls) \in Nat /\ Cardinality(SessionCalls) >= 1
          /\ Cardinality(Counting(q.id)) \in Nat /\ Cardinality(Counting(q.id)') \in Nat
          /\ Cardinality(Counting(q.id)') >= Cardinality(Counting(q.id)) - 1
          /\ Cardinality(Trying(q.id)) \in Nat /\ Cardinality(Trying(q.id)') \in Nat
          /\ Cardinality(Trying(q.id)) <= Cardinality(SessionCalls)
      <4>1. /\ c \notin Counting(q.id)' /\ c \notin Trying(q.id)'
        BY <1>1, IdleFits DEF Counting, Trying
      <4>2. /\ Cardinality(SessionCalls) \in Nat /\ Cardinality(SessionCalls) >= 1
            /\ Cardinality(Counting(q.id)) \in Nat /\ Cardinality(Counting(q.id)') \in Nat
            /\ Cardinality(Trying(q.id)) \in Nat /\ Cardinality(Trying(q.id)') \in Nat
            /\ Cardinality(Trying(q.id)) <= Cardinality(SessionCalls)
            /\ c \notin Counting(q.id) => Cardinality(Counting(q.id)') = Cardinality(Counting(q.id))
            /\ c \in Counting(q.id) => Cardinality(Counting(q.id)') = Cardinality(Counting(q.id)) - 1
        BY <1>1, <4>1, Tallies
      <4> QED BY <4>2
    <3>4. PinFits(q)
      BY DEF PinInv
    <3> DEFINE rounds == Cardinality(SessionCalls) * openings[q.id]
    <3>5. rounds \in Nat /\ Cardinality(SessionCalls) * openings'[q.id] = rounds + Cardinality(SessionCalls)
      BY <3>2, <3>3
    <3>6. guesses'[q.id] <= MaxPinAttempts - 1
            + (IF q.locked THEN Cardinality(SessionCalls) ELSE Cardinality(Trying(q.id)'))
            + (rounds + Cardinality(SessionCalls))
      <4>1. guesses[q.id] <= MaxPinAttempts - 1
              + (IF q.locked THEN Cardinality(SessionCalls) ELSE Cardinality(Trying(q.id))) + rounds
        BY <3>4 DEF PinFits
      <4> HIDE DEF rounds
      <4>2. guesses[q.id] <= MaxPinAttempts - 1 + Cardinality(SessionCalls) + rounds
        BY <3>2, <3>3, <3>5, <4>1
      <4> QED BY <3>2, <3>3, <3>5, <4>2
    <3>7. guesses'[q.id] <= q.attempts + Cardinality(Counting(q.id)') + openings'[q.id]
      <4>1. guesses[q.id] <= q.attempts + Cardinality(Counting(q.id)) + openings[q.id]
        BY <3>4 DEF PinFits
      <4> QED BY <3>2, <3>3, <4>1
    <3>8. openings'[q.id] > 0
      BY <3>2
    <3>9. PinFits(q)'
      BY <3>5, <3>6, <3>7, <3>8 DEF PinFits
    <3> QED BY <1>1, <2>1, <3>1, <3>9, PinMoved DEF SessionsShape
  <2> QED BY <2>2, <2>3
<1> QED BY <1>2, <1>3

LEMMA StepPin == SessionsShape /\ PinInv /\ [SessionsNext]_sessionVars => PinInv'
<1> SUFFICES ASSUME SessionsShape, PinInv, [SessionsNext]_sessionVars PROVE PinInv'
  OBVIOUS
<1>1. CallsFit /\ \A c \in SessionCalls : calls[c] \in SessionRecords
  BY DEF SessionsShape, CallsFit
<1>2. ASSUME NEW c \in SessionCalls, OnlyReads(c) PROVE PinInv'
  <2>1. Carried(c) /\ pins' = pins /\ guesses' = guesses /\ openings' = openings
    BY <1>2, ReadsCarry DEF rowVars, ghostVars
  <2>2. calls[c].step \notin {"count", "lock"} /\ calls'[c].step \notin {"count", "lock"}
    BY <1>2, ReadsLead, IdleFits DEF Onward
  <2> QED BY <2>1, <2>2, PinElsewhere DEF Carried
<1>3. ASSUME NEW c \in SessionCalls, LookupToken(c) \/ RevokeToken(c) \/ PersistToken(c) \/ WritePassword(c)
      PROVE  PinInv'
  <2>1. Carried(c) /\ pins' = pins /\ guesses' = guesses /\ openings' = openings
    BY <1>3, SessionShape, PersistShape
       DEF LookupToken, RevokeToken, PersistToken, WritePassword, rowVars, ghostVars
  <2>2. calls[c].step \notin {"count", "lock"} /\ calls'[c].step \notin {"count", "lock"}
    <3>1. CASE LookupToken(c)
      BY <3>1, LookupLead, IdleFits DEF Onward
    <3>2. CASE RevokeToken(c)
      BY <1>1, <3>2, AnswerTurns, GotoTurns, IdleFits DEF RevokeToken, At, SessionSteps
    <3>3. CASE PersistToken(c)
      BY <1>1, <3>3, AnswerTurns, IdleFits DEF PersistToken, At
    <3>4. CASE WritePassword(c)
      BY <1>1, <3>4, GotoTurns DEF WritePassword, At, SessionSteps
    <3> QED BY <1>3, <3>1, <3>2, <3>3, <3>4
  <2> QED BY <2>1, <2>2, PinElsewhere DEF Carried
<1>4. ASSUME NEW c \in SessionCalls,
             IncrementVersion(c) \/ UpgradeVersion(c) \/ VersionFails(c) \/ AbortVersions(c)
      PROVE  PinInv'
  <2>1. Carried(c) /\ pins' = pins /\ guesses' = guesses /\ openings' = openings
    BY <1>4, SessionShape
       DEF IncrementVersion, UpgradeVersion, VersionFails, AbortVersions, rowVars, ghostVars
  <2>2. calls[c].step \in Raising
    BY <1>4 DEF IncrementVersion, UpgradeVersion, VersionFails, AbortVersions, At, Raising
  <2>3. calls'[c].step \notin {"count", "lock"}
    <3>1. CASE IncrementVersion(c)
      BY <1>1, <2>2, <3>1 DEF IncrementVersion, CallsFit, SessionRecords, Raising
    <3>2. CASE UpgradeVersion(c)
      BY <1>1, <2>2, <3>2 DEF UpgradeVersion, CallsFit, SessionRecords, Raising
    <3>3. CASE VersionFails(c)
      BY <1>1, <2>2, <3>3, GotoTurns DEF VersionFails, SessionSteps, Raising
    <3>4. CASE AbortVersions(c)
      BY <1>1, <3>4, AnswerTurns, IdleFits DEF AbortVersions
    <3> QED BY <1>4, <3>1, <3>2, <3>3, <3>4
  <2> QED BY <2>1, <2>2, <2>3, PinElsewhere DEF Carried, Raising
<1>5. ASSUME NEW c \in SessionCalls, RevokeAll(c) PROVE PinInv'
  <2>1. /\ calls[c].step = "revokeall" /\ calls'[c] = Idle
        /\ \A d \in SessionCalls \ {c} : calls'[d].id = calls[d].id /\ calls'[d].step = calls[d].step
        /\ pins' = pins /\ guesses' = guesses /\ openings' = openings
    BY <1>1, <1>5, Overtaken DEF RevokeAll, At
  <2> QED BY <2>1, IdleFits, PinElsewhere
<1>6. ASSUME NEW c \in SessionCalls, NEW r \in Requests, Start(c, r) PROVE PinInv'
  <2>1. /\ calls[c].step = "idle" /\ calls'[c].step \notin {"count", "lock"}
        /\ \A d \in SessionCalls \ {c} : calls'[d] = calls[d]
        /\ pins' = pins /\ guesses' = guesses /\ openings' = openings
    BY <1>6, StartShape, RequestCalled DEF SessionsShape, Start, rowVars, ghostVars
  <2> QED BY <2>1, PinElsewhere
<1>7. ASSUME NEW c \in SessionCalls, CallStep(c) PROVE PinInv'
  BY <1>2, <1>3, <1>4, <1>5, <1>7, VerifyKeepsPin, CountKeepsPin, LockKeepsPin, ResetKeepsPin,
     InsertKeepsPin, FailKeepsPin DEF CallStep, OnlyReads
<1>8. ASSUME NEW u \in Users, AdminStep(u) PROVE PinInv'
  <2>1. pins' = pins /\ guesses' = guesses /\ openings' = openings /\ calls' = calls
    BY <1>8, AdminFacts
  <2> QED BY <2>1 DEF PinInv, PinFits, Counting, Trying
<1>9. CASE UNCHANGED sessionVars
  BY <1>9 DEF sessionVars, rowVars, ghostVars, PinInv, PinFits, Counting, Trying
<1> QED BY <1>6, <1>7, <1>8, <1>9, OpeningKeepsPin DEF SessionsNext

\* The lock of a PIN under concurrent verifications: the counter at its limit
\* means a lock that is set, being set, opened or failed; and the wrong PINs
\* compared since the counter was last reset are at most the limit, one round
\* of the calls in progress, and one round more for every opening
\* (userpin_usecase.go, VerifyPIN; userpin_repo.go, IncrementFailedAttempts).
THEOREM PinLockStands == SessionsSpec => []PinLockHolds
<1>1. SessionsInit => PinInv
  <2> SUFFICES ASSUME SessionsInit PROVE PinInv
    OBVIOUS
  <2>1. PICK q \in Pins : pins \in {{}, {Pin(u, q) : u \in Users}}
    BY DEF SessionsInit
  <2>2. ASSUME NEW p \in pins PROVE PinFits(p)
    <3>1. p.id \in Users /\ p.attempts = 0 /\ ~p.locked
      BY <2>1 DEF Pin
    <3>2. guesses[p.id] = 0 /\ openings[p.id] = 0
      BY <3>1 DEF SessionsInit
    <3>3. Counting(p.id) = {} /\ Trying(p.id) = {}
      BY DEF SessionsInit, Counting, Trying, Idle
    <3>4. Cardinality(Counting(p.id)) = 0 /\ Cardinality(Trying(p.id)) = 0
      BY <3>3, FS_EmptySet
    <3>5. Cardinality(SessionCalls) \in Nat /\ MaxPinAttempts \in Nat \ {0}
      BY SessionsAssumption, FS_CardinalityType
    <3>6. Cardinality(SessionCalls) * openings[p.id] = 0
      BY <3>2, <3>5
    <3> QED BY <3>1, <3>2, <3>4, <3>5, <3>6 DEF PinFits
  <2> QED BY <2>2 DEF PinInv, SessionsInit
<1>2. SessionsShape /\ PinInv => PinLockHolds
  <2> SUFFICES ASSUME SessionsShape, PinInv, NEW p \in pins
               PROVE  /\ p.attempts >= MaxPinAttempts =>
                           \/ p.locked \/ openings[p.id] > 0
                           \/ \E c \in SessionCalls : calls[c].id = p.id /\ calls[c].step = "lock"
                      /\ guesses[p.id] <= MaxPinAttempts - 1 + Cardinality(SessionCalls) * (1 + openings[p.id])
    BY DEF PinLockHolds
  <2>1. PinFits(p)
    BY DEF PinInv
  <2>2. /\ p.id \in Users /\ guesses[p.id] \in Nat /\ openings[p.id] \in Nat
        /\ MaxPinAttempts \in Nat \ {0} /\ IsFiniteSet(SessionCalls)
    BY SessionsAssumption DEF SessionsShape, PinTable, PinRecords
  <2>3. Trying(p.id) \in SUBSET SessionCalls
    BY DEF Trying
  <2>4. /\ Cardinality(SessionCalls) \in Nat /\ Cardinality(Trying(p.id)) \in Nat
        /\ Cardinality(Trying(p.id)) <= Cardinality(SessionCalls)
    BY <2>2, <2>3, FS_Subset, FS_CardinalityType
  <2> DEFINE rounds == Cardinality(SessionCalls) * openings[p.id]
  <2>5. rounds \in Nat
        /\ Cardinality(SessionCalls) * (1 + openings[p.id]) = Cardinality(SessionCalls) + rounds
    BY <2>2, <2>4
  <2>6. guesses[p.id] <= MaxPinAttempts - 1
          + (IF p.locked THEN Cardinality(SessionCalls) ELSE Cardinality(Trying(p.id))) + rounds
    BY <2>1 DEF PinFits
  <2> HIDE DEF rounds
  <2>7. guesses[p.id] <= MaxPinAttempts - 1 + (Cardinality(SessionCalls) + rounds)
    BY <2>2, <2>4, <2>5, <2>6
  <2> QED BY <2>1, <2>5, <2>7 DEF PinFits
<1> QED
  BY <1>1, <1>2, InitShape, StepShape, StepPin, PTL DEF SessionsSpec

-----------------------------------------------------------------------------
(* Sessions follow the password *)

Changes(x) == x.op \in {"change", "reset"} /\ x.step \in {"versions", "aborted", "revokeall"}

\* A step after which what stood for a user's tokens still stands.
Stands(u) ==
  /\ \A x \in users : x.id = u =>
       \/ \E y \in users' : y.id = u /\ y.password = x.password
       \/ u \in loose' \/ ChangingPassword(u)'
  /\ u \in loose \/ ChangingPassword(u) => u \in loose' \/ ChangingPassword(u)'

LEMMA StandsKept ==
  ASSUME SessionsShape, UserTable(users'), loose \subseteq loose',
         \A d \in SessionCalls : Changes(calls[d]) =>
           calls[d].id \in loose' \/ (Changes(calls'[d]) /\ calls'[d].id = calls[d].id),
         \A x \in users, y \in users' : x.id = y.id =>
           y.password = x.password \/ x.id \in loose' \/ ChangingPassword(x.id)'
  PROVE  \A u \in Users : Stands(u)
<1> SUFFICES ASSUME NEW u \in Users PROVE Stands(u)
  OBVIOUS
<1>1. ASSUME NEW x \in users, x.id = u
      PROVE  \/ \E y \in users' : y.id = u /\ y.password = x.password
             \/ u \in loose' \/ ChangingPassword(u)'
  <2>1. PICK y \in users' : y.id = u
    <3>1. u \in {y.id : y \in users'}
      BY DEF UserTable
    <3> QED BY <3>1
  <2> QED BY <1>1, <2>1
<1>2. ChangingPassword(u) => u \in loose' \/ ChangingPassword(u)'
  BY DEF ChangingPassword, Changes
<1> QED BY <1>1, <1>2 DEF Stands

LEMMA FollowsOn ==
  ASSUME NEW u, NEW password, NEW late, NEW later, Follows(u, password, late), Stands(u), late => later
  PROVE  Follows(u, password, later)'
BY DEF Follows, Stands

\* A step that stores no token.
LEMMA FollowKept ==
  ASSUME SessionsShape, FollowInv, \A u \in Users : Stands(u), origin' = origin,
         \A s \in tokens' : \E t \in tokens :
           s.hash = t.hash /\ s.user = t.user /\ (t.revoked => s.revoked),
         \A d \in SessionCalls : WillStore(calls'[d]) =>
           Follows(calls'[d].id, calls'[d].password, calls'[d].late)
  PROVE  FollowInv'
<1>1. ASSUME NEW s \in tokens', s.user \in Users, ~s.revoked
      PROVE  Follows(s.user, origin[s.hash].password, origin[s.hash].late)'
  <2>1. PICK t \in tokens : s.hash = t.hash /\ s.user = t.user /\ (t.revoked => s.revoked)
    OBVIOUS
  <2>2. Follows(t.user, origin[t.hash].password, origin[t.hash].late)
    BY <1>1, <2>1 DEF FollowInv
  <2>3. PICK password, late : password = origin[t.hash].password /\ late = origin[t.hash].late
    OBVIOUS
  <2>4. Follows(s.user, password, late)
    BY <2>1, <2>2, <2>3
  <2>5. Follows(s.user, password, late)'
    BY <1>1, <2>4, FollowsOn
  <2>6. password = origin[s.hash].password' /\ late = origin[s.hash].late'
    BY <2>1, <2>3
  <2> QED BY <2>5, <2>6
<1>2. ASSUME NEW d \in SessionCalls, WillStore(calls'[d])
      PROVE  Follows(calls[d].id, calls[d].password, calls[d].late)'
  <2>1. PICK u, password, late :
          u = calls'[d].id /\ password = calls'[d].password /\ late = calls'[d].late
    OBVIOUS
  <2>2. Follows(u, password, late)
    BY <1>2, <2>1
  <2>3. Follows(u, password, late)'
    BY <1>2, <2>1, <2>2, FollowsOn DEF WillStore
  <2> QED BY <2>1, <2>3
<1> QED BY <1>1, <1>2 DEF FollowInv, WillStore

LEMMA CallsFollow ==
  ASSUME FollowInv, NEW d \in SessionCalls, WillStore(calls[d])
  PROVE  Follows(calls[d].id, calls[d].password, calls[d].late)
BY DEF FollowInv, WillStore

\* A call that goes on, or ends, without having changed a password.
LEMMA CarriedFollows ==
  ASSUME SessionsShape, FollowInv, NEW c \in SessionCalls, Carried(c), UserTable(users'),
         loose \subseteq loose', origin' = origin,
         \A x \in users, y \in users' : x.id = y.id => y.password = x.password,
         Changes(calls[c]) => calls[c].id \in loose' \/ (Changes(calls'[c]) /\ calls'[c].id = calls[c].id),
         WillStore(calls'[c]) =>
           \/ /\ WillStore(calls[c]) /\ calls'[c].id = calls[c].id
              /\ calls'[c].password = calls[c].password /\ calls'[c].late = calls[c].late
           \/ Follows(calls'[c].id, calls'[c].password, calls'[c].late),
         \A s \in tokens' : \E t \in tokens :
           s.hash = t.hash /\ s.user = t.user /\ (t.revoked => s.revoked)
  PROVE  FollowInv'
<1>1. \A u \in Users : Stands(u)
  <2>1. \A d \in SessionCalls : Changes(calls[d]) =>
          calls[d].id \in loose' \/ (Changes(calls'[d]) /\ calls'[d].id = calls[d].id)
    BY DEF Carried
  <2> QED BY <2>1, StandsKept
<1>2. \A d \in SessionCalls : WillStore(calls'[d]) =>
        Follows(calls'[d].id, calls'[d].password, calls'[d].late)
  <2>1. ASSUME NEW d \in SessionCalls, d # c, WillStore(calls'[d])
        PROVE  Follows(calls'[d].id, calls'[d].password, calls'[d].late)
    <3>1. calls'[d] = calls[d]
      BY <2>1 DEF Carried
    <3> QED BY <2>1, <3>1, CallsFollow
  <2>2. WillStore(calls'[c]) => Follows(calls'[c].id, calls'[c].password, calls'[c].late)
    BY CallsFollow
  <2> QED BY <2>1, <2>2
<1> QED BY <1>1, <1>2, FollowKept

LEMMA ReadsFollow ==
  ASSUME SessionsShape, FollowInv, NEW c \in SessionCalls, OnlyReads(c)
  PROVE  FollowInv'
<1>1. Carried(c) /\ UNCHANGED <<rowVars, ops, ghostVars>> /\ UserTable(users) /\ CallFits(calls[c])
  BY ReadsCarry DEF SessionsShape, CallsFit
<1>2. Changes(calls[c]) => Changes(calls'[c]) /\ calls'[c].id = calls[c].id
  BY ReadsLead DEF Changes, Onward
<1>3. WillStore(calls'[c]) =>
        \/ /\ WillStore(calls[c]) /\ calls'[c].id = calls[c].id
           /\ calls'[c].password = calls[c].password /\ calls'[c].late = calls[c].late
        \/ Follows(calls'[c].id, calls'[c].password, calls'[c].late)
  BY ReadsLead, IdleFits DEF WillStore, Storing, Onward, Follows
<1> QED BY <1>1, <1>2, <1>3, CarriedFollows DEF rowVars, ghostVars, UserTable

LEMMA PinFollows ==
  ASSUME SessionsShape, FollowInv, NEW c \in SessionCalls, PinSteps(c)
  PROVE  FollowInv'
<1>1. Carried(c) /\ UNCHANGED <<users, tokens, origin, loose>> /\ UserTable(users)
  BY PinShape, PinLead DEF PinSteps, SessionsShape
<1>2. ~Changes(calls[c])
  BY PinLead DEF Changes
<1>3. WillStore(calls'[c]) =>
        /\ WillStore(calls[c]) /\ calls'[c].id = calls[c].id
        /\ calls'[c].password = calls[c].password /\ calls'[c].late = calls[c].late
  BY PinLead, IdleFits DEF WillStore, Storing, Onward
<1> QED BY <1>1, <1>2, <1>3, CarriedFollows DEF UserTable

LEMMA LookupFollows ==
  ASSUME SessionsShape, FollowInv, NEW c \in SessionCalls, LookupToken(c)
  PROVE  FollowInv'
<1>1. Carried(c) /\ UNCHANGED <<users, tokens, origin, loose>> /\ UserTable(users)
  BY SessionShape, LookupLead DEF rowVars, ghostVars, SessionsShape
<1>2. ~Changes(calls[c])
  BY LookupLead DEF Changes
<1>3. WillStore(calls'[c]) => Follows(calls'[c].id, calls'[c].password, calls'[c].late)
  <2> SUFFICES ASSUME WillStore(calls'[c]) PROVE Follows(calls'[c].id, calls'[c].password, calls'[c].late)
    OBVIOUS
  <2>1. PICK t \in tokens : t.hash = calls[c].hash /\ t.user = calls[c].id /\ ~t.revoked
    BY LookupLead, IdleFits DEF WillStore, Onward
  <2>2. /\ calls'[c].id = calls[c].id /\ calls'[c].password = origin[calls[c].hash].password
        /\ origin[calls[c].hash].late => calls'[c].late
    BY LookupLead, IdleFits DEF WillStore, Onward
  <2>3. t.user \in Users
    BY <2>1, <2>2 DEF WillStore
  <2>4. Follows(t.user, origin[t.hash].password, origin[t.hash].late)
    BY <2>1, <2>3 DEF FollowInv
  <2> QED BY <2>1, <2>2, <2>4 DEF Follows
<1> QED BY <1>1, <1>2, <1>3, CarriedFollows DEF UserTable

LEMMA RevisedKeeps ==
  ASSUME TokenTable(tokens), NEW revoked, NEW after, Revised(tokens, after, revoked)
  PROVE  \A s \in after : \E t \in tokens :
           s.hash = t.hash /\ s.user = t.user /\ (t.revoked => s.revoked) /\ (t \in revoked => s.revoked)
<1>1. \A t \in tokens : t.revoked \in BOOLEAN
  BY DEF TokenTable, TokenRecords
<1> SUFFICES ASSUME NEW s \in after
             PROVE  \E t \in tokens : s.hash = t.hash /\ s.user = t.user /\ (t.revoked => s.revoked)
                                        /\ (t \in revoked => s.revoked)
  OBVIOUS
<1>2. PICK t \in tokens : s.hash = t.hash /\ s.user = t.user /\ s.revoked = (t.revoked \/ t \in revoked)
  BY DEF Revised
<1> QED BY <1>1, <1>2

LEMMA RevokeFollows ==
  ASSUME SessionsShape, FollowInv, NEW c \in SessionCalls, RevokeToken(c)
  PROVE  FollowInv'
<1>1. /\ Carried(c) /\ UNCHANGED <<users, origin, loose>> /\ UserTable(users) /\ TokenTable(tokens)
      /\ CallsFit /\ calls[c].op \in {"logout", "refresh"} /\ calls[c].step = "revoke"
  BY SessionShape DEF RevokeToken, At, ghostVars, SessionsShape
<1>2. ~Changes(calls[c])
  BY <1>1 DEF Changes
<1>3. WillStore(calls'[c]) =>
        /\ WillStore(calls[c]) /\ calls'[c].id = calls[c].id
        /\ calls'[c].password = calls[c].password /\ calls'[c].late = calls[c].late
  BY <1>1, AnswerTurns, GotoOnward, IdleFits DEF RevokeToken, WillStore, Storing, Onward, SessionSteps
<1>4. \A s \in tokens' : \E t \in tokens :
        s.hash = t.hash /\ s.user = t.user /\ (t.revoked => s.revoked)
  <2>1. Revised(tokens, tokens', {t \in tokens : t.hash = calls[c].hash})
    BY <1>1, TokenRevoked DEF RevokeToken
  <2> QED BY <1>1, <2>1, RevisedKeeps
<1> QED BY <1>1, <1>2, <1>3, <1>4, CarriedFollows DEF UserTable

LEMMA RaisesFollow ==
  ASSUME SessionsShape, FollowInv, NEW c \in SessionCalls,
         IncrementVersion(c) \/ UpgradeVersion(c) \/ VersionFails(c) \/ AbortVersions(c)
  PROVE  FollowInv'
<1>1. /\ Carried(c) /\ CallsFit /\ calls[c] \in SessionRecords /\ UserTable(users)
      /\ calls[c].op \in {"logoutall", "reset"} /\ calls[c].step \in Raising
      /\ tokens' = tokens /\ origin' = origin
  BY SessionShape DEF SessionsShape, CallsFit, IncrementVersion, UpgradeVersion, VersionFails,
     AbortVersions, At, Raising, rowVars, ghostVars
<1>2. /\ UserTable(users')
      /\ \A x \in users, y \in users' : x.id = y.id => y.password = x.password
  <2>1. users' = users \/ users' = IncrementTokenVersion(users, calls[c].id)
    BY DEF IncrementVersion, UpgradeVersion, VersionFails, AbortVersions, rowVars,
       RepoIncrementTokenVersion, Succeeds, Ok, Fail
  <2>2. CASE users' = users
    BY <1>1, <2>2 DEF UserTable
  <2>3. CASE users' = IncrementTokenVersion(users, calls[c].id)
    BY <1>1, <2>3, VersionRaised
  <2> QED BY <2>1, <2>2, <2>3
<1>3. ~WillStore(calls'[c]) /\ loose \subseteq loose'
      /\ (Changes(calls[c]) => calls[c].id \in loose' \/ (Changes(calls'[c]) /\ calls'[c].id = calls[c].id))
  <2>1. CASE IncrementVersion(c)
    BY <1>1, <2>1 DEF IncrementVersion, ghostVars, CallsFit, SessionRecords, WillStore, Changes, Raising
  <2>2. CASE UpgradeVersion(c)
    BY <1>1, <2>2 DEF UpgradeVersion, ghostVars, CallsFit, SessionRecords, WillStore, Changes, Raising
  <2>3. CASE VersionFails(c)
    BY <1>1, <2>3, GotoOnward DEF VersionFails, ghostVars, WillStore, Changes, Raising, SessionSteps, Onward
  <2>4. CASE AbortVersions(c)
    BY <1>1, <2>4, AnswerTurns, IdleFits DEF AbortVersions, WillStore, Changes
  <2> QED BY <2>1, <2>2, <2>3, <2>4
<1> QED BY <1>1, <1>2, <1>3, CarriedFollows

LEMMA FailFollows ==
  ASSUME SessionsShape, FollowInv, NEW c \in SessionCalls, FailCall(c)
  PROVE  FollowInv'
<1>1. /\ Carried(c) /\ CallsFit /\ UserTable(users) /\ calls'[c] = Idle
      /\ users' = users /\ tokens' = tokens /\ origin' = origin
      /\ calls[c].step \notin {"versions", "aborted"}
  BY SessionShape, AnswerTurns DEF SessionsShape, FailCall, rowVars
<1>2. ~WillStore(calls'[c]) /\ loose \subseteq loose' /\ (Changes(calls[c]) => calls[c].id \in loose')
  BY <1>1, IdleFits DEF FailCall, WillStore, Changes
<1> QED BY <1>1, <1>2, CarriedFollows DEF UserTable

LEMMA WriteFollows ==
  ASSUME SessionsShape, FollowInv, NEW c \in SessionCalls, WritePassword(c)
  PROVE  FollowInv'
<1>1. /\ Carried(c) /\ CallsFit /\ UserTable(users) /\ tokens' = tokens /\ origin' = origin /\ loose' = loose
      /\ calls[c].step = "write" /\ calls[c].op \in {"change", "reset"} /\ calls[c].secret \in Passwords
      /\ calls[c].id \in Users
  BY SessionShape DEF SessionsShape, WritePassword, At, CallsFit, CallFits, ghostVars
<1>2. /\ UserTable(users')
      /\ \A x \in users, y \in users' : x.id = y.id /\ x.id # calls[c].id => y.password = x.password
  BY <1>1, PasswordWritten DEF WritePassword
<1>3. Changes(calls'[c]) /\ calls'[c].id = calls[c].id
  BY <1>1, GotoOnward DEF WritePassword, Changes, Onward, SessionSteps
<1>4. \A u \in Users : u = calls[c].id => ChangingPassword(u)'
  BY <1>3 DEF Changes, ChangingPassword
<1>5. ~Changes(calls[c]) /\ ~WillStore(calls'[c])
  BY <1>1, <1>3 DEF Changes, WillStore
<1>6. \A u \in Users : Stands(u)
  <2>1. \A d \in SessionCalls : Changes(calls[d]) =>
          calls[d].id \in loose' \/ (Changes(calls'[d]) /\ calls'[d].id = calls[d].id)
    BY <1>1, <1>5 DEF Carried
  <2>2. ASSUME NEW x \in users, NEW y \in users', x.id = y.id
        PROVE  y.password = x.password \/ x.id \in loose' \/ ChangingPassword(x.id)'
    <3>1. CASE x.id = calls[c].id
      BY <1>1, <1>4, <3>1
    <3>2. CASE x.id # calls[c].id
      BY <1>2, <2>2, <3>2
    <3> QED BY <3>1, <3>2
  <2> QED BY <1>1, <1>2, <2>1, <2>2, StandsKept
<1>7. \A d \in SessionCalls : WillStore(calls'[d]) =>
        Follows(calls'[d].id, calls'[d].password, calls'[d].late)
  <2>1. ASSUME NEW d \in SessionCalls, d # c, WillStore(calls'[d])
        PROVE  Follows(calls'[d].id, calls'[d].password, calls'[d].late)
    <3>1. calls'[d] = calls[d]
      BY <1>1, <2>1 DEF Carried
    <3> QED BY <2>1, <3>1, CallsFollow
  <2> QED BY <1>5, <2>1
<1> QED BY <1>1, <1>6, <1>7, FollowKept

\* The user's tokens are all revoked, and the calls that will store one marked.
LEMMA RevokeAllFollows ==
  ASSUME SessionsShape, FollowInv, NEW c \in SessionCalls, RevokeAll(c)
  PROVE  FollowInv'
<1>1. /\ CallsFit /\ TokenTable(tokens) /\ calls[c].step = "revokeall"
      /\ users' = users /\ origin' = origin /\ loose' = loose \ {calls[c].id}
  BY DEF SessionsShape, RevokeAll, At
<1>2. /\ calls'[c] = Idle
      /\ \A d \in SessionCalls \ {c} :
           /\ calls'[d].op = calls[d].op /\ calls'[d].step = calls[d].step
           /\ calls'[d].id = calls[d].id /\ calls'[d].password = calls[d].password
           /\ calls[d].late => calls'[d].late
           /\ calls[d].id = calls[c].id /\ calls[d].op \in {"login", "refresh"} => calls'[d].late
  BY <1>1, Overtaken
<1>3. \A s \in tokens' : \E t \in tokens :
        /\ s.hash = t.hash /\ s.user = t.user /\ (t.revoked => s.revoked)
        /\ t \in {x \in tokens : x.user = calls[c].id} => s.revoked
  <2>1. Revised(tokens, tokens', {t \in tokens : t.user = calls[c].id})
    BY <1>1, AllTokensRevoked DEF RevokeAll
  <2> QED BY <1>1, <2>1, RevisedKeeps
<1>4. ASSUME NEW u \in Users, u # calls[c].id PROVE Stands(u)
  <2>1. ChangingPassword(u) => ChangingPassword(u)'
    BY <1>2, <1>4 DEF ChangingPassword
  <2> QED BY <1>1, <1>4, <2>1 DEF Stands
<1>5. ASSUME NEW s \in tokens', s.user \in Users, ~s.revoked
      PROVE  Follows(s.user, origin[s.hash].password, origin[s.hash].late)'
  <2>1. PICK t \in tokens : /\ s.hash = t.hash /\ s.user = t.user /\ (t.revoked => s.revoked)
                            /\ t \in {x \in tokens : x.user = calls[c].id} => s.revoked
    BY <1>3
  <2>2. s.user # calls[c].id /\ ~t.revoked
    BY <1>5, <2>1
  <2>3. Follows(t.user, origin[t.hash].password, origin[t.hash].late)
    BY <1>5, <2>1, <2>2 DEF FollowInv
  <2>4. PICK password, late : password = origin[t.hash].password /\ late = origin[t.hash].late
    OBVIOUS
  <2>5. Follows(s.user, password, late)
    BY <2>1, <2>3, <2>4
  <2>6. Follows(s.user, password, late)'
    BY <1>4, <1>5, <2>2, <2>5, FollowsOn
  <2>7. password = origin[s.hash].password' /\ late = origin[s.hash].late'
    BY <1>1, <2>1, <2>4
  <2> QED BY <2>6, <2>7
<1>6. ASSUME NEW d \in SessionCalls, WillStore(calls'[d])
      PROVE  Follows(calls[d].id, calls[d].password, calls[d].late)'
  <2>1. d # c
    BY <1>2, <1>6, IdleFits DEF WillStore
  <2>2. CASE calls[d].id = calls[c].id
    BY <1>2, <1>6, <2>1, <2>2 DEF WillStore, Follows
  <2>3. CASE calls[d].id # calls[c].id
    <3>1. WillStore(calls[d])
      BY <1>2, <1>6, <2>1 DEF WillStore
    <3>2. PICK u, password, late, later :
            /\ u = calls[d].id /\ password = calls[d].password /\ late = calls[d].late
            /\ later = calls'[d].late
      OBVIOUS
    <3>3. Follows(u, password, late) /\ u \in Users
      BY <3>1, <3>2, CallsFollow DEF WillStore
    <3>4. late => later
      BY <1>2, <2>1, <3>2
    <3>5. Follows(u, password, later)'
      BY <1>4, <2>3, <3>2, <3>3, <3>4, FollowsOn
    <3>6. u = calls[d].id' /\ password = calls[d].password' /\ later = calls[d].late'
      BY <1>2, <2>1, <3>2
    <3> QED BY <3>5, <3>6
  <2> QED BY <2>2, <2>3
<1> QED BY <1>5, <1>6 DEF FollowInv, WillStore

LEMMA PersistFollows ==
  ASSUME SessionsShape, FollowInv, NEW c \in SessionCalls, PersistToken(c)
  PROVE  FollowInv'
<1>1. /\ Carried(c) /\ CallsFit /\ CallFits(calls[c]) /\ UserTable(users) /\ TokenTable(tokens) /\ calls'[c] = Idle
      /\ calls[c].op \in {"login", "adminlogin", "refresh"} /\ calls[c].step = "persist"
      /\ users' = users /\ loose' = loose /\ NewHash \in Hashes
      /\ \A t \in tokens : t \in tokens' /\ t.hash # NewHash
      /\ \A t \in tokens' : t \in tokens \/ (t.hash = NewHash /\ t.user = calls[c].id)
  BY PersistShape, AnswerTurns DEF PersistToken, At, SessionsShape, CallsFit
<1>2. \A u \in Users : Stands(u)
  <2>1. ~Changes(calls[c])
    BY <1>1 DEF Changes
  <2>2. \A d \in SessionCalls : Changes(calls[d]) =>
          calls[d].id \in loose' \/ (Changes(calls'[d]) /\ calls'[d].id = calls[d].id)
    BY <1>1, <2>1 DEF Carried
  <2>3. \A x \in users, y \in users' : x.id = y.id => y.password = x.password
    BY <1>1 DEF UserTable
  <2> QED BY <1>1, <2>2, <2>3, StandsKept
<1>3. /\ origin'[NewHash].password = calls[c].password /\ origin'[NewHash].late = calls[c].late
      /\ \A h \in Hashes \ {NewHash} : origin'[h] = origin[h]
  BY <1>1 DEF PersistToken, SessionsShape
<1>4. ASSUME NEW s \in tokens', s.user \in Users, ~s.revoked
      PROVE  Follows(s.user, origin[s.hash].password, origin[s.hash].late)'
  <2>1. \E password, late : /\ Follows(s.user, password, late)
                            /\ password = origin'[s.hash].password /\ late = origin'[s.hash].late
    <3>1. CASE s \in tokens
      <4>1. s.hash \in Hashes /\ s.hash # NewHash
        BY <1>1, <3>1 DEF TokenTable, TokenRecords
      <4>2. Follows(s.user, origin[s.hash].password, origin[s.hash].late)
        BY <1>4, <3>1 DEF FollowInv
      <4> QED BY <1>3, <4>1, <4>2
    <3>2. CASE s.hash = NewHash /\ s.user = calls[c].id
      <4>1. WillStore(calls[c])
        BY <1>1, <1>4, <3>2, SessionsAssumption DEF WillStore, Storing, CallFits
      <4>2. Follows(calls[c].id, calls[c].password, calls[c].late)
        BY <4>1, CallsFollow
      <4> QED BY <1>3, <3>2, <4>2
    <3> QED BY <1>1, <3>1, <3>2
  <2>2. PICK password, late : /\ Follows(s.user, password, late)
                             /\ password = origin'[s.hash].password /\ late = origin'[s.hash].late
    BY <2>1
  <2>3. Follows(s.user, password, late)'
    BY <1>2, <1>4, <2>2, FollowsOn
  <2> QED BY <2>2, <2>3
<1>5. ASSUME NEW d \in SessionCalls, WillStore(calls'[d])
      PROVE  Follows(calls[d].id, calls[d].password, calls[d].late)'
  <2>1. calls'[d] = calls[d]
    BY <1>1, <1>5, IdleFits DEF Carried, WillStore
  <2>2. PICK u, password, late :
          u = calls[d].id /\ password = calls[d].password /\ late = calls[d].late
    OBVIOUS
  <2>3. Follows(u, password, late) /\ u \in Users
    BY <1>5, <2>1, <2>2, CallsFollow DEF WillStore
  <2>4. Follows(u, password, late)'
    BY <1>2, <2>3, FollowsOn
  <2>5. u = calls[d].id' /\ password = calls[d].password' /\ late = calls[d].late'
    BY <2>1, <2>2
  <2> QED BY <2>4, <2>5
<1> QED BY <1>4, <1>5 DEF FollowInv, WillStore

LEMMA StepFollow == SessionsShape /\ FollowInv /\ [SessionsNext]_sessionVars => FollowInv'
<1> SUFFICES ASSUME SessionsShape, FollowInv, [SessionsNext]_sessionVars PROVE FollowInv'
  OBVIOUS
<1>1. ASSUME NEW c \in SessionCalls, CallStep(c) PROVE FollowInv'
  BY <1>1, ReadsFollow, PinFollows, LookupFollows, RevokeFollows, RaisesFollow, FailFollows,
     WriteFollows, RevokeAllFollows, PersistFollows DEF CallStep, OnlyReads, PinSteps
<1>2. ASSUME NEW c \in SessionCalls, NEW r \in Requests, Start(c, r) PROVE FollowInv'
  <2>1. /\ calls[c].step = "idle" /\ ~WillStore(calls'[c])
        /\ \A d \in SessionCalls \ {c} : calls'[d] = calls[d]
        /\ UserTable(users) /\ users' = users /\ tokens' = tokens /\ origin' = origin /\ loose' = loose
    BY <1>2, StartShape, RequestCalled DEF SessionsShape, Start, rowVars, ghostVars, WillStore
  <2>2. \A x \in users, y \in users' : x.id = y.id => y.password = x.password
    BY <2>1 DEF UserTable
  <2>3. \A u \in Users : Stands(u)
    BY <2>1, <2>2, StandsKept DEF Changes
  <2>4. \A d \in SessionCalls : WillStore(calls'[d]) =>
          Follows(calls'[d].id, calls'[d].password, calls'[d].late)
    BY <2>1, CallsFollow
  <2> QED BY <2>1, <2>3, <2>4, FollowKept
<1>3. ASSUME NEW u \in Users, LockRunsOut(u) PROVE FollowInv'
  BY <1>3 DEF LockRunsOut, FollowInv, Follows, ChangingPassword, WillStore
<1>4. ASSUME NEW u \in Users, AdminStep(u) PROVE FollowInv'
  <2>1. /\ UserTable(users') /\ calls' = calls /\ tokens' = tokens /\ origin' = origin /\ loose \subseteq loose'
        /\ \A x \in users, y \in users' : x.id = y.id => y.password = x.password \/ x.id \in loose'
    BY <1>4, AdminFacts
  <2>2. \A v \in Users : Stands(v)
    BY <2>1, StandsKept
  <2> QED BY <2>1, <2>2, FollowKept, CallsFollow
<1>5. CASE UNCHANGED sessionVars
  BY <1>5 DEF sessionVars, rowVars, ghostVars, FollowInv, Follows, ChangingPassword, WillStore
<1> QED BY <1>1, <1>2, <1>3, <1>4, <1>5 DEF SessionsNext

-----------------------------------------------------------------------------
(* Tokens rotate *)

LEMMA Replacements ==
  ASSUME SessionsShape, NEW h
  PROVE  /\ IsFiniteSet(ReplacedBy(h)) /\ Cardinality(ReplacedBy(h)) \in Nat
         /\ IsFiniteSet(Replacing(h)) /\ Cardinality(Replacing(h)) \in Nat
         /\ Cardinality(Replacing(h)) <= Cardinality(SessionCalls)
         /\ Cardinality(SessionCalls) \in Nat
<1>1. IsFiniteSet(SessionCalls) /\ IsFiniteSet(Hashes)
  <2>1. MaxOps + 1 \in Nat
    BY SessionsAssumption
  <2>2. IsFiniteSet(1 .. MaxOps + 1)
    BY <2>1, FS_Interval
  <2> QED BY <2>2, SessionsAssumption DEF Hashes
<1>2. ReplacedBy(h) \in SUBSET Hashes /\ Replacing(h) \in SUBSET SessionCalls
  BY DEF ReplacedBy, Replacing
<1> QED BY <1>1, <1>2, FS_Subset, FS_CardinalityType

\* A step in which no call comes nearer to replacing a token.
LEMMA RotateKept ==
  ASSUME SessionsShape, RotateInv, origin' = origin, Cardinality(tokens') = Cardinality(tokens),
         \A s \in tokens' : \E t \in tokens : s.hash = t.hash /\ (t.revoked => s.revoked),
         \A d \in SessionCalls : Refreshing(calls'[d]) =>
           /\ Refreshing(calls[d]) /\ calls'[d].hash = calls[d].hash
           /\ calls'[d].step = "persist" => calls[d].step = "persist"
  PROVE  RotateInv'
<1>1. \A h \in Hashes : ReplacedBy(h)' = ReplacedBy(h)
  BY DEF ReplacedBy
<1>2. ASSUME NEW h \in Hashes
      PROVE  Cardinality(ReplacedBy(h)') + Cardinality(Replacing(h)') <= Cardinality(SessionCalls)
  <2>1. Replacing(h)' \subseteq Replacing(h)
    BY DEF Replacing
  <2>2. IsFiniteSet(Replacing(h)) /\ Cardinality(Replacing(h)) \in Nat /\ Cardinality(ReplacedBy(h)) \in Nat
        /\ Cardinality(SessionCalls) \in Nat
    BY Replacements
  <2>3. Cardinality(Replacing(h)') <= Cardinality(Replacing(h)) /\ Cardinality(Replacing(h)') \in Nat
    BY <2>1, <2>2, FS_Subset, FS_CardinalityType
  <2>4. Cardinality(ReplacedBy(h)') = Cardinality(ReplacedBy(h))
    BY <1>1
  <2>5. Cardinality(ReplacedBy(h)) + Cardinality(Replacing(h)) <= Cardinality(SessionCalls)
    BY DEF RotateInv
  <2> QED BY <2>2, <2>3, <2>4, <2>5
<1>3. ASSUME NEW s \in tokens', ~s.revoked
      PROVE  ReplacedBy(s.hash)' = {} /\ \A c \in Replacing(s.hash)' : calls'[c].step # "persist"
  <2>1. PICK t \in tokens : s.hash = t.hash /\ (t.revoked => s.revoked)
    OBVIOUS
  <2>2. ReplacedBy(t.hash) = {} /\ \A c \in Replacing(t.hash) : calls[c].step # "persist"
    BY <1>3, <2>1 DEF RotateInv
  <2>3. ReplacedBy(s.hash)' = {}
    BY <2>1, <2>2 DEF ReplacedBy
  <2>4. ASSUME NEW c \in Replacing(s.hash)' PROVE calls'[c].step # "persist"
    BY <2>1, <2>2, <2>4 DEF Replacing
  <2> QED BY <2>3, <2>4
<1>4. \A k \in Hashes : /\ origin'[k].replaces <= Cardinality(tokens')
                        /\ k > Cardinality(tokens') => origin'[k].replaces = 0
  BY DEF RotateInv
<1> QED BY <1>2, <1>3, <1>4 DEF RotateInv

LEMMA CarriedRotates ==
  ASSUME SessionsShape, RotateInv, NEW c \in SessionCalls, Carried(c),
         origin' = origin, tokens' = tokens,
         Refreshing(calls'[c]) => Refreshing(calls[c]) /\ calls'[c].step # "persist"
  PROVE  RotateInv'
<1>1. \A s \in tokens' : \E t \in tokens : s.hash = t.hash /\ (t.revoked => s.revoked)
  OBVIOUS
<1>2. \A d \in SessionCalls : Refreshing(calls'[d]) =>
        /\ Refreshing(calls[d]) /\ calls'[d].hash = calls[d].hash
        /\ calls'[d].step = "persist" => calls[d].step = "persist"
  BY IdleFits DEF Carried, Refreshing
<1> QED BY <1>1, <1>2, RotateKept

LEMMA MostRotate ==
  ASSUME SessionsShape, RotateInv, NEW c \in SessionCalls,
         \/ OnlyReads(c) \/ PinSteps(c) \/ WritePassword(c) \/ FailCall(c)
         \/ IncrementVersion(c) \/ UpgradeVersion(c) \/ VersionFails(c) \/ AbortVersions(c)
  PROVE  RotateInv'
<1>1. Carried(c) /\ CallsFit
  BY ReadsCarry, PinShape, SessionShape DEF PinSteps, SessionsShape
<1>2. CASE OnlyReads(c)
  <2>1. Refreshing(calls'[c]) => Refreshing(calls[c]) /\ calls'[c].step # "persist"
    BY <1>2, ReadsLead, IdleFits DEF Refreshing, Onward
  <2> QED BY <1>1, <1>2, <2>1, ReadsCarry, CarriedRotates DEF rowVars, ghostVars
<1>3. CASE PinSteps(c)
  <2>1. ~Refreshing(calls'[c])
    BY <1>3, PinLead, IdleFits DEF Refreshing, Onward
  <2> QED BY <1>1, <1>3, <2>1, PinLead, CarriedRotates
<1>4. CASE FailCall(c)
  <2>1. ~Refreshing(calls'[c]) /\ tokens' = tokens /\ origin' = origin
    BY <1>1, <1>4, AnswerTurns, IdleFits DEF FailCall, Refreshing, rowVars
  <2> QED BY <1>1, <2>1, CarriedRotates
<1>5. CASE \/ WritePassword(c) \/ IncrementVersion(c) \/ UpgradeVersion(c)
           \/ VersionFails(c) \/ AbortVersions(c)
  <2>1. /\ calls[c].op \in {"change", "logoutall", "reset"} /\ tokens' = tokens /\ origin' = origin
    BY <1>5 DEF WritePassword, IncrementVersion, UpgradeVersion, VersionFails, AbortVersions, At,
       rowVars, ghostVars
  <2>2. ~Refreshing(calls'[c])
    BY <1>1, <2>1, IdleFits DEF Carried, Refreshing
  <2> QED BY <1>1, <2>1, <2>2, CarriedRotates
<1> QED BY <1>2, <1>3, <1>4, <1>5

\* A live token has not been replaced: the call that finds it is the first
\* of those that overlap, or one of them.
LEMMA LookupRotates ==
  ASSUME SessionsShape, RotateInv, NEW c \in SessionCalls, LookupToken(c)
  PROVE  RotateInv'
<1>1. /\ Carried(c) /\ tokens' = tokens /\ origin' = origin /\ calls[c].step = "lookup" /\ SessionsShape'
  BY SessionShape, LookupLead DEF rowVars, ghostVars
<1>2. CASE ~Refreshing(calls'[c])
  BY <1>1, <1>2, CarriedRotates
<1>3. CASE Refreshing(calls'[c])
  <2>1. /\ calls'[c].step = "account" /\ calls'[c].hash = calls[c].hash
    BY <1>3, LookupLead, IdleFits DEF Refreshing, Onward
  <2>2. PICK t \in tokens : t.hash = calls[c].hash /\ t.user = calls[c].id /\ ~t.revoked
    BY <1>3, LookupLead, IdleFits DEF Refreshing, Onward
  <2>3. \A h : ReplacedBy(h)' = ReplacedBy(h)
    BY <1>1 DEF ReplacedBy
  <2>4. ASSUME NEW h \in Hashes
        PROVE  Cardinality(ReplacedBy(h)') + Cardinality(Replacing(h)') <= Cardinality(SessionCalls)
    <3>1. CASE h = t.hash
      <4>1. ReplacedBy(h)' = {}
        BY <2>2, <2>3, <3>1 DEF RotateInv
      <4>2. Cardinality(ReplacedBy(h)') = 0
        BY <4>1, FS_EmptySet
      <4>3. Replacing(h)' \in SUBSET SessionCalls
        BY DEF Replacing
      <4>4. Cardinality(Replacing(h)') <= Cardinality(SessionCalls) /\ Cardinality(Replacing(h)') \in Nat
        BY <4>3, SessionsAssumption, FS_Subset, FS_CardinalityType
      <4> QED BY <4>2, <4>4
    <3>2. CASE h # t.hash
      <4>1. Replacing(h)' = Replacing(h)
        BY <1>1, <2>1, <2>2, <3>2 DEF Replacing, Carried, Refreshing
      <4> QED BY <2>3, <4>1 DEF RotateInv
    <3> QED BY <3>1, <3>2
  <2>5. ASSUME NEW s \in tokens', ~s.revoked
        PROVE  ReplacedBy(s.hash)' = {} /\ \A d \in Replacing(s.hash)' : calls'[d].step # "persist"
    <3>1. s \in tokens /\ ReplacedBy(s.hash) = {}
          /\ \A d \in Replacing(s.hash) : calls[d].step # "persist"
      BY <1>1, <2>5 DEF RotateInv
    <3>2. ReplacedBy(s.hash)' = {}
      BY <2>3, <3>1
    <3>3. \A d \in Replacing(s.hash)' : d = c \/ (d \in Replacing(s.hash) /\ calls'[d] = calls[d])
      BY <1>1 DEF Replacing, Carried
    <3> QED BY <2>1, <3>1, <3>2, <3>3
  <2> QED BY <1>1, <2>4, <2>5 DEF RotateInv
<1> QED BY <1>2, <1>3

LEMMA RevokeRotates ==
  ASSUME SessionsShape, RotateInv, NEW c \in SessionCalls, RevokeToken(c)
  PROVE  RotateInv'
<1>1. /\ Carried(c) /\ origin' = origin /\ TokenTable(tokens) /\ CallsFit
      /\ calls[c].op \in {"logout", "refresh"} /\ calls[c].step = "revoke"
  BY SessionShape DEF RevokeToken, At, ghostVars, SessionsShape
<1>2. Revised(tokens, tokens', {t \in tokens : t.hash = calls[c].hash})
  BY <1>1, TokenRevoked DEF RevokeToken
<1>3. /\ Cardinality(tokens') = Cardinality(tokens)
      /\ \A s \in tokens' : \E t \in tokens :
           /\ s.hash = t.hash /\ s.user = t.user /\ (t.revoked => s.revoked)
           /\ t \in {x \in tokens : x.hash = calls[c].hash} => s.revoked
  <2>1. Cardinality(tokens') = Cardinality(tokens)
    BY <1>2 DEF Revised
  <2>2. \A s \in tokens' : \E t \in tokens :
           s.hash = t.hash /\ s.user = t.user /\ (t.revoked => s.revoked)
           /\ (t \in {x \in tokens : x.hash = calls[c].hash} => s.revoked)
    BY <1>1, <1>2, RevisedKeeps
  <2> QED BY <2>1, <2>2
<1>4. calls'[c] = Idle \/ (calls[c].op = "refresh" /\ Onward(c, "persist"))
  BY <1>1, AnswerTurns, GotoOnward DEF RevokeToken, SessionSteps
<1>5. \A h \in Hashes : ReplacedBy(h)' = ReplacedBy(h)
  BY <1>1 DEF ReplacedBy
<1>6. ASSUME NEW h \in Hashes
      PROVE  Cardinality(ReplacedBy(h)') + Cardinality(Replacing(h)') <= Cardinality(SessionCalls)
  <2>1. Replacing(h)' \subseteq Replacing(h)
    BY <1>1, <1>4, IdleFits DEF Replacing, Carried, Onward, Refreshing
  <2>2. IsFiniteSet(Replacing(h)) /\ Cardinality(Replacing(h)) \in Nat /\ Cardinality(ReplacedBy(h)) \in Nat
        /\ Cardinality(SessionCalls) \in Nat
    BY Replacements
  <2>3. Cardinality(Replacing(h)') <= Cardinality(Replacing(h)) /\ Cardinality(Replacing(h)') \in Nat
    BY <2>1, <2>2, FS_Subset, FS_CardinalityType
  <2>4. Cardinality(ReplacedBy(h)) + Cardinality(Replacing(h)) <= Cardinality(SessionCalls)
    BY DEF RotateInv
  <2> QED BY <1>5, <2>2, <2>3, <2>4
<1>7. ASSUME NEW s \in tokens', ~s.revoked
      PROVE  ReplacedBy(s.hash)' = {} /\ \A d \in Replacing(s.hash)' : calls'[d].step # "persist"
  <2>1. PICK t \in tokens : /\ s.hash = t.hash /\ (t.revoked => s.revoked)
                            /\ t \in {x \in tokens : x.hash = calls[c].hash} => s.revoked
    BY <1>3
  <2>2. s.hash # calls[c].hash /\ ~t.revoked
    BY <1>7, <2>1
  <2>3. ReplacedBy(t.hash) = {} /\ \A d \in Replacing(t.hash) : calls[d].step # "persist"
    BY <2>2 DEF RotateInv
  <2>4. ReplacedBy(s.hash)' = {}
    BY <1>1, <2>1, <2>3 DEF ReplacedBy
  <2>5. \A d \in Replacing(s.hash)' : d \in Replacing(s.hash) /\ calls'[d] = calls[d]
    BY <1>1, <1>4, <2>2, IdleFits DEF Replacing, Carried, Onward, Refreshing
  <2> QED BY <2>1, <2>3, <2>4, <2>5
<1>8. \A k \in Hashes : /\ origin'[k].replaces <= Cardinality(tokens')
                        /\ k > Cardinality(tokens') => origin'[k].replaces = 0
  BY <1>1, <1>3 DEF RotateInv
<1> QED BY <1>6, <1>7, <1>8 DEF RotateInv

\* The new token takes the place of the call among those the old one led to.
LEMMA PersistRotates ==
  ASSUME SessionsShape, RotateInv, NEW c \in SessionCalls, PersistToken(c)
  PROVE  RotateInv'
<1> DEFINE n == Cardinality(tokens)
<1>1. /\ Carried(c) /\ CallFits(calls[c]) /\ TokenTable(tokens) /\ calls'[c] = Idle
      /\ calls[c].op \in {"login", "adminlogin", "refresh"} /\ calls[c].step = "persist"
      /\ NewHash \in Hashes /\ NewHash = n + 1 /\ n \in Nat
      /\ Cardinality(tokens') = n + 1
      /\ \A t \in tokens' : t \in tokens \/ t.hash = NewHash
  BY PersistShape, AnswerTurns, Counts DEF PersistToken, At, SessionsShape, CallsFit, NewHash
<1>2. \A t \in tokens : t.hash \in Hashes /\ t.hash <= n /\ t.hash # NewHash
  <2>1. {t.hash : t \in tokens} = 1 .. n
    BY DEF SessionsShape, TokenTable
  <2> QED BY <1>1, <2>1 DEF TokenTable, TokenRecords
<1>3. /\ origin'[NewHash].replaces = calls[c].hash
      /\ \A k \in Hashes \ {NewHash} : origin'[k] = origin[k]
      /\ origin[NewHash].replaces = 0
  BY <1>1 DEF PersistToken, SessionsShape, RotateInv
<1>4. /\ calls[c].op = "refresh" <=> calls[c].hash # 0
      /\ calls[c].hash # 0 => \E t \in tokens : t.hash = calls[c].hash
  BY <1>1 DEF CallFits, SessionsShape, Presents
<1>5. \A h \in Hashes : Replacing(h)' = Replacing(h) \ {c}
  BY <1>1, IdleFits DEF Replacing, Refreshing, Carried
<1>6. ASSUME NEW h \in Hashes
      PROVE  /\ h = calls[c].hash => ReplacedBy(h)' = ReplacedBy(h) \cup {NewHash}
             /\ h # calls[c].hash => ReplacedBy(h)' = ReplacedBy(h)
             /\ NewHash \notin ReplacedBy(h)
  <2>1. h # 0
    BY DEF Hashes
  <2> QED BY <1>1, <1>3, <2>1 DEF ReplacedBy
<1>7. ASSUME NEW h \in Hashes
      PROVE  Cardinality(ReplacedBy(h)') + Cardinality(Replacing(h)') <= Cardinality(SessionCalls)
  <2>1. /\ IsFiniteSet(ReplacedBy(h)) /\ Cardinality(ReplacedBy(h)) \in Nat
        /\ IsFiniteSet(Replacing(h)) /\ Cardinality(Replacing(h)) \in Nat
        /\ Cardinality(SessionCalls) \in Nat
        /\ Cardinality(ReplacedBy(h)) + Cardinality(Replacing(h)) <= Cardinality(SessionCalls)
    BY Replacements DEF RotateInv
  <2>2. CASE h = calls[c].hash
    <3>1. c \in Replacing(h)
      <4>1. h # 0
        BY DEF Hashes
      <4> QED BY <1>1, <1>4, <2>2, <4>1 DEF Replacing, Refreshing
    <3>2. Cardinality(ReplacedBy(h) \cup {NewHash}) = Cardinality(ReplacedBy(h)) + 1
      BY <1>6, <2>1, FS_AddElement
    <3>3. Cardinality(Replacing(h) \ {c}) = Cardinality(Replacing(h)) - 1
      BY <2>1, <3>1, FS_RemoveElement
    <3>4. /\ Cardinality(ReplacedBy(h)') = Cardinality(ReplacedBy(h)) + 1
          /\ Cardinality(Replacing(h)') = Cardinality(Replacing(h)) - 1
      BY <1>5, <1>6, <2>2, <3>2, <3>3
    <3> QED BY <2>1, <3>4
  <2>3. CASE h # calls[c].hash
    <3>1. c \notin Replacing(h)
      BY <2>3 DEF Replacing
    <3>2. Replacing(h)' = Replacing(h) /\ ReplacedBy(h)' = ReplacedBy(h)
      BY <1>5, <1>6, <2>3, <3>1
    <3> QED BY <2>1, <3>2
  <2> QED BY <2>2, <2>3
<1>8. ASSUME NEW s \in tokens', ~s.revoked
      PROVE  ReplacedBy(s.hash)' = {} /\ \A d \in Replacing(s.hash)' : calls'[d].step # "persist"
  <2>1. CASE s \in tokens
    <3>1. ReplacedBy(s.hash) = {} /\ \A d \in Replacing(s.hash) : calls[d].step # "persist"
      BY <1>8, <2>1 DEF RotateInv
    <3>2. s.hash \in Hashes /\ s.hash # 0
      BY <1>2, <2>1 DEF Hashes
    <3>3. c \notin Replacing(s.hash)
      BY <1>1, <3>1
    <3>4. s.hash # calls[c].hash
      BY <1>1, <1>4, <3>2, <3>3 DEF Replacing, Refreshing
    <3>5. ReplacedBy(s.hash)' = {}
      <4>1. PICK h \in Hashes : h = s.hash
        BY <3>2
      <4>2. ReplacedBy(h)' = {}
        BY <1>6, <3>1, <3>4, <4>1
      <4> QED BY <4>1, <4>2
    <3>6. ASSUME NEW d \in Replacing(s.hash)' PROVE calls'[d].step # "persist"
      <4>1. d \in Replacing(s.hash) /\ d # c
        BY <1>1, <3>6, IdleFits DEF Replacing, Refreshing, Carried
      <4> QED BY <1>1, <3>1, <4>1 DEF Carried, Replacing
    <3> QED BY <3>5, <3>6
  <2>2. CASE s.hash = NewHash
    <3>1. \A k \in Hashes : origin'[k].replaces # NewHash
      <4>1. \A k \in Hashes : origin[k].replaces \in Nat /\ origin[k].replaces <= n
        BY DEF RotateInv, SessionsShape, OriginRecords
      <4>2. calls[c].hash # NewHash
        BY <1>1, <1>2, <1>4
      <4> QED BY <1>1, <1>3, <4>1, <4>2
    <3>2. ReplacedBy(s.hash)' = {}
      BY <2>2, <3>1 DEF ReplacedBy
    <3>3. Replacing(s.hash)' = {}
      <4>1. ASSUME NEW d \in Replacing(s.hash)' PROVE FALSE
        <5>1. d \in SessionCalls /\ d # c /\ calls[d].op = "refresh" /\ calls[d].hash = NewHash
          BY <1>1, <2>2, <4>1, IdleFits DEF Replacing, Refreshing, Carried
        <5>2. \E t \in tokens : t.hash = NewHash
          BY <5>1 DEF SessionsShape, Presents
        <5> QED BY <1>2, <5>2
      <4> QED BY <4>1
    <3> QED BY <3>2, <3>3
  <2> QED BY <1>1, <2>1, <2>2
<1>9. ASSUME NEW k \in Hashes
      PROVE  /\ origin'[k].replaces <= Cardinality(tokens')
             /\ k > Cardinality(tokens') => origin'[k].replaces = 0
  <2>1. origin[k].replaces \in Nat /\ origin[k].replaces <= n /\ (k > n => origin[k].replaces = 0)
        /\ k \in Nat
    <3>1. origin[k] \in OriginRecords
      BY DEF SessionsShape
    <3>2. origin[k].replaces \in Nat
      BY <3>1 DEF OriginRecords
    <3>3. origin[k].replaces <= n /\ (k > n => origin[k].replaces = 0)
      BY DEF RotateInv
    <3>4. k \in Nat
      BY DEF Hashes
    <3> QED BY <3>2, <3>3, <3>4
  <2>2. CASE k = NewHash
    <3>1. calls[c].hash <= n
      BY <1>1, <1>2, <1>4
    <3>2. calls[c].hash \in Nat
      BY <1>1, SessionsAssumption DEF CallFits, SessionRecords
    <3> QED BY <1>1, <1>3, <2>2, <3>1, <3>2
  <2>3. CASE k # NewHash
    BY <1>1, <1>3, <2>1, <2>3
  <2> QED BY <2>2, <2>3
<1> QED BY <1>7, <1>8, <1>9 DEF RotateInv

LEMMA RevokeAllRotates ==
  ASSUME SessionsShape, RotateInv, NEW c \in SessionCalls, RevokeAll(c)
  PROVE  RotateInv'
<1>1. CallsFit /\ TokenTable(tokens) /\ calls[c].step = "revokeall" /\ origin' = origin
  BY DEF SessionsShape, RevokeAll, At
<1>2. Revised(tokens, tokens', {t \in tokens : t.user = calls[c].id})
  BY <1>1, AllTokensRevoked DEF RevokeAll
<1>3. /\ Cardinality(tokens') = Cardinality(tokens)
      /\ \A s \in tokens' : \E t \in tokens : s.hash = t.hash /\ (t.revoked => s.revoked)
  <2>1. \A s \in tokens' : \E t \in tokens :
          /\ s.hash = t.hash /\ s.user = t.user /\ (t.revoked => s.revoked)
          /\ t \in {x \in tokens : x.user = calls[c].id} => s.revoked
    BY <1>1, <1>2, RevisedKeeps
  <2>2. ASSUME NEW s \in tokens'
        PROVE  \E t \in tokens : s.hash = t.hash /\ (t.revoked => s.revoked)
    BY <2>1
  <2> QED BY <1>2, <2>2 DEF Revised
<1>4. ASSUME NEW d \in SessionCalls, Refreshing(calls'[d])
      PROVE  /\ Refreshing(calls[d]) /\ calls'[d].hash = calls[d].hash
             /\ calls'[d].step = "persist" => calls[d].step = "persist"
  <2>1. d # c
    BY <1>1, <1>4, Overtaken, IdleFits DEF Refreshing
  <2>2. calls'[d].op = calls[d].op /\ calls'[d].step = calls[d].step /\ calls'[d].hash = calls[d].hash
    BY <1>1, <2>1, Overtaken
  <2> QED BY <1>4, <2>2 DEF Refreshing
<1> QED BY <1>1, <1>3, <1>4, RotateKept

LEMMA StepRotate == SessionsShape /\ RotateInv /\ [SessionsNext]_sessionVars => RotateInv'
<1> SUFFICES ASSUME SessionsShape, RotateInv, [SessionsNext]_sessionVars PROVE RotateInv'
  OBVIOUS
<1>1. ASSUME NEW c \in SessionCalls, CallStep(c) PROVE RotateInv'
  BY <1>1, MostRotate, LookupRotates, RevokeRotates, PersistRotates, RevokeAllRotates
     DEF CallStep, OnlyReads, PinSteps
<1>2. ASSUME NEW c \in SessionCalls, NEW r \in Requests, Start(c, r) PROVE RotateInv'
  <2>1. /\ calls'[c].step \in {"check", "lookup", "versions", "pin"}
        /\ \A d \in SessionCalls \ {c} : calls'[d] = calls[d]
        /\ tokens' = tokens /\ origin' = origin
    BY <1>2, StartShape, RequestCalled DEF SessionsShape, Start, rowVars, ghostVars
  <2>2. ~Refreshing(calls'[c])
    BY <2>1 DEF Refreshing
  <2>3. \A s \in tokens' : \E t \in tokens : s.hash = t.hash /\ (t.revoked => s.revoked)
    BY <2>1
  <2>4. \A d \in SessionCalls : Refreshing(calls'[d]) =>
          /\ Refreshing(calls[d]) /\ calls'[d].hash = calls[d].hash
          /\ calls'[d].step = "persist" => calls[d].step = "persist"
    BY <2>1, <2>2
  <2> QED BY <2>1, <2>3, <2>4, RotateKept
<1>3. ASSUME NEW u \in Users, LockRunsOut(u) \/ AdminStep(u) PROVE RotateInv'
  <2>1. tokens' = tokens /\ origin' = origin /\ calls' = calls
    BY <1>3, AdminFacts DEF LockRunsOut
  <2> QED BY <2>1 DEF RotateInv, ReplacedBy, Replacing
<1>4. CASE UNCHANGED sessionVars
  BY <1>4 DEF sessionVars, rowVars, ghostVars, RotateInv, ReplacedBy, Replacing
<1> QED BY <1>1, <1>2, <1>3, <1>4 DEF SessionsNext

\* What refresh tokens are worth: a live token comes from a login with the
\* password the user has now, unless the change of the password is under way,
\* stopped half-way or came from an administrator, or overtook the call that
\* stored the token; and a token is replaced at most once by each of the calls
\* that overlap (auth_usecase.go: Login, RefreshToken, ChangePassword,
\* ResetPassword, LogoutAll).
THEOREM SessionsEndWithPassword == SessionsSpec => []SessionsHold
<1>1. SessionsInit => FollowInv
  <2> SUFFICES ASSUME SessionsInit PROVE FollowInv
    OBVIOUS
  <2>1. PICK p \in Passwords :
          users = {[User(u, u, "none", u, p) EXCEPT !.status = "active"] : u \in Users}
    BY DEF SessionsInit
  <2>2. \A u \in users : u.password = p
    BY <2>1 DEF User
  <2>3. \A h \in Hashes : origin[h].password = p
    BY <2>2 DEF SessionsInit
  <2>4. ASSUME NEW t \in tokens, t.user \in Users
        PROVE  Follows(t.user, origin[t.hash].password, origin[t.hash].late)
    <3>1. t.hash \in Hashes
      BY SessionsAssumption DEF SessionsInit, RefreshToken, Hashes
    <3>2. \E x \in users : x.id = t.user /\ x.password = p
      <4>1. UserTable(users)
        BY InitShape DEF SessionsShape
      <4>2. t.user \in {x.id : x \in users}
        BY <2>4, <4>1 DEF UserTable
      <4> QED BY <2>2, <4>2
    <3> QED BY <2>3, <3>1, <3>2 DEF Follows
  <2>5. \A c \in SessionCalls : ~WillStore(calls[c])
    BY IdleFits DEF SessionsInit, WillStore
  <2> QED BY <2>4, <2>5 DEF FollowInv
<1>2. SessionsInit => RotateInv
  <2> SUFFICES ASSUME SessionsInit PROVE RotateInv
    OBVIOUS
  <2>1. \A k \in Hashes : origin[k].replaces = 0
    BY DEF SessionsInit
  <2>2. SessionsShape
    BY InitShape
  <2>3. \A h \in Hashes : ReplacedBy(h) = {} /\ Replacing(h) = {}
    BY <2>1, IdleFits DEF SessionsInit, ReplacedBy, Replacing, Refreshing, Hashes
  <2>4. Cardinality(tokens) \in Nat /\ Cardinality(SessionCalls) \in Nat
    BY <2>2, Counts
  <2>5. \A h \in Hashes : Cardinality(ReplacedBy(h)) + Cardinality(Replacing(h)) <= Cardinality(SessionCalls)
    BY <2>3, <2>4, FS_EmptySet
  <2>6. \A t \in tokens : t.hash \in Hashes
    BY <2>2 DEF SessionsShape, TokenTable, TokenRecords
  <2> QED BY <2>1, <2>3, <2>4, <2>5, <2>6 DEF RotateInv
<1>3. SessionsShape /\ FollowInv => SessionsFollowPassword
  BY DEF FollowInv, Follows, SessionsFollowPassword
<1>4. SessionsShape /\ RotateInv => TokensRotate
  <2> SUFFICES ASSUME SessionsShape, RotateInv, NEW t \in tokens
               PROVE  Cardinality({n \in tokens : origin[n.hash].replaces = t.hash}) <= Cardinality(SessionCalls)
    BY DEF TokensRotate
  <2> DEFINE from == {n \in tokens : origin[n.hash].replaces = t.hash}
             f == [n \in from |-> n.hash]
  <2>1. TokenTable(tokens) /\ t.hash \in Hashes
    BY DEF SessionsShape, TokenTable, TokenRecords
  <2>2. f \in Injection(from, ReplacedBy(t.hash))
    <3>1. f \in [from -> ReplacedBy(t.hash)]
      BY <2>1 DEF ReplacedBy, TokenTable, TokenRecords
    <3>2. \A m, n \in from : f[m] = f[n] => m = n
      BY <2>1 DEF TokenTable
    <3> HIDE DEF f, from
    <3> QED BY <3>1, <3>2 DEF Injection, IsInjective
  <2> HIDE DEF f, from
  <2>3. /\ IsFiniteSet(ReplacedBy(t.hash)) /\ Cardinality(ReplacedBy(t.hash)) \in Nat
        /\ Cardinality(Replacing(t.hash)) \in Nat /\ Cardinality(SessionCalls) \in Nat
        /\ Cardinality(ReplacedBy(t.hash)) + Cardinality(Replacing(t.hash)) <= Cardinality(SessionCalls)
    BY <2>1, Replacements DEF RotateInv
  <2>4. IsFiniteSet(from) /\ Cardinality(from) <= Cardinality(ReplacedBy(t.hash))
    BY <2>2, <2>3, FS_Injection
  <2>5. Cardinality(from) \in Nat
    BY <2>4, FS_CardinalityType
  <2>6. Cardinality(from) <= Cardinality(SessionCalls)
    BY <2>3, <2>4, <2>5
  <2> QED BY <2>6 DEF from
<1>5. SessionsShape => SessionsTypeOK
  BY DEF SessionsShape, SessionsTypeOK, UserTable, UserRecords, TokenTable, TokenRecords, PinTable,
         CallsFit, SessionRecords, Stores
<1>6. SessionsShape /\ FollowInv /\ RotateInv => SessionsHold
  BY <1>3, <1>4, <1>5 DEF SessionsHold
<1> QED
  BY <1>1, <1>2, <1>6, InitShape, StepShape, StepFollow, StepRotate, PTL DEF SessionsSpec

-----------------------------------------------------------------------------
(* One-time codes.                                                         *)

CodeSteps == {"idle", "lookup", "cooldown", "store", "rewind", "mail",
          "count", "compare", "exhausted", "spend", "clear", "mark"}

KeyRecords == [code : Nat, attempts : Nat, older : BOOLEAN, cooldown : BOOLEAN]
CodeRecords ==
  [op : {"idle", "send", "guess"}, kind : Kinds, step : CodeSteps, code : Nat, count : Nat]

CodesShape ==
  /\ otp \in [Kinds -> KeyRecords]
  /\ codeCalls \in [CodeCalls -> CodeRecords]
  /\ issued \in [Kinds -> Nat]
  /\ mailed \in [Kinds -> SUBSET Nat]
  /\ codeFaults \in Nat

CooldownInv == CodesShape /\ CooldownIsExplained

-----------------------------------------------------------------------------
LEMMA CommandFacts ==
  ASSUME NEW keys \in KeyRecords, NEW n \in Nat
  PROVE  /\ SetOTP(keys, n) \in KeyRecords /\ SetOTP(keys, n).cooldown = keys.cooldown
         /\ DeleteOTP(keys) \in KeyRecords /\ DeleteOTP(keys).cooldown = keys.cooldown
         /\ IncrementOTPAttempts(keys) \in KeyRecords
         /\ IncrementOTPAttempts(keys).cooldown = keys.cooldown
         /\ IncrementOTPAttempts(keys).attempts \in Nat
         /\ ResetOTPAttempts(keys) \in KeyRecords
         /\ ResetOTPAttempts(keys).cooldown = keys.cooldown
         /\ SetCooldown(keys) \in KeyRecords
<1> USE DEF KeyRecords
<1>1. SetOTP(keys, n) \in KeyRecords /\ SetOTP(keys, n).cooldown = keys.cooldown
  <2>1. (keys.attempts > 0) \in BOOLEAN
    OBVIOUS
  <2> DEFINE older == keys.attempts > 0
  <2>2. SetOTP(keys, n) = [keys EXCEPT !.code = n, !.older = older]
    BY DEF SetOTP
  <2>3. older \in BOOLEAN
    BY <2>1
  <2> HIDE DEF older
  <2> QED BY <2>2, <2>3
<1>2. DeleteOTP(keys) \in KeyRecords /\ DeleteOTP(keys).cooldown = keys.cooldown
  BY DEF DeleteOTP
<1>3. /\ IncrementOTPAttempts(keys) \in KeyRecords
      /\ IncrementOTPAttempts(keys).cooldown = keys.cooldown
      /\ IncrementOTPAttempts(keys).attempts \in Nat
  BY DEF IncrementOTPAttempts
<1>4. /\ ResetOTPAttempts(keys) \in KeyRecords
      /\ ResetOTPAttempts(keys).cooldown = keys.cooldown
  BY DEF ResetOTPAttempts
<1>5. SetCooldown(keys) \in KeyRecords
  BY DEF SetCooldown
<1> QED BY <1>1, <1>2, <1>3, <1>4, <1>5

LEMMA CallFacts ==
  ASSUME CodesShape, NEW c \in CodeCalls
  PROVE  codeCalls[c].kind \in Kinds /\ Keys(c) \in KeyRecords /\ codeCalls[c].code \in Nat
BY DEF CodesShape, Keys, CodeRecords

\* A call takes a step of its own; the others stay where they are.
LEMMA CallMoves ==
  ASSUME CodesShape, NEW c \in CodeCalls, NEW step \in CodeSteps, NEW n \in Nat,
         \/ codeCalls' = [codeCalls EXCEPT ![c].step = step]
         \/ codeCalls' = [codeCalls EXCEPT ![c].step = step, ![c].code = n]
         \/ codeCalls' = [codeCalls EXCEPT ![c].count = n, ![c].step = step]
         \/ codeCalls' = [codeCalls EXCEPT ![c] = NoCodeCall]
  PROVE  codeCalls' \in [CodeCalls -> CodeRecords]
<1>1. codeCalls \in [CodeCalls -> CodeRecords]
  BY DEF CodesShape
<1>2. /\ [codeCalls[c] EXCEPT !.step = step] \in CodeRecords
      /\ [codeCalls[c] EXCEPT !.step = step, !.code = n] \in CodeRecords
      /\ [codeCalls[c] EXCEPT !.count = n, !.step = step] \in CodeRecords
  BY <1>1 DEF CodeRecords
<1>3. NoCodeCall \in CodeRecords
  BY DEF NoCodeCall, CodeRecords, Kinds, CodeSteps
<1>4. \A x \in CodeRecords : [codeCalls EXCEPT ![c] = x] \in [CodeCalls -> CodeRecords]
  BY <1>1
<1> QED BY <1>2, <1>3, <1>4

LEMMA StepNames ==
  \A name \in {"lookup", "cooldown", "store", "rewind", "mail", "count", "clear"} : name \in CodeSteps
BY DEF CodeSteps

LEMMA CodesStart == CodesInit => CooldownInv
BY DEF CodesInit, CooldownInv, CodesShape, CooldownIsExplained, PerKind, NoKeys, NoCodeCall, Kinds, CodeSteps,
       KeyRecords, CodeRecords

\* The calls that guess, and the keys that expire, leave those that send alone.
LEMMA GuessSteps ==
  ASSUME CooldownInv, NEW c \in CodeCalls,
         CountGuess(c) \/ Exhausted(c) \/ Compare(c) \/ SpendCode(c) \/ ClearAttempts(c)
           \/ MarkVerified(c)
  PROVE  CooldownInv'
<1>1. /\ codeCalls[c].op = "guess"
      /\ UNCHANGED <<issued, mailed, codeFaults>>
  BY DEF CountGuess, Exhausted, Compare, SpendCode, ClearAttempts, MarkVerified, CodeAt,
         UnchangedButCalls, UnchangedMemory
<1>2. PICK step \in CodeSteps, n \in Nat :
        \/ codeCalls' = [codeCalls EXCEPT ![c].step = step]
        \/ codeCalls' = [codeCalls EXCEPT ![c].count = n, ![c].step = step]
        \/ codeCalls' = [codeCalls EXCEPT ![c] = NoCodeCall]
  <2>1. CASE CountGuess(c)
    <3>1. IncrementOTPAttempts(Keys(c)).attempts \in Nat
      BY CallFacts, CommandFacts DEF CooldownInv
    <3> QED BY <2>1, <3>1 DEF CountGuess, CodeSteps
  <2>2. CASE Exhausted(c) \/ Compare(c) \/ SpendCode(c) \/ ClearAttempts(c) \/ MarkVerified(c)
    BY <2>2 DEF Exhausted, Compare, SpendCode, ClearAttempts, MarkVerified, Next2, Done, CodeSteps
  <2> QED BY <2>1, <2>2
<1>3. codeCalls' \in [CodeCalls -> CodeRecords]
  BY <1>2, CallMoves DEF CooldownInv
<1>4. \A d \in CodeCalls : codeCalls[d].op = "send" => codeCalls'[d] = codeCalls[d]
  BY <1>1, <1>2 DEF CooldownInv, CodesShape
<1>5. PICK keys \in KeyRecords :
        /\ keys.cooldown = Keys(c).cooldown
        /\ otp' = [otp EXCEPT ![codeCalls[c].kind] = keys] \/ otp' = otp
  BY CallFacts, CommandFacts
     DEF CountGuess, Exhausted, Compare, SpendCode, ClearAttempts, MarkVerified, Write,
         UnchangedMemory, CooldownInv
<1>6. /\ otp' \in [Kinds -> KeyRecords]
      /\ \A k \in Kinds : otp'[k].cooldown = otp[k].cooldown
  BY <1>5, CallFacts DEF CooldownInv, CodesShape, Keys
<1>7. \A d \in CodeCalls, k \in Kinds : Serves(d, k) => Serves(d, k)'
  BY <1>1, <1>4 DEF Serves
<1>8. CooldownIsExplained'
  BY <1>1, <1>6, <1>7 DEF CooldownInv, CooldownIsExplained
<1> QED BY <1>1, <1>3, <1>6, <1>8 DEF CooldownInv, CodesShape

LEMMA ExpirySteps ==
  ASSUME CooldownInv,
         \/ \E k \in Kinds : ExpireCode(k) \/ ExpireAttempts(k) \/ ExpireCooldown(k)
         \/ ConsumeVerified \/ ExpireVerified
  PROVE  CooldownInv'
<1>1. UNCHANGED <<codeCalls, issued, mailed, codeFaults>>
  BY DEF ExpireCode, ExpireAttempts, ExpireCooldown, ConsumeVerified, ExpireVerified,
         UnchangedMemory
<1>2. /\ otp' \in [Kinds -> KeyRecords]
      /\ \A k \in Kinds : otp'[k].cooldown => otp[k].cooldown
  <2>1. ASSUME NEW k \in Kinds, ExpireCode(k) \/ ExpireAttempts(k)
        PROVE  \E keys \in KeyRecords :
                 keys.cooldown = otp[k].cooldown /\ otp' = [otp EXCEPT ![k] = keys]
    BY <2>1, CommandFacts DEF ExpireCode, ExpireAttempts, CooldownInv, CodesShape
  <2>2. ASSUME NEW k \in Kinds, ExpireCooldown(k)
        PROVE  \E keys \in KeyRecords : ~ keys.cooldown /\ otp' = [otp EXCEPT ![k] = keys]
    BY <2>2 DEF ExpireCooldown, CooldownInv, CodesShape, KeyRecords
  <2>3. ASSUME ConsumeVerified \/ ExpireVerified PROVE otp' = otp
    BY <2>3 DEF ConsumeVerified, ExpireVerified
  <2> QED BY <2>1, <2>2, <2>3 DEF CooldownInv, CodesShape
<1>3. \A d \in CodeCalls, k \in Kinds : Serves(d, k) => Serves(d, k)'
  BY <1>1 DEF Serves
<1>4. CooldownIsExplained'
  BY <1>1, <1>2, <1>3 DEF CooldownInv, CooldownIsExplained
<1> QED BY <1>1, <1>2, <1>4 DEF CooldownInv, CodesShape

LEMMA AskSteps ==
  ASSUME CooldownInv, NEW c \in CodeCalls,
         SendCode(c) \/ GuessRegistrationCode(c) \/ GuessResetCode(c)
  PROVE  CooldownInv'
<1>1. PICK op \in {"send", "guess"}, kind \in Kinds, code \in Nat : Ask(c, op, kind, code)
  BY DEF SendCode, GuessRegistrationCode, GuessResetCode, CooldownInv, CodesShape, Kinds
<1>2. /\ codeCalls[c].op = "idle" /\ UNCHANGED <<otp, issued, mailed, codeFaults>>
      /\ codeCalls' = [codeCalls EXCEPT ![c] =
           [op |-> op, kind |-> kind, step |-> IF op = "send" THEN "lookup" ELSE "count",
            code |-> code, count |-> 0]]
  BY <1>1 DEF Ask
<1>3. CodesShape'
  <2> DEFINE x == [op |-> op, kind |-> kind, step |-> IF op = "send" THEN "lookup" ELSE "count",
                   code |-> code, count |-> 0]
  <2>1. x \in CodeRecords
    BY DEF CodeRecords, CodeSteps
  <2> HIDE DEF x
  <2>2. codeCalls' = [codeCalls EXCEPT ![c] = x]
    BY <1>2 DEF x
  <2> QED BY <1>2, <2>1, <2>2 DEF CooldownInv, CodesShape
<1>4. \A d \in CodeCalls, k \in Kinds : Serves(d, k) => Serves(d, k)'
  BY <1>2 DEF Serves, CooldownInv, CodesShape
<1>5. CooldownIsExplained'
  BY <1>2, <1>4 DEF CooldownInv, CooldownIsExplained
<1> QED BY <1>3, <1>5 DEF CooldownInv

LEMMA SendSteps ==
  ASSUME CooldownInv, NEW c \in CodeCalls, SendRegistrationOTP(c) \/ ForgotPassword(c) \/ RewindForCode(c)
  PROVE  CooldownInv'
<1>1. /\ UNCHANGED <<issued, mailed, codeFaults>>
      /\ codeCalls[c].op = "send" /\ codeCalls[c].step \in {"lookup", "rewind"}
  BY DEF SendRegistrationOTP, ForgotPassword, RewindForCode, CodeAt,
         UnchangedButCalls, UnchangedMemory
<1>2. \/ /\ codeCalls[c].step = "rewind"
         /\ codeCalls' = [codeCalls EXCEPT ![c].step = "mail"]
         /\ otp' = [otp EXCEPT ![codeCalls[c].kind] = ResetOTPAttempts(Keys(c))]
      \/ /\ codeCalls[c].step = "lookup"
         /\ \/ codeCalls' = [codeCalls EXCEPT ![c].step = "cooldown"]
            \/ codeCalls' = [codeCalls EXCEPT ![c] = NoCodeCall]
         /\ otp' = otp
  BY DEF SendRegistrationOTP, ForgotPassword, RewindForCode, CodeAt, Next2, Done, Write
<1>3. codeCalls' \in [CodeCalls -> CodeRecords]
  <2>1. PICK step \in CodeSteps :
          \/ codeCalls' = [codeCalls EXCEPT ![c].step = step]
          \/ codeCalls' = [codeCalls EXCEPT ![c] = NoCodeCall]
    BY <1>2, StepNames
  <2> QED BY <2>1, CallMoves DEF CooldownInv
<1>4. /\ otp' \in [Kinds -> KeyRecords]
      /\ \A k \in Kinds : otp'[k].cooldown = otp[k].cooldown
  BY <1>2, CallFacts, CommandFacts DEF CooldownInv, CodesShape, Keys
<1>5. \A d \in CodeCalls, k \in Kinds : Serves(d, k) => Serves(d, k)'
  BY <1>1, <1>2 DEF Serves, CooldownInv, CodesShape, CodeRecords
<1>6. CooldownIsExplained'
  BY <1>1, <1>4, <1>5 DEF CooldownInv, CooldownIsExplained
<1> QED BY <1>1, <1>3, <1>4, <1>6 DEF CooldownInv, CodesShape

LEMMA CooldownStep ==
  ASSUME CooldownInv, NEW c \in CodeCalls, TrySetResendCooldown(c)
  PROVE  CooldownInv'
<1>1. /\ UNCHANGED <<issued, mailed, codeFaults>>
      /\ codeCalls[c].op = "send" /\ codeCalls[c].step = "cooldown"
  BY DEF TrySetResendCooldown, CodeAt, UnchangedButCalls, UnchangedMemory
<1>2. \/ /\ codeCalls' = [codeCalls EXCEPT ![c] = NoCodeCall]
         /\ otp' = otp
      \/ /\ codeCalls' = [codeCalls EXCEPT ![c].step = "store"]
         /\ otp' = [otp EXCEPT ![codeCalls[c].kind] = SetCooldown(Keys(c))]
  BY DEF TrySetResendCooldown, Next2, Done, Write
<1>3. codeCalls' \in [CodeCalls -> CodeRecords]
  <2>1. PICK step \in CodeSteps :
          \/ codeCalls' = [codeCalls EXCEPT ![c].step = step]
          \/ codeCalls' = [codeCalls EXCEPT ![c] = NoCodeCall]
    BY <1>2, StepNames
  <2> QED BY <2>1, CallMoves DEF CooldownInv
<1>4. /\ otp' \in [Kinds -> KeyRecords]
      /\ \A k \in Kinds : k # codeCalls[c].kind => otp'[k] = otp[k]
  BY <1>2, CallFacts, CommandFacts DEF CooldownInv, CodesShape
<1>5. \A d \in CodeCalls, k \in Kinds : Serves(d, k) => Serves(d, k)'
  BY <1>1, <1>2 DEF Serves, CooldownInv, CodesShape, CodeRecords
<1>6. \A k \in Kinds : k = codeCalls[c].kind => otp' = otp \/ Serves(c, k)'
  BY <1>1, <1>2 DEF Serves, CooldownInv, CodesShape, CodeRecords
<1>7. CooldownIsExplained'
  <2> SUFFICES ASSUME NEW k \in Kinds, otp'[k].cooldown, codeFaults' = 0
               PROVE  issued'[k] \in mailed'[k] \/ \E d \in CodeCalls : Serves(d, k)'
    BY DEF CooldownIsExplained
  <2>1. CASE otp'[k] = otp[k]
    BY <1>1, <1>5, <2>1 DEF CooldownInv, CooldownIsExplained
  <2>2. CASE otp'[k] # otp[k]
    BY <1>4, <1>6, <2>2
  <2> QED BY <2>1, <2>2
<1> QED BY <1>1, <1>3, <1>4, <1>7 DEF CooldownInv, CodesShape

LEMMA StoreStep ==
  ASSUME CooldownInv, NEW c \in CodeCalls, StoreCode(c)
  PROVE  CooldownInv'
<1> DEFINE k0 == codeCalls[c].kind
<1>1. /\ codeCalls[c].op = "send" /\ codeCalls[c].step = "store"
      /\ otp' = [otp EXCEPT ![k0] = SetOTP(otp[k0], issued[k0] + 1)]
      /\ codeCalls' = [codeCalls EXCEPT ![c].step = "rewind", ![c].code = issued[k0] + 1]
      /\ issued' = [issued EXCEPT ![k0] = issued[k0] + 1]
      /\ UNCHANGED <<mailed, codeFaults>>
  BY DEF StoreCode, CodeAt, Write, Keys, UnchangedButCalls
<1>2. k0 \in Kinds /\ issued[k0] + 1 \in Nat /\ otp[k0] \in KeyRecords
  BY CallFacts DEF CooldownInv, CodesShape
<1>3. CodesShape'
  <2>1. otp' \in [Kinds -> KeyRecords]
    BY <1>1, <1>2, CommandFacts DEF CooldownInv, CodesShape
  <2>2. codeCalls' \in [CodeCalls -> CodeRecords]
    BY <1>1, <1>2, StepNames, CallMoves DEF CooldownInv
  <2>3. issued' \in [Kinds -> Nat]
    BY <1>1, <1>2 DEF CooldownInv, CodesShape
  <2> QED BY <1>1, <2>1, <2>2, <2>3 DEF CooldownInv, CodesShape
<1>4. \A k \in Kinds : k = k0 => Serves(c, k)'
  BY <1>1, <1>2 DEF Serves, CooldownInv, CodesShape, CodeRecords
<1>5. \A k \in Kinds : k # k0 => issued'[k] = issued[k] /\ otp'[k] = otp[k]
  BY <1>1 DEF CooldownInv, CodesShape
<1>6. \A d \in CodeCalls, k \in Kinds : k # k0 /\ Serves(d, k) => Serves(d, k)'
  <2>1. \A d \in CodeCalls : d # c => codeCalls'[d] = codeCalls[d]
    BY <1>1 DEF CooldownInv, CodesShape
  <2> QED BY <1>5, <2>1 DEF Serves
<1> HIDE DEF k0
<1>7. CooldownIsExplained'
  <2> SUFFICES ASSUME NEW k \in Kinds, otp'[k].cooldown, codeFaults' = 0
               PROVE  issued'[k] \in mailed'[k] \/ \E d \in CodeCalls : Serves(d, k)'
    BY DEF CooldownIsExplained
  <2>1. CASE k = k0
    BY <1>4, <2>1
  <2>2. CASE k # k0
    BY <1>1, <1>5, <1>6, <2>2 DEF CooldownInv, CooldownIsExplained
  <2> QED BY <2>1, <2>2
<1> QED BY <1>3, <1>7 DEF CooldownInv

LEMMA MailStep ==
  ASSUME CooldownInv, NEW c \in CodeCalls, MailCode(c)
  PROVE  CooldownInv'
<1>1. /\ codeCalls[c].op = "send" /\ codeCalls[c].step = "mail"
      /\ mailed' = [mailed EXCEPT ![codeCalls[c].kind] = @ \cup {codeCalls[c].code}]
      /\ codeCalls' = [codeCalls EXCEPT ![c] = NoCodeCall]
      /\ UNCHANGED <<otp, issued, codeFaults>>
  BY DEF MailCode, CodeAt, Done, UnchangedButCalls
<1>2. CodesShape'
  <2>1. codeCalls' \in [CodeCalls -> CodeRecords]
    BY <1>1, StepNames, CallMoves DEF CooldownInv
  <2>2. mailed' \in [Kinds -> SUBSET Nat]
    BY <1>1, CallFacts DEF CooldownInv, CodesShape
  <2> QED BY <1>1, <2>1, <2>2 DEF CooldownInv, CodesShape
<1>3. \A k \in Kinds : mailed[k] \subseteq mailed'[k]
  BY <1>1 DEF CooldownInv, CodesShape
<1>4. ASSUME NEW d \in CodeCalls, NEW k \in Kinds, Serves(d, k)
      PROVE  issued'[k] \in mailed'[k] \/ Serves(d, k)'
  <2>1. CASE d = c
    BY <1>1, <1>4, <2>1 DEF Serves, CooldownInv, CodesShape
  <2>2. CASE d # c
    BY <1>1, <1>4, <2>2 DEF Serves, CooldownInv, CodesShape
  <2> QED BY <2>1, <2>2
<1>5. CooldownIsExplained'
  BY <1>1, <1>3, <1>4 DEF CooldownInv, CooldownIsExplained
<1> QED BY <1>2, <1>5 DEF CooldownInv

LEMMA FailStep ==
  ASSUME CooldownInv, NEW c \in CodeCalls, FailCodeCall(c)
  PROVE  CooldownInv'
<1>1. codeFaults' = codeFaults + 1 /\ codeFaults' # 0
  BY DEF FailCodeCall, CooldownInv, CodesShape
<1>2. CodesShape'
  <2>1. \/ codeCalls' = [codeCalls EXCEPT ![c] = NoCodeCall]
        \/ codeCalls' = [codeCalls EXCEPT ![c].step = "clear"]
    BY DEF FailCodeCall, Done, Next2
  <2>2. codeCalls' \in [CodeCalls -> CodeRecords]
    BY <2>1, StepNames, CallMoves DEF CooldownInv
  <2> QED BY <1>1, <2>2 DEF FailCodeCall, UnchangedMemory, CooldownInv, CodesShape
<1> QED BY <1>1, <1>2 DEF CooldownInv, CooldownIsExplained

LEMMA CodesStep == CooldownInv /\ [CodesNext]_codeVars => CooldownInv'
<1> SUFFICES ASSUME CooldownInv, [CodesNext]_codeVars PROVE CooldownInv'
  OBVIOUS
<1>1. CASE UNCHANGED codeVars
  BY <1>1 DEF codeVars, CooldownInv, CodesShape, CooldownIsExplained, Serves
<1>2. CASE CodesNext
  BY <1>2, GuessSteps, ExpirySteps, AskSteps, SendSteps, CooldownStep, StoreStep, MailStep, FailStep
     DEF CodesNext
<1> QED BY <1>1, <1>2

\* TrySetResendCooldown before the code is stored and mailed (otp.go): without a
\* failed command, whoever has to wait was mailed the last code, or will be.
THEOREM CooldownsAreExplained == CodesSpec => []CooldownIsExplained
<1>1. CooldownInv => CooldownIsExplained
  BY DEF CooldownInv
<1> QED BY <1>1, CodesStart, CodesStep, PTL DEF CodesSpec

-----------------------------------------------------------------------------
(* Guesses.  What a code may still stand is counted in lives of the counter *)
(* of its kind: the part of the current one that is used up, and whole ones *)
(* for every return to zero.                                                *)

Guessing(k, step) == {c \in CodeCalls : CodeAt(c, "guess", step) /\ codeCalls[c].kind = k}

\* The call that stored the last code has not reset the counter yet.
Owns(c, k) ==
  CodeAt(c, "send", "rewind") /\ codeCalls[c].kind = k /\ codeCalls[c].code = issued[k]
Started(k) == IF \E c \in CodeCalls : Owns(c, k) THEN 0 ELSE 1

Used(k) == IF otp[k].attempts < MaxVerifyAttempts THEN otp[k].attempts ELSE MaxVerifyAttempts
Lives(k) == MaxVerifyAttempts * (Started(k) + rewinds[k])

\* Codes are numbered in the order of their issue, and one call has each.
Numbered ==
  /\ \A k \in Kinds :
       issued[k] <= MaxIssues /\ otp[k].code <= issued[k] /\ mailed[k] \subseteq 1 .. issued[k]
  /\ \A c \in CodeCalls :
       CodeAt(c, "send", "rewind") \/ CodeAt(c, "send", "mail") =>
         codeCalls[c].code \in 1 .. issued[codeCalls[c].kind]
  /\ \A c, d \in CodeCalls :
       /\ CodeAt(c, "send", "rewind") /\ CodeAt(d, "send", "rewind")
       /\ codeCalls[c].kind = codeCalls[d].kind /\ codeCalls[c].code = codeCalls[d].code
       => c = d

MemoryShape ==
  /\ tries \in [Kinds -> Nat] /\ accepted \in [Kinds -> Nat] /\ rewinds \in [Kinds -> Nat]
  /\ verified \in BOOLEAN /\ registered \in BOOLEAN

\* While there is a code, a guess that was compared, or is about to be, was
\* counted in a life of the counter, or before the code by another call.
GuessFits(k) ==
  /\ otp[k].code # 0 =>
       tries[k] + Cardinality(Guessing(k, "compare")) <=
         Cardinality(CodeCalls) - 1 + Lives(k) + Used(k)
  /\ tries[k] <= MaxVerifyAttempts * (2 + rewinds[k]) + Cardinality(CodeCalls) - 1

\* While there is a code, whoever accepted it is about to delete it, or failed.
AcceptFits(k) ==
  /\ otp[k].code # 0 => accepted[k] <= Cardinality(Guessing(k, "spend")) + codeFaults
  /\ accepted[k] <= Cardinality(CodeCalls) + codeFaults

GuessInv ==
  /\ CooldownInv /\ MemoryShape /\ Numbered
  /\ \A k \in Kinds : GuessFits(k) /\ AcceptFits(k)

-----------------------------------------------------------------------------
\* Sets of calls that differ in one call at most.
LEMMA CallsCount ==
  ASSUME NEW A \in SUBSET CodeCalls
  PROVE  /\ IsFiniteSet(A) /\ Cardinality(A) \in Nat /\ Cardinality(CodeCalls) \in Nat
         /\ Cardinality(A) <= Cardinality(CodeCalls)
         /\ A # CodeCalls => Cardinality(A) <= Cardinality(CodeCalls) - 1
<1>1. IsFiniteSet(CodeCalls) /\ Cardinality(CodeCalls) \in Nat
  BY CodesAssumption, FS_CardinalityType
<1>2. IsFiniteSet(A) /\ Cardinality(A) \in Nat /\ Cardinality(A) <= Cardinality(CodeCalls)
  BY <1>1, FS_Subset, FS_CardinalityType
<1>3. A # CodeCalls => Cardinality(A) < Cardinality(CodeCalls)
  BY <1>1, <1>2, FS_Subset
<1> QED BY <1>1, <1>2, <1>3

LEMMA OneCallMoves ==
  ASSUME NEW A \in SUBSET CodeCalls, NEW B \in SUBSET CodeCalls, NEW c \in CodeCalls,
         A \ {c} = B \ {c}
  PROVE  /\ (c \in A <=> c \in B) => Cardinality(A) = Cardinality(B)
         /\ c \in A /\ c \notin B => Cardinality(A) = Cardinality(B) + 1
         /\ c \notin A /\ c \in B => Cardinality(B) = Cardinality(A) + 1
         /\ c \notin A => Cardinality(A) <= Cardinality(CodeCalls) - 1
<1>1. IsFiniteSet(A) /\ IsFiniteSet(B)
  BY CallsCount
<1>2. (c \in A <=> c \in B) => A = B
  OBVIOUS
<1>3. c \in A /\ c \notin B => A = B \cup {c}
  OBVIOUS
<1>4. c \notin A /\ c \in B => B = A \cup {c}
  OBVIOUS
<1>5. c \notin A => Cardinality(A) <= Cardinality(CodeCalls) - 1
  BY CallsCount
<1> QED BY <1>1, <1>2, <1>3, <1>4, <1>5, FS_AddElement

LEMMA LivesGrow ==
  ASSUME NEW x \in Nat, NEW y \in Nat
  PROVE  /\ MaxVerifyAttempts * x \in Nat /\ MaxVerifyAttempts * y \in Nat
         /\ MaxVerifyAttempts * 0 = 0
         /\ MaxVerifyAttempts * (2 + x) = MaxVerifyAttempts * (1 + x) + MaxVerifyAttempts
         /\ x <= y => MaxVerifyAttempts * x <= MaxVerifyAttempts * y
         /\ x + 1 <= y => MaxVerifyAttempts * x + MaxVerifyAttempts <= MaxVerifyAttempts * y
<1>1. MaxVerifyAttempts \in Nat
  BY CodesAssumption
<1>2. ASSUME x <= y PROVE MaxVerifyAttempts * x <= MaxVerifyAttempts * y
  <2>1. PICK d \in Nat : y = x + d
    BY <1>2, y - x \in Nat, y = x + (y - x)
  <2>2. MaxVerifyAttempts * y = MaxVerifyAttempts * x + MaxVerifyAttempts * d
    BY <1>1, <2>1
  <2>3. MaxVerifyAttempts * d \in Nat /\ MaxVerifyAttempts * x \in Nat
    BY <1>1
  <2> QED BY <2>2, <2>3
<1>3. ASSUME x + 1 <= y
      PROVE  MaxVerifyAttempts * x + MaxVerifyAttempts <= MaxVerifyAttempts * y
  <2>1. PICK d \in Nat : y = x + 1 + d
    BY <1>3, y - (x + 1) \in Nat, y = x + 1 + (y - (x + 1))
  <2>2. MaxVerifyAttempts * y
          = MaxVerifyAttempts * x + MaxVerifyAttempts + MaxVerifyAttempts * d
    BY <1>1, <2>1
  <2>3. MaxVerifyAttempts * d \in Nat /\ MaxVerifyAttempts * x \in Nat
    BY <1>1
  <2> QED BY <2>2, <2>3, <1>1
<1>4. MaxVerifyAttempts * (2 + x) = MaxVerifyAttempts * (1 + x) + MaxVerifyAttempts
  BY <1>1
<1>5. MaxVerifyAttempts * x \in Nat /\ MaxVerifyAttempts * y \in Nat /\ MaxVerifyAttempts * 0 = 0
  BY <1>1
<1> QED BY <1>2, <1>3, <1>4, <1>5

CountsFit ==
  \A k \in Kinds :
    /\ Guessing(k, "compare") \in SUBSET CodeCalls /\ Guessing(k, "spend") \in SUBSET CodeCalls
    /\ Cardinality(Guessing(k, "compare")) \in Nat /\ Cardinality(Guessing(k, "spend")) \in Nat
    /\ Cardinality(Guessing(k, "compare")) <= Cardinality(CodeCalls)
    /\ Cardinality(Guessing(k, "spend")) <= Cardinality(CodeCalls)
    /\ Cardinality(CodeCalls) \in Nat
    /\ Started(k) \in {0, 1}
    /\ Used(k) \in Nat /\ Used(k) <= MaxVerifyAttempts /\ MaxVerifyAttempts \in Nat \ {0}
    /\ Lives(k) \in Nat
    /\ Lives(k) + MaxVerifyAttempts <= MaxVerifyAttempts * (2 + rewinds[k])
    /\ MaxVerifyAttempts * (2 + rewinds[k]) \in Nat
    /\ tries[k] \in Nat /\ accepted[k] \in Nat /\ codeFaults \in Nat /\ rewinds[k] \in Nat
    /\ otp[k].attempts \in Nat /\ otp[k].code \in Nat

LEMMA CountFacts == CodesShape /\ MemoryShape => CountsFit
<1> SUFFICES ASSUME CodesShape, MemoryShape, NEW k \in Kinds
             PROVE  CountsFit!(k)
  BY DEF CountsFit
<1>1. Guessing(k, "compare") \in SUBSET CodeCalls /\ Guessing(k, "spend") \in SUBSET CodeCalls
  BY DEF Guessing
<1>2. Started(k) \in {0, 1}
  BY DEF Started
<1>3. /\ tries[k] \in Nat /\ accepted[k] \in Nat /\ codeFaults \in Nat /\ rewinds[k] \in Nat
      /\ otp[k].attempts \in Nat /\ otp[k].code \in Nat
  BY DEF CodesShape, MemoryShape, KeyRecords
<1>4. Used(k) \in Nat /\ Used(k) <= MaxVerifyAttempts /\ MaxVerifyAttempts \in Nat \ {0}
  BY <1>3, CodesAssumption DEF Used
<1>5. /\ Lives(k) \in Nat
      /\ Lives(k) + MaxVerifyAttempts <= MaxVerifyAttempts * (2 + rewinds[k])
      /\ MaxVerifyAttempts * (2 + rewinds[k]) \in Nat
  <2>1. Started(k) + rewinds[k] \in Nat /\ 2 + rewinds[k] \in Nat
        /\ (Started(k) + rewinds[k]) + 1 <= 2 + rewinds[k]
    BY <1>2, <1>3
  <2> QED BY <2>1, LivesGrow DEF Lives
<1> QED BY <1>1, <1>2, <1>3, <1>4, <1>5, CallsCount

\* What a step must leave for one kind: every guess it compares, or counts for
\* the comparison, has room in a life; every acceptance has a call or a failure.
LEMMA KindKept ==
  ASSUME CodesShape, MemoryShape, CodesShape', MemoryShape',
         NEW k \in Kinds, GuessFits(k), AcceptFits(k),
         otp'[k].code # 0 =>
           /\ otp[k].code # 0
           /\ tries'[k] + Cardinality(Guessing(k, "compare")') + Lives(k) + Used(k) <=
                tries[k] + Cardinality(Guessing(k, "compare")) + Lives(k)' + Used(k)'
           /\ accepted'[k] + Cardinality(Guessing(k, "spend")) + codeFaults <=
                accepted[k] + Cardinality(Guessing(k, "spend")') + codeFaults',
         \/ otp'[k].code # 0
         \/ /\ tries'[k] = tries[k] /\ rewinds[k] <= rewinds'[k]
            /\ accepted'[k] = accepted[k] /\ codeFaults <= codeFaults'
  PROVE  GuessFits(k)' /\ AcceptFits(k)'
<1>1. CountsFit /\ CountsFit'
  BY CountFacts, PTL
<1>2. MaxVerifyAttempts * (2 + rewinds[k]) <= MaxVerifyAttempts * (2 + rewinds'[k])
      \/ otp'[k].code # 0
  <2>1. /\ rewinds[k] \in Nat /\ rewinds'[k] \in Nat
        /\ otp'[k].code # 0 \/ rewinds[k] <= rewinds'[k]
    BY <1>1 DEF CountsFit
  <2>2. /\ 2 + rewinds[k] \in Nat /\ 2 + rewinds'[k] \in Nat
        /\ otp'[k].code # 0 \/ 2 + rewinds[k] <= 2 + rewinds'[k]
    BY <2>1
  <2> QED BY <2>2, LivesGrow
<1> DEFINE n == MaxVerifyAttempts * (2 + rewinds[k])
           m == MaxVerifyAttempts * (2 + rewinds'[k])
<1>3. n <= m \/ otp'[k].code # 0
  BY <1>2
<1>4. n \in Nat /\ m \in Nat /\ Lives(k)' + MaxVerifyAttempts <= m
  BY <1>1 DEF CountsFit
<1>5. tries[k] <= n + Cardinality(CodeCalls) - 1
  BY DEF GuessFits
<1> HIDE DEF n, m
<1>6. /\ otp'[k].code # 0 =>
           tries'[k] + Cardinality(Guessing(k, "compare")') <=
             Cardinality(CodeCalls) - 1 + Lives(k)' + Used(k)'
      /\ tries'[k] <= m + Cardinality(CodeCalls) - 1
  BY <1>1, <1>3, <1>4, <1>5 DEF CountsFit, GuessFits
<1>7. GuessFits(k)'
  BY <1>6 DEF GuessFits, m
<1>8. AcceptFits(k)'
  BY <1>1 DEF CountsFit, AcceptFits
<1> QED BY <1>7, <1>8

-----------------------------------------------------------------------------
\* No step gives a number twice, or a call a number that is not its own.
LEMMA NumberedKept ==
  ASSUME CodesShape, CodesShape', Numbered, issued' = issued,
         \A k \in Kinds : otp'[k].code = otp[k].code \/ otp'[k].code = 0,
         \A k \in Kinds : mailed'[k] \subseteq 1 .. issued[k],
         \A d \in CodeCalls : CodeAt(d, "send", "rewind")' =>
           /\ CodeAt(d, "send", "rewind")
           /\ codeCalls'[d].kind = codeCalls[d].kind /\ codeCalls'[d].code = codeCalls[d].code,
         \A d \in CodeCalls : CodeAt(d, "send", "mail")' =>
           /\ CodeAt(d, "send", "rewind") \/ CodeAt(d, "send", "mail")
           /\ codeCalls'[d].kind = codeCalls[d].kind /\ codeCalls'[d].code = codeCalls[d].code
  PROVE  Numbered'
<1>1. \A k \in Kinds : issued[k] \in Nat /\ otp'[k].code \in Nat
  BY DEF CodesShape, KeyRecords
<1>2. \A k \in Kinds :
        issued'[k] <= MaxIssues /\ otp'[k].code <= issued'[k] /\ mailed'[k] \subseteq 1 .. issued'[k]
  BY <1>1 DEF Numbered
<1> QED BY <1>2 DEF Numbered

\* A call that acts leaves the others, and the calls of the other kind, alone.
Acts(c) ==
  /\ \A d \in CodeCalls : d # c => codeCalls'[d] = codeCalls[d]
  /\ \/ codeCalls'[c].op = "idle"
     \/ codeCalls'[c].op = codeCalls[c].op /\ codeCalls'[c].kind = codeCalls[c].kind

LEMMA MovesAct ==
  ASSUME CodesShape, NEW c \in CodeCalls, NEW step, NEW n,
         \/ codeCalls' = [codeCalls EXCEPT ![c].step = step]
         \/ codeCalls' = [codeCalls EXCEPT ![c].step = step, ![c].code = n]
         \/ codeCalls' = [codeCalls EXCEPT ![c].count = n, ![c].step = step]
         \/ codeCalls' = [codeCalls EXCEPT ![c] = NoCodeCall]
  PROVE  Acts(c)
<1>1. codeCalls \in [CodeCalls -> CodeRecords]
  BY DEF CodesShape
<1> QED BY <1>1 DEF Acts, NoCodeCall, CodeRecords

LEMMA GuessingMoves ==
  ASSUME CodesShape, CodesShape', NEW c \in CodeCalls, Acts(c), NEW k \in Kinds
  PROVE  /\ Guessing(k, "compare")' \ {c} = Guessing(k, "compare") \ {c}
         /\ Guessing(k, "spend")' \ {c} = Guessing(k, "spend") \ {c}
         /\ Guessing(k, "compare")' \in SUBSET CodeCalls /\ Guessing(k, "spend")' \in SUBSET CodeCalls
         /\ Guessing(k, "compare") \in SUBSET CodeCalls /\ Guessing(k, "spend") \in SUBSET CodeCalls
         /\ k # codeCalls[c].kind =>
              /\ c \notin Guessing(k, "compare")' /\ c \notin Guessing(k, "spend")'
              /\ c \notin Guessing(k, "compare") /\ c \notin Guessing(k, "spend")
BY DEF Acts, Guessing, CodeAt

LEMMA StartedMoves ==
  ASSUME CodesShape, CodesShape', NEW c \in CodeCalls, Acts(c), NEW k \in Kinds,
         issued'[k] = issued[k], Owns(c, k)' => Owns(c, k)
  PROVE  /\ Started(k) <= Started(k)'
         /\ ~ Owns(c, k) => Started(k)' = Started(k)
<1>1. \A d \in CodeCalls : d # c => (Owns(d, k)' <=> Owns(d, k))
  BY DEF Acts, Owns, CodeAt
<1>2. (\E d \in CodeCalls : Owns(d, k)') => (\E d \in CodeCalls : Owns(d, k))
  BY <1>1
<1>3. ~ Owns(c, k) => ((\E d \in CodeCalls : Owns(d, k)') <=> (\E d \in CodeCalls : Owns(d, k)))
  BY <1>1
<1> QED BY <1>2, <1>3 DEF Started

\* The kind a call does not act on stays as it is.
LEMMA OtherKind ==
  ASSUME CodesShape, MemoryShape, CodesShape', MemoryShape', NEW c \in CodeCalls, Acts(c),
         NEW k \in Kinds, k # codeCalls[c].kind, GuessFits(k), AcceptFits(k),
         otp'[k] = otp[k], issued'[k] = issued[k], tries'[k] = tries[k],
         accepted'[k] = accepted[k], rewinds'[k] = rewinds[k], codeFaults <= codeFaults'
  PROVE  GuessFits(k)' /\ AcceptFits(k)'
<1>1. /\ Cardinality(Guessing(k, "compare")') = Cardinality(Guessing(k, "compare"))
      /\ Cardinality(Guessing(k, "spend")') = Cardinality(Guessing(k, "spend"))
  BY GuessingMoves, OneCallMoves
<1>2. ~ Owns(c, k) /\ ~ Owns(c, k)'
  BY DEF Acts, Owns, CodeAt
<1>3. Lives(k)' = Lives(k) /\ Used(k)' = Used(k)
  BY <1>2, StartedMoves DEF Lives, Used
<1>4. CountsFit /\ CountsFit'
  BY CountFacts, PTL
<1>5. /\ tries'[k] + Cardinality(Guessing(k, "compare")') + Lives(k) + Used(k) <=
           tries[k] + Cardinality(Guessing(k, "compare")) + Lives(k)' + Used(k)'
      /\ accepted'[k] + Cardinality(Guessing(k, "spend")) + codeFaults <=
           accepted[k] + Cardinality(Guessing(k, "spend")') + codeFaults'
  BY <1>1, <1>3, <1>4 DEF CountsFit
<1>6. rewinds[k] <= rewinds'[k]
  BY <1>4 DEF CountsFit
<1> QED BY <1>5, <1>6, KindKept

-----------------------------------------------------------------------------
\* CodeSteps that compare, accept and rewind nothing.
LEMMA CalmStep ==
  ASSUME GuessInv, CooldownInv', UNCHANGED <<issued, tries, accepted, rewinds, codeFaults>>,
         verified' \in BOOLEAN, registered' \in BOOLEAN,
         \A k \in Kinds : otp'[k].code = otp[k].code /\ otp'[k].attempts = otp[k].attempts,
         \A k \in Kinds : mailed'[k] \subseteq 1 .. issued[k],
         \A d \in CodeCalls :
           \/ codeCalls'[d] = codeCalls[d]
           \/ /\ codeCalls[d].op = "idle" \/ codeCalls[d].step \notin {"compare", "spend", "rewind"}
              /\ codeCalls'[d].step \notin {"compare", "spend", "rewind", "mail"}
  PROVE  GuessInv'
<1>1. MemoryShape'
  BY DEF GuessInv, MemoryShape
<1>2. Numbered'
  <2>1. /\ \A d \in CodeCalls : CodeAt(d, "send", "rewind")' =>
              /\ CodeAt(d, "send", "rewind")
              /\ codeCalls'[d].kind = codeCalls[d].kind /\ codeCalls'[d].code = codeCalls[d].code
        /\ \A d \in CodeCalls : CodeAt(d, "send", "mail")' =>
              /\ CodeAt(d, "send", "mail")
              /\ codeCalls'[d].kind = codeCalls[d].kind /\ codeCalls'[d].code = codeCalls[d].code
    BY DEF CodeAt
  <2> QED BY <2>1, NumberedKept DEF GuessInv, CooldownInv
<1>3. ASSUME NEW k \in Kinds PROVE GuessFits(k)' /\ AcceptFits(k)'
  <2>1. /\ Guessing(k, "compare")' = Guessing(k, "compare")
        /\ Guessing(k, "spend")' = Guessing(k, "spend")
        /\ \A d \in CodeCalls : Owns(d, k)' <=> Owns(d, k)
    BY DEF Guessing, CodeAt, Owns
  <2>2. Started(k)' = Started(k)
    BY <2>1 DEF Started
  <2>3. Lives(k)' = Lives(k) /\ Used(k)' = Used(k)
    BY <2>2 DEF Lives, Used
  <2>4. CountsFit
    BY CountFacts DEF GuessInv, CooldownInv
  <2> DEFINE n == MaxVerifyAttempts * (2 + rewinds[k])
  <2>5. GuessFits(k)'
    <3>1. otp'[k].code # 0 =>
            tries'[k] + Cardinality(Guessing(k, "compare")') <=
              Cardinality(CodeCalls) - 1 + Lives(k)' + Used(k)'
      BY <2>1, <2>3 DEF GuessInv, GuessFits
    <3> QED BY <3>1 DEF GuessFits, GuessInv
  <2>6. AcceptFits(k)'
    BY <2>1 DEF GuessInv, AcceptFits
  <2> QED BY <2>5, <2>6
<1> QED BY <1>1, <1>2, <1>3 DEF GuessInv

LEMMA CalmSteps ==
  ASSUME GuessInv, CooldownInv',
         \/ \E c \in CodeCalls :
              \/ SendCode(c) \/ GuessRegistrationCode(c) \/ GuessResetCode(c)
              \/ SendRegistrationOTP(c) \/ ForgotPassword(c) \/ TrySetResendCooldown(c)
              \/ MailCode(c) \/ MarkVerified(c)
         \/ \E k \in Kinds : ExpireCooldown(k)
         \/ ConsumeVerified \/ ExpireVerified
  PROVE  GuessInv'
<1>0. /\ codeCalls \in [CodeCalls -> CodeRecords] /\ otp \in [Kinds -> KeyRecords]
      /\ \A k \in Kinds : mailed[k] \subseteq 1 .. issued[k]
      /\ verified \in BOOLEAN /\ registered \in BOOLEAN
  BY DEF GuessInv, CooldownInv, CodesShape, Numbered, MemoryShape
<1>1. ASSUME NEW c \in CodeCalls, SendCode(c) \/ GuessRegistrationCode(c) \/ GuessResetCode(c)
      PROVE  GuessInv'
  <2>1. PICK op \in {"send", "guess"}, kind \in Kinds, code \in Nat : Ask(c, op, kind, code)
    BY <1>1 DEF SendCode, GuessRegistrationCode, GuessResetCode, GuessInv, CooldownInv, CodesShape, Kinds
  <2>2. /\ codeCalls[c].op = "idle" /\ codeCalls'[c].step \in {"lookup", "count"}
        /\ \A d \in CodeCalls : d # c => codeCalls'[d] = codeCalls[d]
        /\ UNCHANGED <<otp, verified, registered, codeFaults, issued, mailed, tries, accepted, rewinds>>
    BY <1>0, <2>1 DEF Ask
  <2> QED BY <1>0, <2>2, CalmStep
<1>2. ASSUME NEW c \in CodeCalls,
             SendRegistrationOTP(c) \/ ForgotPassword(c) \/ TrySetResendCooldown(c)
      PROVE  GuessInv'
  <2>1. /\ codeCalls[c].step \in {"lookup", "cooldown"} /\ codeCalls[c].kind \in Kinds
        /\ \/ codeCalls' = [codeCalls EXCEPT ![c] = NoCodeCall]
           \/ codeCalls' = [codeCalls EXCEPT ![c].step = "cooldown"]
           \/ codeCalls' = [codeCalls EXCEPT ![c].step = "store"]
        /\ \/ otp' = otp
           \/ otp' = [otp EXCEPT ![codeCalls[c].kind] = SetCooldown(otp[codeCalls[c].kind])]
        /\ UNCHANGED <<verified, registered, codeFaults, issued, mailed, tries, accepted, rewinds>>
    BY <1>0, <1>2 DEF SendRegistrationOTP, ForgotPassword, TrySetResendCooldown, CodeAt, Done, Next2,
         Write, Keys, UnchangedButCalls, UnchangedMemory, CodeRecords
  <2>2. \A d \in CodeCalls :
           \/ codeCalls'[d] = codeCalls[d]
           \/ /\ codeCalls[d].op = "idle" \/ codeCalls[d].step \notin {"compare", "spend", "rewind"}
              /\ codeCalls'[d].step \notin {"compare", "spend", "rewind", "mail"}
    BY <1>0, <2>1 DEF NoCodeCall, CodeRecords
  <2>3. \A k \in Kinds : otp'[k].code = otp[k].code /\ otp'[k].attempts = otp[k].attempts
    BY <1>0, <2>1 DEF SetCooldown, KeyRecords
  <2> QED BY <1>0, <2>1, <2>2, <2>3, CalmStep
<1>3. ASSUME NEW c \in CodeCalls, MailCode(c) PROVE GuessInv'
  <2>1. /\ CodeAt(c, "send", "mail")
        /\ mailed' = [mailed EXCEPT ![codeCalls[c].kind] = @ \cup {codeCalls[c].code}]
        /\ codeCalls' = [codeCalls EXCEPT ![c] = NoCodeCall]
        /\ UNCHANGED <<otp, verified, registered, codeFaults, issued, tries, accepted, rewinds>>
    BY <1>3 DEF MailCode, Done, UnchangedButCalls
  <2>2. codeCalls[c].code \in 1 .. issued[codeCalls[c].kind]
    BY <2>1 DEF GuessInv, Numbered
  <2>3. \A k \in Kinds : mailed'[k] \subseteq 1 .. issued[k]
    BY <1>0, <2>1, <2>2 DEF GuessInv, CooldownInv, CodesShape
  <2>4. \A d \in CodeCalls :
           \/ codeCalls'[d] = codeCalls[d]
           \/ /\ codeCalls[d].op = "idle" \/ codeCalls[d].step \notin {"compare", "spend", "rewind"}
              /\ codeCalls'[d].step \notin {"compare", "spend", "rewind", "mail"}
    BY <1>0, <2>1 DEF NoCodeCall, CodeAt
  <2> QED BY <1>0, <2>1, <2>3, <2>4, CalmStep
<1>4. ASSUME NEW c \in CodeCalls, MarkVerified(c) PROVE GuessInv'
  <2>1. /\ codeCalls[c].step = "mark" /\ codeCalls' = [codeCalls EXCEPT ![c] = NoCodeCall]
        /\ verified' = TRUE
        /\ UNCHANGED <<otp, registered, codeFaults, issued, mailed, tries, accepted, rewinds>>
    BY <1>4 DEF MarkVerified, CodeAt, Done, UnchangedMemory
  <2>2. \A d \in CodeCalls :
           \/ codeCalls'[d] = codeCalls[d]
           \/ /\ codeCalls[d].op = "idle" \/ codeCalls[d].step \notin {"compare", "spend", "rewind"}
              /\ codeCalls'[d].step \notin {"compare", "spend", "rewind", "mail"}
    BY <1>0, <2>1 DEF NoCodeCall
  <2> QED BY <1>0, <2>1, <2>2, CalmStep
<1>5. ASSUME NEW k \in Kinds, ExpireCooldown(k) PROVE GuessInv'
  <2>1. /\ otp' = [otp EXCEPT ![k].cooldown = FALSE]
        /\ UNCHANGED <<codeCalls, verified, registered, codeFaults, issued, mailed, tries,
                       accepted, rewinds>>
    BY <1>5 DEF ExpireCooldown, UnchangedMemory
  <2>2. \A j \in Kinds : otp'[j].code = otp[j].code /\ otp'[j].attempts = otp[j].attempts
    BY <1>0, <2>1 DEF KeyRecords
  <2> QED BY <1>0, <2>1, <2>2, CalmStep
<1>6. ASSUME ConsumeVerified \/ ExpireVerified PROVE GuessInv'
  BY <1>0, <1>6, CalmStep DEF ConsumeVerified, ExpireVerified, UnchangedMemory
<1> QED BY <1>1, <1>2, <1>3, <1>4, <1>5, <1>6

-----------------------------------------------------------------------------
\* CodeSteps of one call that issue no code: what is left to show is how the guesses
\* and acceptances of its kind fit.
LEMMA ActStep ==
  ASSUME GuessInv, CooldownInv', NEW c \in CodeCalls, Acts(c), MemoryShape',
         issued' = issued, mailed' = mailed, codeFaults <= codeFaults',
         \A k \in Kinds : otp'[k].code = otp[k].code \/ otp'[k].code = 0,
         CodeAt(c, "send", "rewind") \/ ~ CodeAt(c, "send", "mail")',
         ~ CodeAt(c, "send", "rewind")',
         codeCalls'[c].code = codeCalls[c].code \/ codeCalls'[c].op = "idle",
         \A k \in Kinds : k # codeCalls[c].kind =>
           /\ otp'[k] = otp[k] /\ tries'[k] = tries[k]
           /\ accepted'[k] = accepted[k] /\ rewinds'[k] = rewinds[k],
         \A k \in Kinds : k = codeCalls[c].kind => GuessFits(k)' /\ AcceptFits(k)'
  PROVE  GuessInv'
<1>1. CodesShape /\ MemoryShape /\ CodesShape'
  BY DEF GuessInv, CooldownInv
<1>2. Numbered'
  <2>1. \A d \in CodeCalls : CodeAt(d, "send", "rewind")' =>
           /\ CodeAt(d, "send", "rewind")
           /\ codeCalls'[d].kind = codeCalls[d].kind /\ codeCalls'[d].code = codeCalls[d].code
    BY DEF CodeAt, Acts
  <2>2. \A d \in CodeCalls : CodeAt(d, "send", "mail")' =>
           /\ CodeAt(d, "send", "rewind") \/ CodeAt(d, "send", "mail")
           /\ codeCalls'[d].kind = codeCalls[d].kind /\ codeCalls'[d].code = codeCalls[d].code
    BY DEF CodeAt, Acts
  <2>3. \A k \in Kinds : mailed'[k] \subseteq 1 .. issued[k]
    BY DEF GuessInv, Numbered
  <2> QED BY <1>1, <2>1, <2>2, <2>3, NumberedKept DEF GuessInv
<1>3. ASSUME NEW k \in Kinds PROVE GuessFits(k)' /\ AcceptFits(k)'
  <2>1. CASE k # codeCalls[c].kind
    BY <1>1, <2>1, OtherKind DEF GuessInv
  <2>2. CASE k = codeCalls[c].kind
    BY <2>2
  <2> QED BY <2>1, <2>2
<1> QED BY <1>2, <1>3 DEF GuessInv

LEMMA CountGuessStep ==
  ASSUME GuessInv, CooldownInv', NEW c \in CodeCalls, CountGuess(c)
  PROVE  GuessInv'
<1>0. /\ codeCalls \in [CodeCalls -> CodeRecords] /\ otp \in [Kinds -> KeyRecords]
      /\ CodesShape /\ CodesShape' /\ MemoryShape /\ codeCalls[c].kind \in Kinds
  BY DEF GuessInv, CooldownInv, CodesShape, CodeRecords
<1> DEFINE n == Keys(c).attempts + 1
           step == IF n > MaxVerifyAttempts THEN "exhausted" ELSE "compare"
<1>1. /\ CodeAt(c, "guess", "count")
      /\ otp' = [otp EXCEPT ![codeCalls[c].kind] = [otp[codeCalls[c].kind] EXCEPT !.attempts = n]]
      /\ codeCalls' = [codeCalls EXCEPT ![c].count = n, ![c].step = step]
      /\ UNCHANGED <<verified, registered, codeFaults, issued, mailed, tries, accepted, rewinds>>
  <2>1. IncrementOTPAttempts(Keys(c)).attempts = n
    BY <1>0 DEF IncrementOTPAttempts, Keys, KeyRecords
  <2> QED BY <2>1 DEF CountGuess, Write, Keys, IncrementOTPAttempts, UnchangedButCalls,
         UnchangedMemory
<1>2. Acts(c)
  <2> HIDE DEF n, step
  <2> QED BY <1>0, <1>1, MovesAct
<1>3. MemoryShape'
  BY <1>0, <1>1 DEF MemoryShape
<1>4. ASSUME NEW k \in Kinds, k = codeCalls[c].kind PROVE GuessFits(k)' /\ AcceptFits(k)'
  <2>1. /\ otp'[k].code = otp[k].code /\ otp'[k].attempts = otp[k].attempts + 1
        /\ otp[k].attempts \in Nat /\ n = otp[k].attempts + 1
    BY <1>0, <1>1, <1>4 DEF Keys, KeyRecords
  <2>2. /\ c \notin Guessing(k, "compare") /\ c \notin Guessing(k, "spend")
        /\ c \notin Guessing(k, "spend")'
        /\ c \in Guessing(k, "compare")' <=> n <= MaxVerifyAttempts
    BY <1>0, <1>1, <1>4, <2>1, CodesAssumption DEF Guessing, CodeAt, CodeRecords
  <2>3. /\ n <= MaxVerifyAttempts => Cardinality(Guessing(k, "compare")')
                                       = Cardinality(Guessing(k, "compare")) + 1
        /\ ~ n <= MaxVerifyAttempts => Cardinality(Guessing(k, "compare")')
                                       = Cardinality(Guessing(k, "compare"))
        /\ Cardinality(Guessing(k, "spend")') = Cardinality(Guessing(k, "spend"))
    <3> HIDE DEF n
    <3> QED BY <1>0, <1>2, <2>2, GuessingMoves, OneCallMoves
  <2>4. Lives(k)' = Lives(k)
    <3>1. ~ Owns(c, k) /\ ~ Owns(c, k)'
      BY <1>0, <1>1 DEF Owns, CodeAt, CodeRecords
    <3> QED BY <1>0, <1>1, <1>2, <3>1, StartedMoves DEF Lives
  <2>5. /\ n <= MaxVerifyAttempts => Used(k)' = Used(k) + 1
        /\ ~ n <= MaxVerifyAttempts => Used(k)' = Used(k)
    BY <2>1, CodesAssumption DEF Used
  <2>6. CountsFit
    BY <1>0, CountFacts
  <2> HIDE DEF n
  <2>7. otp'[k].code # 0 =>
           /\ otp[k].code # 0
           /\ tries'[k] + Cardinality(Guessing(k, "compare")') + Lives(k) + Used(k) <=
                tries[k] + Cardinality(Guessing(k, "compare")) + Lives(k)' + Used(k)'
           /\ accepted'[k] + Cardinality(Guessing(k, "spend")) + codeFaults <=
                accepted[k] + Cardinality(Guessing(k, "spend")') + codeFaults'
    BY <1>1, <2>1, <2>3, <2>4, <2>5, <2>6 DEF CountsFit
  <2>8. rewinds[k] <= rewinds'[k] /\ codeFaults <= codeFaults'
    BY <1>1, <2>6 DEF CountsFit
  <2> QED BY <1>0, <1>1, <1>3, <2>7, <2>8, KindKept DEF GuessInv
<1>5. /\ \A k \in Kinds : otp'[k].code = otp[k].code
      /\ \A k \in Kinds : k # codeCalls[c].kind => otp'[k] = otp[k]
      /\ codeFaults <= codeFaults'
      /\ ~ CodeAt(c, "send", "rewind")' /\ ~ CodeAt(c, "send", "mail")'
      /\ codeCalls'[c].code = codeCalls[c].code
  BY <1>0, <1>1 DEF CodesShape, KeyRecords, CodeAt, CodeRecords
<1> HIDE DEF n, step
<1> QED BY <1>1, <1>2, <1>3, <1>4, <1>5, ActStep

\* Exhausted and SpendCode delete the code.
LEMMA DeleteSteps ==
  ASSUME GuessInv, CooldownInv', NEW c \in CodeCalls, Exhausted(c) \/ SpendCode(c)
  PROVE  GuessInv'
<1>0. /\ codeCalls \in [CodeCalls -> CodeRecords] /\ otp \in [Kinds -> KeyRecords]
      /\ CodesShape /\ CodesShape' /\ MemoryShape /\ codeCalls[c].kind \in Kinds
  BY DEF GuessInv, CooldownInv, CodesShape, CodeRecords
<1>1. /\ codeCalls[c].op = "guess"
      /\ otp' = [otp EXCEPT ![codeCalls[c].kind] = [otp[codeCalls[c].kind] EXCEPT !.code = 0]]
      /\ \/ codeCalls' = [codeCalls EXCEPT ![c] = NoCodeCall]
         \/ codeCalls' = [codeCalls EXCEPT ![c].step = "clear"]
      /\ UNCHANGED <<verified, registered, codeFaults, issued, mailed, tries, accepted, rewinds>>
  BY DEF Exhausted, SpendCode, CodeAt, Write, Keys, DeleteOTP, Next2, Done, UnchangedButCalls,
         UnchangedMemory
<1>2. Acts(c)
  BY <1>0, <1>1, MovesAct
<1>3. MemoryShape'
  BY <1>0, <1>1 DEF MemoryShape
<1>4. /\ \A k \in Kinds : otp'[k].code = otp[k].code \/ otp'[k].code = 0
      /\ \A k \in Kinds : k # codeCalls[c].kind => otp'[k] = otp[k]
      /\ \A k \in Kinds : k = codeCalls[c].kind => otp'[k].code = 0
      /\ codeFaults <= codeFaults' /\ \A k \in Kinds : rewinds[k] <= rewinds'[k]
      /\ ~ CodeAt(c, "send", "rewind")' /\ ~ CodeAt(c, "send", "mail")'
      /\ codeCalls'[c].code = codeCalls[c].code \/ codeCalls'[c].op = "idle"
  BY <1>0, <1>1 DEF CodesShape, MemoryShape, KeyRecords, CodeAt, CodeRecords, NoCodeCall
<1>5. ASSUME NEW k \in Kinds, k = codeCalls[c].kind PROVE GuessFits(k)' /\ AcceptFits(k)'
  BY <1>0, <1>1, <1>3, <1>4, <1>5, KindKept DEF GuessInv
<1> QED BY <1>1, <1>2, <1>3, <1>4, <1>5, ActStep

LEMMA CompareStep ==
  ASSUME GuessInv, CooldownInv', NEW c \in CodeCalls, Compare(c)
  PROVE  GuessInv'
<1>0. /\ codeCalls \in [CodeCalls -> CodeRecords] /\ otp \in [Kinds -> KeyRecords]
      /\ CodesShape /\ CodesShape' /\ MemoryShape /\ codeCalls[c].kind \in Kinds
      /\ tries \in [Kinds -> Nat] /\ accepted \in [Kinds -> Nat]
  BY DEF GuessInv, CooldownInv, CodesShape, CodeRecords, MemoryShape
<1> DEFINE k0 == codeCalls[c].kind
<1>1. /\ CodeAt(c, "guess", "compare")
      /\ \/ /\ otp[k0].code = 0 /\ codeCalls' = [codeCalls EXCEPT ![c] = NoCodeCall]
            /\ UNCHANGED <<tries, accepted>>
         \/ /\ otp[k0].code # 0 /\ codeCalls' = [codeCalls EXCEPT ![c].step = "spend"]
            /\ tries' = [tries EXCEPT ![k0] = @ + 1] /\ accepted' = [accepted EXCEPT ![k0] = @ + 1]
         \/ /\ otp[k0].code # 0 /\ codeCalls' = [codeCalls EXCEPT ![c] = NoCodeCall]
            /\ tries' = [tries EXCEPT ![k0] = @ + 1] /\ accepted' = accepted
      /\ UNCHANGED <<otp, verified, registered, codeFaults, issued, mailed, rewinds>>
  BY DEF Compare, Keys, Next2, Done, UnchangedButCalls
<1>2. Acts(c)
  BY <1>0, <1>1, MovesAct
<1>3. MemoryShape'
  BY <1>0, <1>1 DEF MemoryShape
<1>4. /\ \A k \in Kinds : k # k0 => tries'[k] = tries[k] /\ accepted'[k] = accepted[k]
      /\ codeFaults <= codeFaults' /\ \A k \in Kinds : rewinds[k] <= rewinds'[k]
      /\ ~ CodeAt(c, "send", "rewind")' /\ ~ CodeAt(c, "send", "mail")'
      /\ codeCalls'[c].code = codeCalls[c].code \/ codeCalls'[c].op = "idle"
  BY <1>0, <1>1 DEF CodesShape, MemoryShape, CodeAt, CodeRecords, NoCodeCall
<1>5. ASSUME NEW k \in Kinds, k = k0 PROVE GuessFits(k)' /\ AcceptFits(k)'
  <2>1. /\ c \in Guessing(k, "compare") /\ c \notin Guessing(k, "spend")
        /\ c \notin Guessing(k, "compare")'
        /\ otp[k].code # 0 => tries'[k] = tries[k] + 1
        /\ otp[k].code = 0 => tries'[k] = tries[k] /\ accepted'[k] = accepted[k]
        /\ \/ c \in Guessing(k, "spend")' /\ accepted'[k] = accepted[k] + 1
           \/ c \notin Guessing(k, "spend")' /\ accepted'[k] = accepted[k]
    BY <1>0, <1>1, <1>5 DEF Guessing, CodeAt, CodeRecords, NoCodeCall
  <2>2. /\ Cardinality(Guessing(k, "compare")) = Cardinality(Guessing(k, "compare")') + 1
        /\ c \notin Guessing(k, "spend")' =>
             Cardinality(Guessing(k, "spend")') = Cardinality(Guessing(k, "spend"))
        /\ c \in Guessing(k, "spend")' =>
             Cardinality(Guessing(k, "spend")') = Cardinality(Guessing(k, "spend")) + 1
    BY <1>0, <1>2, <2>1, GuessingMoves, OneCallMoves
  <2>3. Lives(k)' = Lives(k) /\ Used(k)' = Used(k)
    <3>1. ~ Owns(c, k) /\ ~ Owns(c, k)'
      BY <1>0, <1>1, <1>4 DEF Owns, CodeAt, CodeRecords
    <3> QED BY <1>0, <1>1, <1>2, <3>1, StartedMoves DEF Lives, Used
  <2>4. CountsFit /\ CountsFit'
    BY <1>0, <1>3, CountFacts, PTL
  <2>5. otp'[k].code # 0 =>
           /\ otp[k].code # 0
           /\ tries'[k] + Cardinality(Guessing(k, "compare")') + Lives(k) + Used(k) <=
                tries[k] + Cardinality(Guessing(k, "compare")) + Lives(k)' + Used(k)'
           /\ accepted'[k] + Cardinality(Guessing(k, "spend")) + codeFaults <=
                accepted[k] + Cardinality(Guessing(k, "spend")') + codeFaults'
    BY <1>1, <2>1, <2>2, <2>3, <2>4 DEF CountsFit
  <2> QED BY <1>0, <1>1, <1>3, <1>4, <2>1, <2>5, KindKept DEF GuessInv
<1> HIDE DEF k0
<1>6. k0 = codeCalls[c].kind
  BY DEF k0
<1> QED BY <1>1, <1>2, <1>3, <1>4, <1>5, <1>6, ActStep

LEMMA FailedStep ==
  ASSUME GuessInv, CooldownInv', NEW c \in CodeCalls, FailCodeCall(c)
  PROVE  GuessInv'
<1>0. /\ codeCalls \in [CodeCalls -> CodeRecords] /\ otp \in [Kinds -> KeyRecords]
      /\ CodesShape /\ CodesShape' /\ MemoryShape /\ codeCalls[c].kind \in Kinds
      /\ codeFaults \in Nat
  BY DEF GuessInv, CooldownInv, CodesShape, CodeRecords
<1>1. /\ \/ codeCalls' = [codeCalls EXCEPT ![c] = NoCodeCall]
         \/ /\ CodeAt(c, "guess", "spend")
            /\ codeCalls' = [codeCalls EXCEPT ![c].step = "clear"]
      /\ codeFaults' = codeFaults + 1
      /\ UNCHANGED <<otp, verified, registered, issued, mailed, tries, accepted, rewinds>>
  BY DEF FailCodeCall, Next2, Done, UnchangedMemory
<1>2. Acts(c)
  BY <1>0, <1>1, MovesAct
<1>3. MemoryShape'
  BY <1>0, <1>1 DEF MemoryShape
<1>4. /\ codeFaults <= codeFaults' /\ \A k \in Kinds : rewinds[k] <= rewinds'[k]
      /\ ~ CodeAt(c, "send", "rewind")' /\ ~ CodeAt(c, "send", "mail")'
      /\ codeCalls'[c].code = codeCalls[c].code \/ codeCalls'[c].op = "idle"
  BY <1>0, <1>1 DEF MemoryShape, CodeAt, CodeRecords, NoCodeCall
<1>5. ASSUME NEW k \in Kinds, k = codeCalls[c].kind PROVE GuessFits(k)' /\ AcceptFits(k)'
  <2>1. c \notin Guessing(k, "compare")' /\ c \notin Guessing(k, "spend")'
    BY <1>0, <1>1 DEF Guessing, CodeAt, CodeRecords, NoCodeCall
  <2>2. /\ \/ Cardinality(Guessing(k, "compare")) = Cardinality(Guessing(k, "compare")')
           \/ Cardinality(Guessing(k, "compare")) = Cardinality(Guessing(k, "compare")') + 1
        /\ \/ Cardinality(Guessing(k, "spend")) = Cardinality(Guessing(k, "spend")')
           \/ Cardinality(Guessing(k, "spend")) = Cardinality(Guessing(k, "spend")') + 1
    BY <1>0, <1>2, <2>1, GuessingMoves, OneCallMoves
  <2>3. Started(k) <= Started(k)'
    <3>1. ~ Owns(c, k)'
      BY <1>4 DEF Owns, CodeAt
    <3> QED BY <1>0, <1>1, <1>2, <3>1, StartedMoves
  <2>4. CountsFit /\ CountsFit'
    BY <1>0, <1>3, CountFacts, PTL
  <2>5. Lives(k) <= Lives(k)' /\ Used(k)' = Used(k)
    <3>1. /\ Started(k) + rewinds[k] \in Nat /\ Started(k)' + rewinds'[k] \in Nat
          /\ Started(k) + rewinds[k] <= Started(k)' + rewinds'[k]
      BY <1>1, <2>3, <2>4 DEF CountsFit
    <3> QED BY <1>1, <3>1, LivesGrow DEF Lives, Used
  <2>6. otp'[k].code # 0 =>
           /\ otp[k].code # 0
           /\ tries'[k] + Cardinality(Guessing(k, "compare")') + Lives(k) + Used(k) <=
                tries[k] + Cardinality(Guessing(k, "compare")) + Lives(k)' + Used(k)'
           /\ accepted'[k] + Cardinality(Guessing(k, "spend")) + codeFaults <=
                accepted[k] + Cardinality(Guessing(k, "spend")') + codeFaults'
    BY <1>1, <2>2, <2>4, <2>5 DEF CountsFit
  <2> QED BY <1>0, <1>1, <1>3, <1>4, <2>6, KindKept DEF GuessInv
<1> QED BY <1>1, <1>2, <1>3, <1>4, <1>5, ActStep

\* The counter goes back to zero: for the code of the call itself once, for the
\* code of another at the price of a rewind.
LEMMA RewindSteps ==
  ASSUME GuessInv, CooldownInv', NEW c \in CodeCalls, RewindForCode(c) \/ ClearAttempts(c)
  PROVE  GuessInv'
<1>0. /\ codeCalls \in [CodeCalls -> CodeRecords] /\ otp \in [Kinds -> KeyRecords]
      /\ CodesShape /\ CodesShape' /\ MemoryShape /\ codeCalls[c].kind \in Kinds
      /\ rewinds \in [Kinds -> Nat]
  BY DEF GuessInv, CooldownInv, CodesShape, CodeRecords, MemoryShape
<1> DEFINE k0 == codeCalls[c].kind
<1>1. /\ \/ CodeAt(c, "send", "rewind") /\ codeCalls' = [codeCalls EXCEPT ![c].step = "mail"]
         \/ CodeAt(c, "guess", "clear") /\ codeCalls' = [codeCalls EXCEPT ![c].step = "mark"]
         \/ CodeAt(c, "guess", "clear") /\ codeCalls' = [codeCalls EXCEPT ![c] = NoCodeCall]
      /\ otp' = [otp EXCEPT ![k0] = [otp[k0] EXCEPT !.attempts = 0, !.older = FALSE]]
      /\ UNCHANGED <<verified, registered, codeFaults, issued, mailed, tries, accepted>>
  BY DEF RewindForCode, ClearAttempts, Write, Keys, ResetOTPAttempts, Next2, Done, UnchangedButCalls
<1>2. /\ Owns(c, k0) => rewinds' = rewinds
      /\ ~ Owns(c, k0) => rewinds' = [rewinds EXCEPT ![k0] = @ + 1]
  BY <1>0, <1>1 DEF RewindForCode, ClearAttempts, Rewound, Owns, CodeAt, CodeRecords
<1>3. Acts(c)
  BY <1>0, <1>1, MovesAct
<1>4. MemoryShape'
  BY <1>0, <1>1, <1>2 DEF MemoryShape
<1>5. /\ \A k \in Kinds : otp'[k].code = otp[k].code
      /\ \A k \in Kinds : k # k0 => otp'[k] = otp[k] /\ rewinds'[k] = rewinds[k]
      /\ codeFaults <= codeFaults'
      /\ ~ CodeAt(c, "send", "rewind")'
      /\ CodeAt(c, "send", "rewind") \/ ~ CodeAt(c, "send", "mail")'
      /\ codeCalls'[c].code = codeCalls[c].code \/ codeCalls'[c].op = "idle"
  BY <1>0, <1>1, <1>2 DEF CodesShape, KeyRecords, CodeAt, CodeRecords, NoCodeCall
<1>6. ASSUME NEW k \in Kinds, k = k0 PROVE GuessFits(k)' /\ AcceptFits(k)'
  <2>1. /\ c \notin Guessing(k, "compare")' /\ c \notin Guessing(k, "spend")'
        /\ c \notin Guessing(k, "compare") /\ c \notin Guessing(k, "spend")
    BY <1>0, <1>1 DEF Guessing, CodeAt, CodeRecords, NoCodeCall
  <2>2. /\ Cardinality(Guessing(k, "compare")) = Cardinality(Guessing(k, "compare")')
        /\ Cardinality(Guessing(k, "spend")) = Cardinality(Guessing(k, "spend")')
    BY <1>0, <1>3, <2>1, GuessingMoves, OneCallMoves
  <2>3. CountsFit /\ CountsFit'
    BY <1>0, <1>4, CountFacts, PTL
  <2>4. (Started(k) + rewinds[k]) + 1 <= Started(k)' + rewinds'[k]
    <3>1. CASE Owns(c, k)
      <4>1. Started(k) = 0
        BY <3>1 DEF Started
      <4>2. ~ Owns(c, k)'
        BY <1>5 DEF Owns
      <4>3. \A d \in CodeCalls : d # c => ~ Owns(d, k)
        BY <3>1 DEF GuessInv, Numbered, Owns
      <4>4. \A d \in CodeCalls : d # c => ~ Owns(d, k)'
        BY <4>3, <1>1, <1>3 DEF Acts, Owns, CodeAt
      <4>5. Started(k)' = 1
        BY <4>2, <4>4 DEF Started
      <4>6. rewinds'[k] = rewinds[k]
        BY <1>2, <1>6, <3>1
      <4> QED BY <2>3, <4>1, <4>5, <4>6 DEF CountsFit
    <3>2. CASE ~ Owns(c, k)
      <4>1. ~ Owns(c, k)'
        BY <1>5 DEF Owns
      <4>2. Started(k)' = Started(k)
        BY <1>0, <1>1, <1>3, <3>2, <4>1, StartedMoves
      <4>3. rewinds'[k] = rewinds[k] + 1
        BY <1>0, <1>2, <1>6, <3>2
      <4> QED BY <2>3, <4>2, <4>3 DEF CountsFit
    <3> QED BY <3>1, <3>2
  <2>5. Lives(k) + MaxVerifyAttempts <= Lives(k)'
    <3>1. Started(k) + rewinds[k] \in Nat /\ Started(k)' + rewinds'[k] \in Nat
      BY <2>3 DEF CountsFit
    <3> QED BY <2>4, <3>1, LivesGrow DEF Lives
  <2>6. otp'[k].code # 0 =>
           /\ otp[k].code # 0
           /\ tries'[k] + Cardinality(Guessing(k, "compare")') + Lives(k) + Used(k) <=
                tries[k] + Cardinality(Guessing(k, "compare")) + Lives(k)' + Used(k)'
           /\ accepted'[k] + Cardinality(Guessing(k, "spend")) + codeFaults <=
                accepted[k] + Cardinality(Guessing(k, "spend")') + codeFaults'
    BY <1>1, <1>5, <2>2, <2>3, <2>5 DEF CountsFit
  <2>7. rewinds[k] <= rewinds'[k]
    BY <1>0, <1>2, <1>6
  <2> QED BY <1>0, <1>1, <1>4, <1>5, <2>6, <2>7, KindKept DEF GuessInv
<1> HIDE DEF k0
<1>7. k0 = codeCalls[c].kind
  BY DEF k0
<1> QED BY <1>1, <1>3, <1>4, <1>5, <1>6, <1>7, ActStep

LEMMA ExpiringSteps ==
  ASSUME GuessInv, CooldownInv', NEW k0 \in Kinds, ExpireCode(k0) \/ ExpireAttempts(k0)
  PROVE  GuessInv'
<1>0. /\ otp \in [Kinds -> KeyRecords] /\ rewinds \in [Kinds -> Nat]
      /\ CodesShape /\ CodesShape' /\ MemoryShape
  BY DEF GuessInv, CooldownInv, CodesShape, MemoryShape
<1>1. UNCHANGED <<codeCalls, verified, registered, codeFaults, issued, mailed, tries, accepted>>
  BY DEF ExpireCode, ExpireAttempts, UnchangedMemory
<1>2. \/ otp' = [otp EXCEPT ![k0] = [otp[k0] EXCEPT !.code = 0]] /\ rewinds' = rewinds
      \/ /\ otp' = [otp EXCEPT ![k0] = [otp[k0] EXCEPT !.attempts = 0, !.older = FALSE]]
         /\ rewinds' = [rewinds EXCEPT ![k0] = @ + 1]
      \/ /\ otp' = [otp EXCEPT ![k0] = [otp[k0] EXCEPT !.attempts = 0, !.older = FALSE]]
         /\ otp[k0].code = 0 /\ rewinds' = rewinds
  BY DEF ExpireCode, ExpireAttempts, DeleteOTP, ResetOTPAttempts, Outlived, UnchangedMemory
<1>3. MemoryShape'
  BY <1>0, <1>1, <1>2 DEF MemoryShape
<1>4. /\ \A k \in Kinds : otp'[k].code = otp[k].code \/ otp'[k].code = 0
      /\ \A k \in Kinds : rewinds[k] <= rewinds'[k]
      /\ \A k \in Kinds : \/ otp'[k] = otp[k] /\ rewinds'[k] = rewinds[k]
                          \/ otp'[k].code = 0
                          \/ otp'[k].attempts = 0 /\ rewinds'[k] = rewinds[k] + 1
  <2>1. \A k \in Kinds : k # k0 => otp'[k] = otp[k] /\ rewinds'[k] = rewinds[k]
    BY <1>0, <1>2
  <2>2. \/ otp'[k0].code = 0 /\ rewinds'[k0] = rewinds[k0]
        \/ /\ otp'[k0].attempts = 0 /\ otp'[k0].code = otp[k0].code
           /\ rewinds'[k0] = rewinds[k0] + 1
    BY <1>0, <1>2 DEF KeyRecords
  <2> QED BY <1>0, <2>1, <2>2
<1>5. Numbered'
  <2>1. \A d \in CodeCalls : CodeAt(d, "send", "rewind")' => CodeAt(d, "send", "rewind")
    BY <1>1 DEF CodeAt
  <2>2. \A d \in CodeCalls : CodeAt(d, "send", "mail")' => CodeAt(d, "send", "mail")
    BY <1>1 DEF CodeAt
  <2>3. \A k \in Kinds : mailed'[k] \subseteq 1 .. issued[k]
    BY <1>1 DEF GuessInv, Numbered
  <2> QED BY <1>0, <1>1, <1>4, <2>1, <2>2, <2>3, NumberedKept DEF GuessInv
<1>6. ASSUME NEW k \in Kinds PROVE GuessFits(k)' /\ AcceptFits(k)'
  <2>1. /\ Guessing(k, "compare")' = Guessing(k, "compare")
        /\ Guessing(k, "spend")' = Guessing(k, "spend")
    BY <1>1 DEF Guessing, CodeAt
  <2>2. Started(k)' = Started(k)
    BY <1>1 DEF Started, Owns, CodeAt
  <2>3. CountsFit /\ CountsFit'
    BY <1>0, <1>3, CountFacts, PTL
  <2>4. \/ Lives(k)' = Lives(k) /\ Used(k)' = Used(k) /\ otp'[k].code = otp[k].code
        \/ Lives(k) + MaxVerifyAttempts <= Lives(k)' /\ otp'[k].code = otp[k].code
        \/ otp'[k].code = 0
    <3>1. CASE otp'[k] = otp[k] /\ rewinds'[k] = rewinds[k]
      BY <2>2, <3>1 DEF Lives, Used
    <3>2. CASE otp'[k].attempts = 0 /\ rewinds'[k] = rewinds[k] + 1
      <4>1. /\ Started(k) + rewinds[k] \in Nat /\ Started(k)' + rewinds'[k] \in Nat
            /\ (Started(k) + rewinds[k]) + 1 <= Started(k)' + rewinds'[k]
        BY <2>2, <2>3, <3>2 DEF CountsFit
      <4> QED BY <1>4, <4>1, LivesGrow DEF Lives
    <3> QED BY <1>4, <3>1, <3>2
  <2>5. otp'[k].code # 0 =>
           /\ otp[k].code # 0
           /\ tries'[k] + Cardinality(Guessing(k, "compare")') + Lives(k) + Used(k) <=
                tries[k] + Cardinality(Guessing(k, "compare")) + Lives(k)' + Used(k)'
           /\ accepted'[k] + Cardinality(Guessing(k, "spend")) + codeFaults <=
                accepted[k] + Cardinality(Guessing(k, "spend")') + codeFaults'
    BY <1>1, <2>1, <2>3, <2>4 DEF CountsFit
  <2>6. codeFaults <= codeFaults'
    BY <1>1, <2>3 DEF CountsFit
  <2> QED BY <1>0, <1>1, <1>3, <1>4, <2>5, <2>6, KindKept DEF GuessInv
<1> QED BY <1>3, <1>5, <1>6 DEF GuessInv

\* The first guesses of a code are those counted before it was stored.
LEMMA IssueStep ==
  ASSUME GuessInv, CooldownInv', NEW c \in CodeCalls, StoreCode(c)
  PROVE  GuessInv'
<1>0. /\ codeCalls \in [CodeCalls -> CodeRecords] /\ otp \in [Kinds -> KeyRecords]
      /\ CodesShape /\ CodesShape' /\ MemoryShape /\ codeCalls[c].kind \in Kinds
      /\ issued \in [Kinds -> Nat] /\ rewinds \in [Kinds -> Nat]
      /\ tries \in [Kinds -> Nat] /\ accepted \in [Kinds -> Nat]
  BY DEF GuessInv, CooldownInv, CodesShape, CodeRecords, MemoryShape
<1> DEFINE k0 == codeCalls[c].kind
           n == issued[k0] + 1
           older == otp[k0].attempts > 0
<1>1. /\ CodeAt(c, "send", "store") /\ n <= MaxIssues
      /\ otp' = [otp EXCEPT ![k0] = [otp[k0] EXCEPT !.code = n, !.older = older]]
      /\ codeCalls' = [codeCalls EXCEPT ![c].step = "rewind", ![c].code = n]
      /\ issued' = [issued EXCEPT ![k0] = n]
      /\ tries' = [tries EXCEPT ![k0] = 0] /\ accepted' = [accepted EXCEPT ![k0] = 0]
      /\ rewinds' = [rewinds EXCEPT ![k0] = 0]
      /\ UNCHANGED <<verified, registered, codeFaults, mailed>>
  BY DEF StoreCode, Write, Keys, SetOTP, UnchangedButCalls
<1>2. n \in Nat /\ n > issued[k0] /\ k0 \in Kinds /\ MaxIssues \in Nat
  BY <1>0, CodesAssumption
<1> HIDE DEF n, older
<1>3. Acts(c)
  BY <1>0, <1>1, MovesAct
<1>4. MemoryShape'
  BY <1>0, <1>1 DEF MemoryShape
<1>5. /\ codeCalls'[c].step = "rewind" /\ codeCalls'[c].op = "send"
      /\ codeCalls'[c].kind = k0 /\ codeCalls'[c].code = n
      /\ issued'[k0] = n /\ \A k \in Kinds : k # k0 => issued'[k] = issued[k] /\ otp'[k] = otp[k]
      /\ otp'[k0].code = n /\ otp'[k0].attempts = otp[k0].attempts
  BY <1>0, <1>1, <1>2 DEF CodeAt, CodeRecords, KeyRecords
<1>6. Numbered'
  <2>1. \A k \in Kinds :
          /\ issued'[k] <= MaxIssues /\ otp'[k].code <= issued'[k]
          /\ mailed'[k] \subseteq 1 .. issued'[k]
    <3>1. \A k \in Kinds :
            /\ issued[k] <= MaxIssues /\ otp[k].code <= issued[k]
            /\ mailed[k] \subseteq 1 .. issued[k]
      BY DEF GuessInv, Numbered
    <3>2. \A k \in Kinds : issued[k] \in Nat
      BY <1>0
    <3>3. mailed'[k0] \subseteq 1 .. n
      BY <1>1, <1>2, <3>1, <3>2
    <3> HIDE DEF k0
    <3>4. ASSUME NEW k \in Kinds, k # k0
          PROVE  /\ issued'[k] <= MaxIssues /\ otp'[k].code <= issued'[k]
                 /\ mailed'[k] \subseteq 1 .. issued'[k]
      BY <1>1, <1>5, <3>1, <3>4
    <3>5. /\ issued'[k0] <= MaxIssues /\ otp'[k0].code <= issued'[k0]
          /\ mailed'[k0] \subseteq 1 .. issued'[k0]
      BY <1>1, <1>2, <1>5, <3>3
    <3> QED BY <3>4, <3>5
  <2>2. ASSUME NEW d \in CodeCalls, d # c, CodeAt(d, "send", "rewind")' \/ CodeAt(d, "send", "mail")'
        PROVE  /\ codeCalls'[d].code \in 1 .. issued[codeCalls[d].kind]
               /\ codeCalls'[d].kind = codeCalls[d].kind
               /\ codeCalls[d].kind \in Kinds /\ codeCalls'[d].code = codeCalls[d].code
               /\ CodeAt(d, "send", "rewind")' => CodeAt(d, "send", "rewind")
    BY <1>0, <1>3, <2>2 DEF GuessInv, Numbered, Acts, CodeAt, CodeRecords
  <2>3. ASSUME NEW d \in CodeCalls, CodeAt(d, "send", "rewind")' \/ CodeAt(d, "send", "mail")'
        PROVE  codeCalls'[d].code \in 1 .. issued'[codeCalls'[d].kind]
    <3>1. CASE d = c
      <4>1. n \in 1 .. n
        BY <1>0, <1>2 DEF n
      <4> QED BY <1>5, <3>1, <4>1
    <3>2. CASE d # c
      <4>1. \A k \in Kinds : issued[k] \in Nat /\ issued'[k] \in Nat /\ issued[k] <= issued'[k]
        BY <1>0, <1>1, <1>2
      <4>2. \A k \in Kinds : 1 .. issued[k] \subseteq 1 .. issued'[k]
        BY <4>1
      <4> QED BY <2>2, <2>3, <3>2, <4>2
    <3> QED BY <3>1, <3>2
  <2>4. ASSUME NEW d \in CodeCalls, d # c, CodeAt(d, "send", "rewind")'
        PROVE  ~ (codeCalls'[d].kind = k0 /\ codeCalls'[d].code = n)
    BY <1>0, <1>2, <2>2, <2>4
  <2>5. ASSUME NEW d \in CodeCalls, NEW e \in CodeCalls,
               CodeAt(d, "send", "rewind")', CodeAt(e, "send", "rewind")',
               codeCalls'[d].kind = codeCalls'[e].kind, codeCalls'[d].code = codeCalls'[e].code
        PROVE  d = e
    <3>1. CASE d # c /\ e # c
      BY <2>2, <2>5, <3>1 DEF GuessInv, Numbered
    <3>2. CASE d = c \/ e = c
      BY <1>5, <2>4, <2>5, <3>2
    <3> QED BY <3>1, <3>2
  <2> HIDE DEF k0
  <2> QED BY <2>1, <2>3, <2>5 DEF Numbered
<1>7. CountsFit /\ CountsFit'
  BY <1>0, <1>4, CountFacts, PTL
<1>8. ASSUME NEW k \in Kinds PROVE GuessFits(k)' /\ AcceptFits(k)'
  <2>1. CASE k # k0
    BY <1>0, <1>1, <1>3, <1>4, <1>5, <1>7, <2>1, OtherKind DEF GuessInv, CountsFit
  <2>2. CASE k = k0
    <3>1. c \notin Guessing(k, "compare")'
      BY <1>5 DEF Guessing, CodeAt
    <3>2. Cardinality(Guessing(k, "compare")') <= Cardinality(CodeCalls) - 1
      BY <1>0, <1>3, <3>1, GuessingMoves, OneCallMoves
    <3>3. tries'[k] = 0 /\ accepted'[k] = 0
      BY <1>0, <1>1, <2>2
    <3>4. /\ Cardinality(CodeCalls) \in Nat /\ codeFaults' \in Nat
          /\ Cardinality(Guessing(k, "compare")') \in Nat /\ Cardinality(Guessing(k, "spend")') \in Nat
          /\ Lives(k)' \in Nat /\ Used(k)' \in Nat
          /\ MaxVerifyAttempts * (2 + rewinds'[k]) \in Nat
      BY <1>7 DEF CountsFit
    <3>5. MaxVerifyAttempts * (2 + rewinds'[k]) + Cardinality(CodeCalls) - 1 >= 0
      BY <3>2, <3>4
    <3>6. GuessFits(k)'
      BY <3>2, <3>3, <3>4, <3>5 DEF GuessFits
    <3>7. AcceptFits(k)'
      BY <3>3, <3>4 DEF AcceptFits
    <3> QED BY <3>6, <3>7
  <2> QED BY <2>1, <2>2
<1> QED BY <1>4, <1>6, <1>8 DEF GuessInv

LEMMA GuessStart == CodesInit => GuessInv
<1> SUFFICES ASSUME CodesInit PROVE GuessInv
  OBVIOUS
<1>1. CooldownInv
  BY CodesStart
<1>2. /\ \A k \in Kinds : /\ otp[k] = NoKeys /\ issued[k] = 0 /\ mailed[k] = {}
                          /\ tries[k] = 0 /\ accepted[k] = 0 /\ rewinds[k] = 0
      /\ \A c \in CodeCalls : codeCalls[c] = NoCodeCall
      /\ codeFaults = 0 /\ verified = FALSE /\ registered \in BOOLEAN
  BY DEF CodesInit, PerKind
<1>3. MemoryShape
  BY <1>2 DEF MemoryShape, CodesInit, PerKind
<1>4. Numbered
  BY <1>2, CodesAssumption DEF Numbered, NoKeys, NoCodeCall, CodeAt
<1>5. ASSUME NEW k \in Kinds PROVE GuessFits(k) /\ AcceptFits(k)
  <2>1. MaxVerifyAttempts \in Nat \ {0} /\ Cardinality(CodeCalls) \in Nat
    BY CodesAssumption, CallsCount
  <2>2. otp[k].code = 0 /\ tries[k] = 0 /\ rewinds[k] = 0 /\ accepted[k] = 0
    BY <1>2 DEF NoKeys
  <2>3. MaxVerifyAttempts * (2 + 0) >= 1
    BY <2>1
  <2>4. GuessFits(k)
    BY <2>1, <2>2, <2>3 DEF GuessFits
  <2>5. AcceptFits(k)
    BY <1>2, <2>1, <2>2 DEF AcceptFits
  <2> QED BY <2>4, <2>5
<1> QED BY <1>1, <1>3, <1>4, <1>5 DEF GuessInv

LEMMA GuessStep == GuessInv /\ [CodesNext]_codeVars => GuessInv'
<1> SUFFICES ASSUME GuessInv, [CodesNext]_codeVars PROVE GuessInv'
  OBVIOUS
<1>1. CooldownInv'
  BY CodesStep DEF GuessInv
<1>2. CASE UNCHANGED codeVars
  BY <1>1, <1>2, CalmStep DEF codeVars, GuessInv, Numbered, MemoryShape
<1>3. CASE CodesNext
  BY <1>1, <1>3, CalmSteps, CountGuessStep, DeleteSteps, CompareStep, FailedStep, RewindSteps,
     ExpiringSteps, IssueStep
     DEF CodesNext
<1> QED BY <1>2, <1>3

\* The limits on guessing (otp.go, VerifyRegistrationOTP and ResetPassword over
\* IncrementOTPAttempts and ResetOTPAttempts), however sends, guesses, expiry
\* and failed commands overlap: a code is compared a bounded number of times
\* for each life of its counter, and accepted at most once by each call that
\* overlaps and once more for each failure that kept it alive.
THEOREM GuessingIsLimited == CodesSpec => []CodesResistGuessing
<1>1. GuessInv => CodesResistGuessing
  <2> SUFFICES ASSUME GuessInv PROVE CodesResistGuessing
    OBVIOUS
  <2>1. CodesTypeOK
    <3>1. \A k \in Kinds :
            /\ issued[k] \in Nat /\ otp[k] \in KeyRecords
            /\ issued[k] <= MaxIssues /\ otp[k].code <= issued[k] /\ mailed[k] \subseteq 1 .. issued[k]
      BY DEF GuessInv, CooldownInv, CodesShape, Numbered
    <3>2. MaxIssues \in Nat
      BY CodesAssumption
    <3>3. ASSUME NEW k \in Kinds
          PROVE  /\ issued[k] \in Issues /\ otp[k].code \in 0 .. issued[k]
                 /\ otp[k] \in [code : Issues, attempts : Nat, older : BOOLEAN, cooldown : BOOLEAN]
      BY <3>1, <3>2 DEF Issues, KeyRecords
    <3>4. otp \in [Kinds -> [code : Issues, attempts : Nat, older : BOOLEAN, cooldown : BOOLEAN]]
      BY <3>3 DEF GuessInv, CooldownInv, CodesShape
    <3> QED BY <3>1, <3>3, <3>4 DEF CodesTypeOK, GuessInv, MemoryShape
  <2>2. GuessesBounded /\ CodesAreSpent
    BY DEF GuessInv, GuessFits, AcceptFits, GuessesBounded, CodesAreSpent
  <2> QED BY <2>1, <2>2 DEF CodesResistGuessing
<1> QED BY <1>1, GuessStart, GuessStep, PTL DEF CodesSpec

-----------------------------------------------------------------------------
(* Accounts and roles.                                                     *)

ActOps ==
  {"idle", "createuser", "updateuser", "pending", "active", "suspended", "deleted", "createstaff",
   "updatestaff", "createrole", "renamerole", "describerole", "deleterole", "assign", "remove",
   "createperm", "updateperm", "deleteperm", "grant", "revoke", "picture", "seed"}
Standings == {"pending", "active", "suspended", "deleted"}
Mails == Emails \cup {AdminEmail, "none"}
Titles == RoleNames \cup {"none", "dashboard.read", "users.read"}
ActRecords ==
  [op : ActOps, step : {"idle", "read", "insert", "finish", "write"}, who : Nat, email : Mails,
   handle : Handles \cup {"none"}, role : Nat, name : Titles, todo : SUBSET {"verify", "assign"}]
UserRows ==
  [id : Nat, email : Mails, phone : {"none"}, handle : Handles \cup {"none"}, password : {"secret"},
   status : Standings, version : {0}, picture : {"none", "url"}]
StaffRows ==
  [id : Nat, email : Mails, password : {"secret"}, status : Standings, version : {0}]
NamedRows == [id : Nat, name : Titles]

\* A table whose rows have the numbers of inserts up to n, and their keys.
UsersFit(table, n) ==
  /\ table \subseteq UserRows /\ \A a \in table : a.id <= n
  /\ \A a, b \in table : (a.id = b.id \/ a.email = b.email \/ a.handle = b.handle) => a = b
StaffFit(table, n) ==
  /\ table \subseteq StaffRows /\ \A a \in table : a.id <= n
  /\ \A a, b \in table : (a.id = b.id \/ a.email = b.email) => a = b
NamesFit(table, n) ==
  /\ table \subseteq NamedRows /\ \A a \in table : a.id <= n
  /\ \A a, b \in table : (a.id = b.id \/ a.name = b.name) => a = b
PairsFit(pairs, left, right) == \A p \in pairs : p[1] \in Ids(left) /\ p[2] \in Ids(right)

TablesFit ==
  /\ rows \in Nat
  /\ UsersFit(userT, rows) /\ StaffFit(staffT, rows) /\ NamesFit(roleT, rows) /\ NamesFit(permT, rows)
  /\ PairsFit(userRoles, userT, roleT) /\ PairsFit(staffRoles, staffT, roleT)
  /\ PairsFit(grants, roleT, permT)
  /\ Ids(userT) = Ids(pinT)
ActsFit == adminCalls \in [AdminCalls -> ActRecords]

\* RolelessIsExplained, of the rows themselves.
HasRole(id) == \E p \in userRoles \cup staffRoles : p[1] = id
Explained ==
  \A id \in Ids(userT) \cup Ids(staffT) :
    \/ HasRole(id) \/ id \in halfMade \cup stripped
    \/ \E c \in AdminCalls : adminCalls[c].who = id /\ adminCalls[c].step = "finish"
\* A creation that has made its assignment has given a role.
Assigned ==
  \A c \in AdminCalls :
    Doing(c, {"createuser"}, "finish") /\ "assign" \notin adminCalls[c].todo =>
      \/ \E p \in userRoles : p[1] = adminCalls[c].who
      \/ adminCalls[c].who \in stripped
\* A protected name is held by a role that no deletion has got past the check of.
Deleting(x) == x.op = "deleterole" /\ x.step = "write"
Reserved ==
  \A name \in protectedRoles \ renamed :
    \E r \in roleT :
      r.name = name /\ \A c \in AdminCalls : Deleting(adminCalls[c]) => adminCalls[c].role # r.id

AccInv == TablesFit /\ ActsFit /\ Explained /\ Assigned /\ Reserved

-----------------------------------------------------------------------------
(* Rows *)

LEMMA IdsOf ==
  ASSUME NEW table, NEW id
  PROVE  id \in Ids(table) <=> RowsOf(table, id) # {}
BY DEF Ids, RowsOf

LEMMA Found ==
  ASSUME NEW table, NEW err, table # {}
  PROVE  OneRow(table, err).val \in table /\ OneRow(table, err).err = "nil"
BY DEF OneRow, Ok

LEMMA NotFound ==
  ASSUME NEW cause
  PROVE  ~Succeeds(Fail(MapDBErrors(cause)))
BY DEF Succeeds, Fail, MapDBErrors

\* The row of an id, and the table with another one in its place.
LEMMA UserOf ==
  ASSUME NEW table, NEW n, UsersFit(table, n), NEW u \in table
  PROVE  RowsOf(table, u.id) = {u} /\ u \in UserRows /\ u.id \in Nat /\ u.id <= n
BY DEF UsersFit, RowsOf, UserRows

LEMMA UserPut ==
  ASSUME NEW n \in Nat, NEW table, UsersFit(table, n), NEW u \in table, NEW v \in UserRows, v.id = u.id,
         \A w \in table : w.id # u.id => w.email # v.email /\ w.handle # v.handle
  PROVE  /\ UsersFit(Without(table, u.id) \cup {v}, n)
         /\ Ids(Without(table, u.id) \cup {v}) = Ids(table)
<1> DEFINE after == Without(table, u.id) \cup {v}
<1>1. \A w \in after : w = v \/ (w \in table /\ w.id # u.id)
  BY DEF Without
<1>2. after \subseteq UserRows /\ \A w \in after : w.id <= n
  BY <1>1 DEF UsersFit
<1>3. \A a, b \in after : (a.id = b.id \/ a.email = b.email \/ a.handle = b.handle) => a = b
  BY <1>1 DEF UsersFit
<1>4. UsersFit(after, n)
  BY <1>2, <1>3 DEF UsersFit
<1>5. \A id : id \in Ids(after) <=> id \in Ids(table)
  BY DEF Ids, Without
<1> QED BY <1>4, <1>5

\* UPDATEs of the columns that are no keys.
LEMMA UserMarked ==
  ASSUME NEW n \in Nat, NEW table, UsersFit(table, n), NEW id, NEW status \in Standings
  PROVE  /\ UsersFit(UpdateUserStatus(table, id, status), n)
         /\ Ids(UpdateUserStatus(table, id, status)) = Ids(table)
<1>1. CASE RowsOf(table, id) = {}
  <2>1. UpdateUserStatus(table, id, status) = table
    BY <1>1 DEF UpdateUserStatus, RowsOf, Without
  <2> QED BY <2>1, <1>1
<1>2. CASE RowsOf(table, id) # {}
  <2>1. PICK u \in table : u.id = id
    BY <1>2 DEF RowsOf
  <2>2. RowsOf(table, id) = {u} /\ u \in UserRows
    BY <2>1, UserOf
  <2> DEFINE v == [u EXCEPT !.status = status]
  <2>3. UpdateUserStatus(table, id, status) = Without(table, u.id) \cup {v}
    BY <2>1, <2>2 DEF UpdateUserStatus
  <2>4. v \in UserRows /\ v.id = u.id /\ v.email = u.email /\ v.handle = u.handle
    BY <2>2 DEF UserRows
  <2>5. \A w \in table : w.id # u.id => w.email # v.email /\ w.handle # v.handle
    BY <2>4 DEF UsersFit
  <2> HIDE DEF v
  <2>6. /\ UsersFit(Without(table, u.id) \cup {v}, n)
        /\ Ids(Without(table, u.id) \cup {v}) = Ids(table)
    BY <2>4, <2>5, UserPut
  <2> QED BY <2>3, <2>6
<1> QED BY <1>1, <1>2

LEMMA UserPictured ==
  ASSUME NEW n \in Nat, NEW table, UsersFit(table, n), NEW id
  PROVE  LET after == After(RepoUpdateProfilePicture(table, id, "url"), table)
         IN  UsersFit(after, n) /\ Ids(after) = Ids(table)
<1>1. CASE GetUserByID(table, id) = {}
  BY <1>1 DEF RepoUpdateProfilePicture, After, Succeeds, Fail
<1>2. CASE GetUserByID(table, id) # {}
  <2>1. PICK u \in table : u.id = id
    BY <1>2 DEF GetUserByID, RowsOf
  <2>2. RowsOf(table, id) = {u} /\ u \in UserRows
    BY <2>1, UserOf
  <2> DEFINE v == [u EXCEPT !.picture = "url"]
  <2>3. After(RepoUpdateProfilePicture(table, id, "url"), table) = Without(table, u.id) \cup {v}
    BY <1>2, <2>1, <2>2 DEF RepoUpdateProfilePicture, UpdateProfilePicture, After, Succeeds, Ok
  <2>4. v \in UserRows /\ v.id = u.id /\ v.email = u.email /\ v.handle = u.handle
    BY <2>2 DEF UserRows
  <2>5. \A w \in table : w.id # u.id => w.email # v.email /\ w.handle # v.handle
    BY <2>4 DEF UsersFit
  <2> HIDE DEF v
  <2>6. /\ UsersFit(Without(table, u.id) \cup {v}, n)
        /\ Ids(Without(table, u.id) \cup {v}) = Ids(table)
    BY <2>4, <2>5, UserPut
  <2> QED BY <2>3, <2>6
<1> QED BY <1>1, <1>2

\* AdminUpdate: another e-mail, refused when it is taken.
LEMMA UserUpdated ==
  ASSUME NEW n \in Nat, NEW table, UsersFit(table, n), NEW id, NEW email \in Mails
  PROVE  LET after == After(AdminUpdate(table, id, email, "none"), table)
         IN  UsersFit(after, n) /\ Ids(after) = Ids(table)
<1> DEFINE changed == AdminUpdateUser(table, id, email, "none")
<1>1. CASE ~Succeeds(AdminUpdate(table, id, email, "none"))
  BY <1>1 DEF After
<1>2. CASE Succeeds(AdminUpdate(table, id, email, "none"))
  <2>1. /\ GetUserByID(table, id) # {}
        /\ ~\E u \in RowsOf(changed, id) : UserConflict(changed, u)
        /\ After(AdminUpdate(table, id, email, "none"), table) = changed
    BY <1>2, NotFound DEF AdminUpdate, After, Ok
  <2>2. PICK u \in table : u.id = id
    BY <2>1 DEF GetUserByID, RowsOf
  <2>3. RowsOf(table, id) = {u} /\ u \in UserRows
    BY <2>2, UserOf
  <2> DEFINE v == [u EXCEPT !.email = IF email = "none" THEN @ ELSE email,
                            !.password = IF "none" = "none" THEN @ ELSE "none"]
  <2>4. changed = Without(table, u.id) \cup {v}
    BY <2>2, <2>3 DEF AdminUpdateUser
  <2>5. v \in UserRows /\ v.id = u.id /\ v.handle = u.handle
    BY <2>3 DEF UserRows
  <2> HIDE DEF v, changed
  <2>6. v \in RowsOf(changed, id) /\ ~UserConflict(changed, v)
    BY <2>1, <2>2, <2>4, <2>5 DEF RowsOf
  <2>7. \A w \in table : w.id # u.id => w.email # v.email /\ w.handle # v.handle
    BY <2>4, <2>5, <2>6 DEF UserConflict, Without
  <2>8. /\ UsersFit(Without(table, u.id) \cup {v}, n)
        /\ Ids(Without(table, u.id) \cup {v}) = Ids(table)
    BY <2>5, <2>7, UserPut
  <2> QED BY <2>1, <2>4, <2>8
<1> QED BY <1>1, <1>2

\* INSERT with a number that was not used.
LEMMA UserInserted ==
  ASSUME NEW n \in Nat, NEW table, UsersFit(table, n), NEW email \in Mails, NEW handle \in Handles \cup {"none"},
         Succeeds(UserRepoCreate(table, User(n + 1, email, "none", handle, "secret")))
  PROVE  LET after == UserRepoCreate(table, User(n + 1, email, "none", handle, "secret")).val
         IN  UsersFit(after, n + 1) /\ Ids(after) = Ids(table) \cup {n + 1}
<1> DEFINE v == User(n + 1, email, "none", handle, "secret")
<1>1. v \in UserRows /\ v.id = n + 1
  BY DEF User, UserRows, Standings
<1> HIDE DEF v
<1>2. ~UserConflict(table, v) /\ UserRepoCreate(table, v).val = table \cup {v}
  BY NotFound DEF UserRepoCreate, CreateUser, Ok, v
<1>3. \A w \in table : w.id \in Nat /\ w.id <= n /\ w \in UserRows
  BY DEF UsersFit, UserRows
<1>4. \A w \in table : w.id # v.id /\ w.email # v.email /\ w.handle # v.handle
  BY <1>1, <1>2, <1>3 DEF UserConflict, Without
<1>5. UsersFit(table \cup {v}, n + 1)
  BY <1>1, <1>3, <1>4 DEF UsersFit
<1>6. Ids(table \cup {v}) = Ids(table) \cup {n + 1}
  BY <1>1 DEF Ids
<1> QED BY <1>2, <1>5, <1>6 DEF v

LEMMA StaffOf ==
  ASSUME NEW table, NEW n, StaffFit(table, n), NEW s \in table
  PROVE  RowsOf(table, s.id) = {s} /\ s \in StaffRows /\ s.id \in Nat /\ s.id <= n
BY DEF StaffFit, RowsOf, StaffRows

LEMMA StaffPut ==
  ASSUME NEW n \in Nat, NEW table, StaffFit(table, n), NEW s \in table, NEW v \in StaffRows, v.id = s.id,
         \A w \in table : w.id # s.id => w.email # v.email
  PROVE  /\ StaffFit(Without(table, s.id) \cup {v}, n)
         /\ Ids(Without(table, s.id) \cup {v}) = Ids(table)
<1> DEFINE after == Without(table, s.id) \cup {v}
<1>1. \A w \in after : w = v \/ (w \in table /\ w.id # s.id)
  BY DEF Without
<1>2. after \subseteq StaffRows /\ \A w \in after : w.id <= n
  BY <1>1 DEF StaffFit
<1>3. \A a, b \in after : (a.id = b.id \/ a.email = b.email) => a = b
  BY <1>1 DEF StaffFit
<1>4. \A id : id \in Ids(after) <=> id \in Ids(table)
  BY DEF Ids, Without
<1> QED BY <1>2, <1>3, <1>4 DEF StaffFit

LEMMA StaffMarked ==
  ASSUME NEW n \in Nat, NEW table, StaffFit(table, n), NEW id, NEW status \in Standings
  PROVE  LET after == After(StaffUpdateStatus(table, id, status), table)
         IN  StaffFit(after, n) /\ Ids(after) = Ids(table)
<1>1. CASE RowsOf(table, id) = {}
  BY <1>1 DEF StaffUpdateStatus, After, Succeeds, Fail
<1>2. CASE RowsOf(table, id) # {}
  <2>1. PICK s \in table : s.id = id
    BY <1>2 DEF RowsOf
  <2>2. RowsOf(table, id) = {s} /\ s \in StaffRows
    BY <2>1, StaffOf
  <2> DEFINE v == [s EXCEPT !.status = status]
  <2>3. After(StaffUpdateStatus(table, id, status), table) = Without(table, s.id) \cup {v}
    BY <1>2, <2>1, <2>2 DEF StaffUpdateStatus, After, Succeeds, Ok
  <2>4. v \in StaffRows /\ v.id = s.id /\ v.email = s.email
    BY <2>2 DEF StaffRows
  <2>5. \A w \in table : w.id # s.id => w.email # v.email
    BY <2>4 DEF StaffFit
  <2> HIDE DEF v
  <2>6. /\ StaffFit(Without(table, s.id) \cup {v}, n)
        /\ Ids(Without(table, s.id) \cup {v}) = Ids(table)
    BY <2>4, <2>5, StaffPut
  <2> QED BY <2>3, <2>6
<1> QED BY <1>1, <1>2

LEMMA StaffUpdated ==
  ASSUME NEW n \in Nat, NEW table, StaffFit(table, n), NEW id, NEW email \in Mails
  PROVE  LET after == After(StaffUpdate(table, id, email, "none"), table)
         IN  StaffFit(after, n) /\ Ids(after) = Ids(table)
<1>1. CASE ~Succeeds(StaffUpdate(table, id, email, "none"))
  BY <1>1 DEF After
<1>2. CASE Succeeds(StaffUpdate(table, id, email, "none"))
  <2> DEFINE changed(s) == [s EXCEPT !.email = IF email = "none" THEN @ ELSE email,
                                     !.password = IF "none" = "none" THEN @ ELSE "none"]
  <2>1. /\ Succeeds(StaffGetByID(table, id))
        /\ ~\E s \in Without(table, id) : s.email = email
        /\ StaffUpdate(table, id, email, "none")
             = Ok(Without(table, id) \cup {changed(s) : s \in RowsOf(table, id)})
    BY <1>2 DEF StaffUpdate, Succeeds, Fail
  <2>2. RowsOf(table, id) # {}
    BY <2>1 DEF StaffGetByID, OneRow, Succeeds, Fail
  <2>3. PICK s \in table : s.id = id
    BY <2>2 DEF RowsOf
  <2>4. RowsOf(table, id) = {s} /\ s \in StaffRows
    BY <2>3, StaffOf
  <2>5. After(StaffUpdate(table, id, email, "none"), table) = Without(table, s.id) \cup {changed(s)}
    BY <1>2, <2>1, <2>3, <2>4 DEF After, Ok
  <2>6. changed(s) \in StaffRows /\ changed(s).id = s.id
        /\ changed(s).email = IF email = "none" THEN s.email ELSE email
    BY <2>4 DEF StaffRows
  <2> HIDE DEF changed
  <2>7. \A w \in table : w.id # s.id => w.email # changed(s).email
    BY <2>1, <2>3, <2>6 DEF Without, StaffFit
  <2>8. /\ StaffFit(Without(table, s.id) \cup {changed(s)}, n)
        /\ Ids(Without(table, s.id) \cup {changed(s)}) = Ids(table)
    BY <2>6, <2>7, StaffPut
  <2> QED BY <2>5, <2>8
<1> QED BY <1>1, <1>2

LEMMA StaffInserted ==
  ASSUME NEW n \in Nat, NEW table, StaffFit(table, n), NEW email \in Mails,
         Succeeds(StaffCreate(table, StaffMember(n + 1, email, "secret")))
  PROVE  LET after == StaffCreate(table, StaffMember(n + 1, email, "secret")).val
         IN  StaffFit(after, n + 1) /\ Ids(after) = Ids(table) \cup {n + 1}
<1> DEFINE v == StaffMember(n + 1, email, "secret")
<1>1. v \in StaffRows /\ v.id = n + 1
  BY DEF StaffMember, StaffRows, Standings
<1> HIDE DEF v
<1>2. (\A w \in table : w.email # v.email) /\ StaffCreate(table, v).val = table \cup {v}
  BY NotFound DEF StaffCreate, Ok, v
<1>3. \A w \in table : w.id \in Nat /\ w.id <= n /\ w \in StaffRows
  BY DEF StaffFit, StaffRows
<1>4. StaffFit(table \cup {v}, n + 1)
  BY <1>1, <1>2, <1>3 DEF StaffFit
<1>5. Ids(table \cup {v}) = Ids(table) \cup {n + 1}
  BY <1>1 DEF Ids
<1> QED BY <1>2, <1>4, <1>5 DEF v

\* Roles and permissions have the same statements.
LEMMA NameInserted ==
  ASSUME NEW n \in Nat, NEW table, NamesFit(table, n), NEW name \in Titles,
         ~NameConflict(table, Named(n + 1, name))
  PROVE  /\ NamesFit(table \cup {Named(n + 1, name)}, n + 1)
         /\ Ids(table \cup {Named(n + 1, name)}) = Ids(table) \cup {n + 1}
<1> DEFINE v == Named(n + 1, name)
<1>1. v \in NamedRows /\ v.id = n + 1
  BY DEF Named, NamedRows
<1> HIDE DEF v
<1>2. \A w \in table : w.id \in Nat /\ w.id <= n /\ w \in NamedRows
  BY DEF NamesFit, NamedRows
<1>3. \A w \in table : w.name # v.name
  BY <1>1, <1>2 DEF NameConflict, Without, v
<1>4. NamesFit(table \cup {v}, n + 1)
  BY <1>1, <1>2, <1>3 DEF NamesFit
<1>5. Ids(table \cup {v}) = Ids(table) \cup {n + 1}
  BY <1>1 DEF Ids
<1> QED BY <1>4, <1>5 DEF v

LEMMA NameWritten ==
  ASSUME NEW n \in Nat, NEW table, NamesFit(table, n), NEW id, NEW name \in Titles,
         RowsOf(table, id) = {} \/ ~NameConflict(table, Named(id, name))
  PROVE  NamesFit(UpdateRole(table, id, name), n) /\ Ids(UpdateRole(table, id, name)) = Ids(table)
<1> DEFINE after == Without(table, id) \cup {[r EXCEPT !.name = name] : r \in RowsOf(table, id)}
<1>1. CASE RowsOf(table, id) = {}
  <2>1. after = table
    BY <1>1 DEF RowsOf, Without
  <2> QED BY <2>1 DEF UpdateRole
<1>2. CASE RowsOf(table, id) # {} /\ ~NameConflict(table, Named(id, name))
  <2>1. PICK r \in table : r.id = id
    BY <1>2 DEF RowsOf
  <2>2. r \in NamedRows /\ r.id <= n /\ RowsOf(table, id) = {r}
    BY <2>1 DEF NamesFit, RowsOf
  <2> DEFINE v == [r EXCEPT !.name = name]
  <2>3. v \in NamedRows /\ v.id = id /\ v.name = name
    BY <2>1, <2>2 DEF NamedRows
  <2>4. after = Without(table, id) \cup {v}
    BY <2>2
  <2>5. \A w \in table : w.id # id => w.name # name
    BY <1>2 DEF NameConflict, Without, Named
  <2> HIDE DEF v, after
  <2>6. \A w \in after : w = v \/ (w \in table /\ w.id # id)
    BY <2>4 DEF Without
  <2>7. after \subseteq NamedRows /\ \A w \in after : w.id <= n
    BY <2>1, <2>2, <2>3, <2>6 DEF NamesFit
  <2>8. \A a, b \in after : (a.id = b.id \/ a.name = b.name) => a = b
    BY <2>3, <2>5, <2>6 DEF NamesFit
  <2>9. \A i : i \in Ids(after) <=> i \in Ids(table)
    BY <2>1, <2>3, <2>4 DEF Ids, Without
  <2> QED BY <2>7, <2>8, <2>9 DEF NamesFit, after, UpdateRole
<1> QED BY <1>1, <1>2 DEF UpdateRole

-----------------------------------------------------------------------------
(* Calls *)

LEMMA NoActFits == NoAct \in ActRecords /\ NoAct.step = "idle" /\ NoAct.op = "idle"
BY DEF NoAct, ActRecords, ActOps, Mails, Titles

\* A request: whatever it names has the type of the column.
LEMMA RequestFits ==
  ASSUME TablesFit,
         NEW r \in UserAndStaffRequests \cup RoleRequests \cup PermissionRequests
  PROVE  /\ DOMAIN r \subseteq {"op", "who", "email", "role", "name"}
         /\ "op" \in DOMAIN r /\ r.op \in ActOps
         /\ "who" \in DOMAIN r => r.who \in Nat
         /\ "email" \in DOMAIN r => r.email \in Mails
         /\ "role" \in DOMAIN r => r.role \in Nat
         /\ "name" \in DOMAIN r => r.name \in Titles
<1> DEFINE fits ==
         /\ DOMAIN r \subseteq {"op", "who", "email", "role", "name"}
         /\ "op" \in DOMAIN r /\ r.op \in ActOps
         /\ "who" \in DOMAIN r => r.who \in Nat
         /\ "email" \in DOMAIN r => r.email \in Mails
         /\ "role" \in DOMAIN r => r.role \in Nat
         /\ "name" \in DOMAIN r => r.name \in Titles
<1>1. /\ Ids(userT) \subseteq Nat /\ Ids(staffT) \subseteq Nat
      /\ Ids(roleT) \subseteq Nat /\ Ids(permT) \subseteq Nat
  BY DEF TablesFit, Ids, UsersFit, StaffFit, NamesFit, UserRows, StaffRows, NamedRows
<1>2. /\ Emails \subseteq Mails /\ AdminEmail \in Mails /\ RoleNames \subseteq Titles
      /\ {"admin", "dashboard.read", "users.read"} \subseteq Titles
  BY AccountsAssumption DEF Mails, Titles, protectedRoles
<1>3. CASE r \in CreateUserRequests \cup CreateStaffRequests \cup SeedRequests
  <2>1. /\ DOMAIN r = {"op", "email", "name"} /\ r.op \in {"createuser", "createstaff", "seed"}
        /\ r.email \in Emails \cup {AdminEmail} /\ r.name \in RoleNames \cup {"admin"}
    BY <1>3 DEF CreateUserRequests, CreateStaffRequests, SeedRequests
  <2> QED BY <2>1, <1>2 DEF ActOps
<1>4. CASE r \in UpdateUserRequests \cup UpdateStaffRequests
  <2>1. /\ DOMAIN r = {"op", "who", "email"} /\ r.op \in {"updateuser", "updatestaff"}
        /\ r.email \in Emails /\ r.who \in Nat
    BY <1>4, <1>1 DEF UpdateUserRequests, UpdateStaffRequests
  <2> QED BY <2>1, <1>2 DEF ActOps
<1>5. CASE r \in UserStatusRequests \cup StaffStatusRequests \cup PictureRequests
                 \cup UpdatePermissionRequests \cup DeletePermissionRequests
  <2>1. CASE r \in UpdatePermissionRequests
    <3>1. /\ DOMAIN r = {"op", "who", "name"} /\ r.op = "updateperm"
          /\ r.name = "users.read" /\ r.who \in Nat
      BY <2>1, <1>1 DEF UpdatePermissionRequests
    <3> QED BY <3>1, <1>2 DEF ActOps
  <2>2. CASE r \notin UpdatePermissionRequests
    <3>1. /\ DOMAIN r = {"op", "who"} /\ r.who \in Nat
          /\ r.op \in {"pending", "active", "suspended", "deleted", "picture", "deleteperm"}
      BY <2>2, <1>5, <1>1
         DEF UserStatusRequests, StaffStatusRequests, PictureRequests, DeletePermissionRequests
    <3> QED BY <3>1 DEF ActOps
  <2> QED BY <2>1, <2>2
<1>6. CASE r \in CreateRoleRequests \cup CreatePermissionRequests
  <2>1. /\ DOMAIN r = {"op", "name"} /\ r.op \in {"createrole", "createperm"}
        /\ r.name \in RoleNames \cup {"dashboard.read"}
    BY <1>6 DEF CreateRoleRequests, CreatePermissionRequests
  <2> QED BY <2>1, <1>2 DEF ActOps
<1>7. CASE r \in UpdateRoleRequests \cup DeleteRoleRequests
  <2>1. CASE r \in [op : {"renamerole"}, role : Ids(roleT), name : RoleNames]
    <3>1. /\ DOMAIN r = {"op", "role", "name"} /\ r.op = "renamerole"
          /\ r.role \in Nat /\ r.name \in RoleNames
      BY <2>1, <1>1
    <3> QED BY <3>1, <1>2 DEF ActOps
  <2>2. CASE r \in [op : {"describerole"}, role : Ids(roleT)] \cup [op : {"deleterole"}, role : Ids(roleT)]
    <3>1. DOMAIN r = {"op", "role"} /\ r.op \in {"describerole", "deleterole"} /\ r.role \in Nat
      BY <2>2, <1>1
    <3> QED BY <3>1 DEF ActOps
  <2> QED BY <1>7, <2>1, <2>2 DEF UpdateRoleRequests, DeleteRoleRequests
<1>8. CASE r \in AssignRoleRequests \cup RemoveRoleRequests \cup GrantRequests \cup RevokeRequests
  <2>1. /\ DOMAIN r = {"op", "who", "role"} /\ r.op \in {"assign", "remove", "grant", "revoke"}
        /\ r.who \in Nat /\ r.role \in Nat
    BY <1>8, <1>1 DEF AssignRoleRequests, RemoveRoleRequests, GrantRequests, RevokeRequests
  <2> QED BY <2>1 DEF ActOps
<1> QED BY <1>3, <1>4, <1>5, <1>6, <1>7, <1>8 DEF UserAndStaffRequests, RoleRequests, PermissionRequests

LEMMA CallStarted ==
  ASSUME TablesFit,
         NEW r \in UserAndStaffRequests \cup RoleRequests \cup PermissionRequests
  PROVE  LET call == [f \in DOMAIN NoAct |->
                        CASE f = "step" -> "read"
                          [] f \in DOMAIN r -> r[f]
                          [] OTHER -> NoAct[f]]
         IN  call \in ActRecords /\ call.step = "read"
<1> DEFINE call == [f \in DOMAIN NoAct |->
                      CASE f = "step" -> "read"
                        [] f \in DOMAIN r -> r[f]
                        [] OTHER -> NoAct[f]]
<1> DEFINE of(f, v) == IF f \in DOMAIN r THEN r[f] ELSE v
<1>1. /\ DOMAIN NoAct = {"op", "step", "who", "email", "handle", "role", "name", "todo"}
      /\ DOMAIN r \subseteq {"op", "who", "email", "role", "name"}
  BY RequestFits DEF NoAct
<1>2. call = [op |-> r.op, step |-> "read", who |-> of("who", 0), email |-> of("email", "none"),
              handle |-> "none", role |-> of("role", 0), name |-> of("name", "none"), todo |-> {}]
  <2>1. /\ NoAct.who = 0 /\ NoAct.email = "none" /\ NoAct.handle = "none" /\ NoAct.role = 0
        /\ NoAct.name = "none" /\ NoAct.todo = {}
    BY DEF NoAct
  <2>2. /\ call.op = r.op /\ call.step = "read" /\ call.who = of("who", 0)
        /\ call.email = of("email", "none") /\ call.handle = "none" /\ call.role = of("role", 0)
        /\ call.name = of("name", "none") /\ call.todo = {}
    BY <1>1, <2>1, RequestFits
  <2> QED BY <1>1, <2>2
<1>3. /\ r.op \in ActOps /\ of("who", 0) \in Nat /\ of("email", "none") \in Mails
      /\ of("role", 0) \in Nat /\ of("name", "none") \in Titles
  BY RequestFits DEF Mails, Titles
<1> HIDE DEF call, of
<1> QED BY <1>2, <1>3 DEF ActRecords, call

\* What a step has to keep to: its call goes on, the rows it adds are its own,
\* and what it takes away it remembers.
LEMMA StepKeeps ==
  ASSUME AccInv, TablesFit', NEW c \in AdminCalls, NEW call \in ActRecords,
         adminCalls' = [adminCalls EXCEPT ![c] = call],
         \A id \in (Ids(userT) \cup Ids(staffT))' :
           id \in Ids(userT) \cup Ids(staffT) \/ (call.step = "finish" /\ call.who = id),
         \A p \in userRoles : p \in userRoles' \/ p[1] \in stripped',
         \A p \in staffRoles : p \in staffRoles' \/ p[1] \in stripped',
         halfMade \subseteq halfMade', stripped \subseteq stripped', renamed \subseteq renamed',
         adminCalls[c].step = "finish" =>
           \/ call.step = "finish" /\ call.who = adminCalls[c].who
           \/ adminCalls[c].who \in halfMade' \cup stripped'
           \/ \E p \in userRoles' \cup staffRoles' : p[1] = adminCalls[c].who,
         call.op = "createuser" /\ call.step = "finish" /\ "assign" \notin call.todo =>
           \/ \E p \in userRoles' : p[1] = call.who
           \/ call.who \in stripped',
         \A r \in roleT :
           \/ r \in roleT' \/ r.name \in renamed' \/ r.name \notin protectedRoles
           \/ Deleting(adminCalls[c]) /\ adminCalls[c].role = r.id,
         Deleting(call) => \A r \in roleT' : r.id = call.role => r.name \notin protectedRoles
  PROVE  AccInv'
<1>1. /\ adminCalls' \in [AdminCalls -> ActRecords]
      /\ \A d \in AdminCalls : adminCalls'[d] = IF d = c THEN call ELSE adminCalls[d]
  BY DEF AccInv, ActsFit
<1>2. ActsFit'
  BY <1>1 DEF ActsFit
<1>3. Explained'
  <2> SUFFICES ASSUME NEW id \in (Ids(userT) \cup Ids(staffT))'
               PROVE  \/ HasRole(id)' \/ id \in halfMade' \cup stripped'
                      \/ \E d \in AdminCalls : adminCalls'[d].who = id /\ adminCalls'[d].step = "finish"
    BY DEF Explained
  <2>1. CASE call.step = "finish" /\ call.who = id
    BY <2>1, <1>1
  <2>2. CASE HasRole(id)
    <3>1. PICK p \in userRoles \cup staffRoles : p[1] = id
      BY <2>2 DEF HasRole
    <3>2. p \in userRoles' \cup staffRoles' \/ id \in stripped'
      BY <3>1
    <3> QED BY <3>1, <3>2 DEF HasRole
  <2>3. CASE id \in halfMade \cup stripped
    BY <2>3
  <2>4. ASSUME NEW d \in AdminCalls, adminCalls[d].who = id, adminCalls[d].step = "finish"
        PROVE  \/ HasRole(id)' \/ id \in halfMade' \cup stripped'
               \/ \E e \in AdminCalls : adminCalls'[e].who = id /\ adminCalls'[e].step = "finish"
    <3>1. CASE d # c
      BY <3>1, <2>4, <1>1
    <3>2. CASE d = c
      BY <3>2, <2>4, <1>1 DEF HasRole
    <3> QED BY <3>1, <3>2
  <2> QED BY <2>1, <2>2, <2>3, <2>4 DEF AccInv, Explained
<1>4. Assigned'
  <2> SUFFICES ASSUME NEW d \in AdminCalls, adminCalls'[d].op = "createuser",
                      adminCalls'[d].step = "finish", "assign" \notin adminCalls'[d].todo
               PROVE  \/ \E p \in userRoles' : p[1] = adminCalls'[d].who
                      \/ adminCalls'[d].who \in stripped'
    BY DEF Assigned, Doing
  <2>1. CASE d = c
    BY <2>1, <1>1
  <2>2. CASE d # c
    <3>1. \/ \E p \in userRoles : p[1] = adminCalls[d].who
          \/ adminCalls[d].who \in stripped
      BY <2>2, <1>1 DEF AccInv, Assigned, Doing
    <3> QED BY <3>1, <2>2, <1>1
  <2> QED BY <2>1, <2>2
<1>5. Reserved'
  <2> SUFFICES ASSUME NEW name \in protectedRoles \ renamed'
               PROVE  \E r \in roleT' :
                        /\ r.name = name
                        /\ \A d \in AdminCalls : Deleting(adminCalls'[d]) => adminCalls'[d].role # r.id
    BY DEF Reserved, Deleting
  <2>1. PICK r \in roleT :
          r.name = name /\ \A d \in AdminCalls : Deleting(adminCalls[d]) => adminCalls[d].role # r.id
    BY DEF AccInv, Reserved
  <2>2. r \in roleT'
    BY <2>1
  <2>3. ASSUME NEW d \in AdminCalls, Deleting(adminCalls'[d]) PROVE adminCalls'[d].role # r.id
    BY <2>1, <2>2, <2>3, <1>1
  <2> QED BY <2>1, <2>2, <2>3
<1> QED BY <1>2, <1>3, <1>4, <1>5 DEF AccInv

\* Statements that only read.
LEMMA ReadsKeep ==
  ASSUME AccInv, NEW c \in AdminCalls, NEW op, NEW goesOn, NEW call, goesOn \in BOOLEAN,
         goesOn => call \in ActRecords /\ call.step \in {"insert", "write"},
         goesOn /\ Deleting(call) => \A r \in roleT : r.id = call.role => r.name \notin protectedRoles,
         Reads(c, op, goesOn, call)
  PROVE  AccInv'
<1> DEFINE next == IF goesOn THEN call ELSE NoAct
<1>1. /\ adminCalls[c].step = "read" /\ adminCalls' = [adminCalls EXCEPT ![c] = next]
      /\ UNCHANGED <<accountRows, halfMade, stripped, renamed>>
  BY DEF Reads
<1>2. next \in ActRecords /\ next.step # "finish"
      /\ (Deleting(next) => \A r \in roleT : r.id = next.role => r.name \notin protectedRoles)
  BY NoActFits DEF Deleting
<1>3. TablesFit'
  BY <1>1 DEF accountRows, AccInv, TablesFit, UsersFit, StaffFit, NamesFit, PairsFit, Ids
<1> HIDE DEF next
<1> QED BY <1>1, <1>2, <1>3, StepKeeps DEF accountRows, Ids

\* The statement that ends a call, other than those of a creation.
LEMMA EndKeeps ==
  ASSUME AccInv, TablesFit', NEW c \in AdminCalls, Over(c), adminCalls[c].step # "finish",
         (Ids(userT) \cup Ids(staffT))' \subseteq Ids(userT) \cup Ids(staffT),
         \A p \in userRoles : p \in userRoles' \/ p[1] \in stripped',
         \A p \in staffRoles : p \in staffRoles' \/ p[1] \in stripped',
         halfMade \subseteq halfMade', stripped \subseteq stripped', renamed \subseteq renamed',
         \A r \in roleT :
           \/ r \in roleT' \/ r.name \in renamed' \/ r.name \notin protectedRoles
           \/ Deleting(adminCalls[c]) /\ adminCalls[c].role = r.id
  PROVE  AccInv'
<1>1. adminCalls' = [adminCalls EXCEPT ![c] = NoAct] /\ ~Deleting(NoAct)
  BY NoActFits DEF Over, Deleting
<1> QED BY <1>1, NoActFits, StepKeeps

\* Tables whose rows and pairs fit, however they came to be.
LEMMA TablesGrow ==
  ASSUME TablesFit, rows' \in Nat, UsersFit(userT', rows'), StaffFit(staffT', rows'),
         NamesFit(roleT', rows'), NamesFit(permT', rows'), Ids(userT)' = Ids(pinT)',
         Ids(userT) \subseteq Ids(userT)', Ids(staffT) \subseteq Ids(staffT)',
         Ids(roleT) \subseteq Ids(roleT)', Ids(permT) \subseteq Ids(permT)',
         \A p \in userRoles' : p \in userRoles \/ (p[1] \in Ids(userT)' /\ p[2] \in Ids(roleT)'),
         \A p \in staffRoles' : p \in staffRoles \/ (p[1] \in Ids(staffT)' /\ p[2] \in Ids(roleT)'),
         \A p \in grants' : p \in grants \/ (p[1] \in Ids(roleT)' /\ p[2] \in Ids(permT)')
  PROVE  TablesFit'
<1>1. /\ PairsFit(userRoles, userT, roleT)' /\ PairsFit(staffRoles, staffT, roleT)'
      /\ PairsFit(grants, roleT, permT)'
  BY DEF TablesFit, PairsFit
<1>2. /\ UsersFit(userT, rows)' /\ StaffFit(staffT, rows)' /\ NamesFit(roleT, rows)'
      /\ NamesFit(permT, rows)'
  BY DEF UsersFit, StaffFit, NamesFit
<1> QED BY <1>1, <1>2 DEF TablesFit

LEMMA RowFound ==
  ASSUME NEW table, NEW cause, Succeeds(OneRow(table, MapDBErrors(cause)))
  PROVE  table # {} /\ OneRow(table, MapDBErrors(cause)).val \in table
BY NotFound, Found DEF OneRow

LEMMA CallOf ==
  ASSUME AccInv, NEW c \in AdminCalls
  PROVE  adminCalls[c] \in ActRecords
BY DEF AccInv, ActsFit

\* A name found in the table of roles.
LEMMA RoleFound ==
  ASSUME TablesFit, NEW name
  PROVE  LET role == RoleGetByName(roleT, name)
         IN  (IF Succeeds(role) THEN role.val.id ELSE 0) \in Nat
<1> DEFINE role == RoleGetByName(roleT, name)
<1>1. Succeeds(role) => role.val \in roleT
  BY RowFound DEF RoleGetByName, GetRoleByName
<1>2. \A r \in roleT : r.id \in Nat
  BY DEF TablesFit, NamesFit, NamedRows
<1> HIDE DEF role
<1>3. (IF Succeeds(role) THEN role.val.id ELSE 0) \in Nat
  BY <1>1, <1>2
<1> QED BY <1>3 DEF role

LEMMA PrepareUserKeeps ==
  ASSUME AccInv, NEW c \in AdminCalls, PrepareUser(c)
  PROVE  AccInv'
<1> DEFINE role == RoleGetByName(roleT, adminCalls[c].name)
           unique == CheckUniqueFields(userT, adminCalls[c].email, "none")
           id == IF Succeeds(role) THEN role.val.id ELSE 0
<1>1. PICK h \in Handles :
        Reads(c, "createuser", Succeeds(role) /\ Succeeds(unique) /\ generateHandle(h),
              [adminCalls[c] EXCEPT !.step = "insert", !.handle = h, !.role = id])
  BY DEF PrepareUser
<1>2. id \in Nat /\ adminCalls[c] \in ActRecords
  BY RoleFound, CallOf DEF AccInv
<1> HIDE DEF role, unique, id
<1> DEFINE goesOn == Succeeds(role) /\ Succeeds(unique) /\ generateHandle(h)
           call == [adminCalls[c] EXCEPT !.step = "insert", !.handle = h, !.role = id]
<1>4. call \in ActRecords /\ call.step = "insert"
  BY <1>2 DEF ActRecords
<1>5. goesOn \in BOOLEAN
  BY DEF generateHandle
<1>6. ~Deleting(call)
  BY <1>4 DEF Deleting
<1>7. Reads(c, "createuser", goesOn, call)
  BY <1>1
<1> HIDE DEF goesOn, call
<1> QED BY <1>4, <1>5, <1>6, <1>7, ReadsKeep

LEMMA InsertUserKeeps ==
  ASSUME AccInv, NEW c \in AdminCalls, InsertUser(c)
  PROVE  AccInv'
<1> DEFINE x == adminCalls[c]
           inserted == UserRepoCreate(userT, User(rows + 1, x.email, "none", x.handle, "secret"))
<1>1. /\ x.op = "createuser" /\ x.step = "insert"
      /\ userT' = After(inserted, userT)
      /\ IF Succeeds(inserted)
         THEN /\ rows' = rows + 1 /\ pinT' = PinRepoCreate(pinT, rows + 1, "pin").val
              /\ adminCalls' = [adminCalls EXCEPT ![c].step = "finish", ![c].who = rows + 1,
                                                  ![c].todo = {"verify", "assign"}]
         ELSE Over(c) /\ UNCHANGED <<rows, pinT>>
      /\ UNCHANGED <<staffT, roleT, permT, userRoles, staffRoles, grants>>
      /\ UNCHANGED <<halfMade, stripped, renamed>>
  BY DEF InsertUser, Doing, Remembered
<1>2. x \in ActRecords /\ x.email \in Mails /\ x.handle \in Handles \cup {"none"}
  BY CallOf DEF ActRecords
<1>3. /\ TablesFit /\ rows \in Nat /\ UsersFit(userT, rows) /\ adminCalls \in [AdminCalls -> ActRecords]
  BY DEF AccInv, TablesFit, ActsFit
<1>4. CASE ~Succeeds(inserted)
  <2>1. TablesFit'
    BY <1>1, <1>3, <1>4 DEF After, TablesFit, UsersFit, StaffFit, NamesFit, PairsFit, Ids
  <2> QED BY <1>1, <1>4, <2>1, EndKeeps DEF After
<1>5. CASE Succeeds(inserted)
  <2>1. UsersFit(userT', rows + 1) /\ Ids(userT') = Ids(userT) \cup {rows + 1}
    BY <1>1, <1>2, <1>3, <1>5, UserInserted DEF After
  <2>2. pinT' = pinT \cup {Pin(rows + 1, "pin")}
    <3>1. \A p \in pinT : p.id \in Ids(userT)
      BY <1>3 DEF TablesFit, Ids
    <3>2. rows + 1 \notin Ids(userT)
      BY <1>3 DEF UsersFit, UserRows, Ids
    <3>3. RowsOf(pinT, rows + 1) = {}
      BY <3>1, <3>2 DEF RowsOf
    <3> QED BY <3>3, <1>1, <1>5 DEF PinRepoCreate, PINExists, CreatePIN, Ok
  <2>3. Ids(pinT') = Ids(pinT) \cup {rows + 1}
    <3>1. Pin(rows + 1, "pin").id = rows + 1
      BY DEF Pin
    <3> QED BY <2>2, <3>1 DEF Ids
  <2>4. /\ StaffFit(staffT, rows + 1) /\ NamesFit(roleT, rows + 1) /\ NamesFit(permT, rows + 1)
    BY <1>3 DEF TablesFit, StaffFit, NamesFit, StaffRows, NamedRows
  <2>5. TablesFit'
    <3>1. Ids(userT)' = Ids(pinT)' /\ Ids(userT) \subseteq Ids(userT)'
      BY <1>3, <2>1, <2>3 DEF TablesFit, Ids
    <3>2. /\ UsersFit(userT', rows') /\ StaffFit(staffT', rows') /\ NamesFit(roleT', rows')
          /\ NamesFit(permT', rows') /\ rows' \in Nat
      BY <1>1, <1>3, <1>5, <2>1, <2>4
    <3>3. Ids(staffT)' = Ids(staffT) /\ Ids(roleT)' = Ids(roleT) /\ Ids(permT)' = Ids(permT)
      BY <1>1 DEF Ids
    <3>4. userRoles' = userRoles /\ staffRoles' = staffRoles /\ grants' = grants
      BY <1>1
    <3> HIDE DEF inserted
    <3> QED BY <1>3, <3>1, <3>2, <3>3, <3>4, TablesGrow
  <2> DEFINE call == [x EXCEPT !.step = "finish", !.who = rows + 1, !.todo = {"verify", "assign"}]
  <2>6. call \in ActRecords /\ call.step = "finish" /\ call.who = rows + 1 /\ "assign" \in call.todo
    <3>1. {"verify", "assign"} \in SUBSET {"verify", "assign"} /\ rows + 1 \in Nat
      BY <1>3
    <3>2. /\ call.op = x.op /\ call.step = "finish" /\ call.who = rows + 1
          /\ call.todo = {"verify", "assign"}
      BY <1>2 DEF ActRecords
    <3>3. call \in ActRecords
      BY <1>2, <3>1 DEF ActRecords
    <3> QED BY <3>2, <3>3
  <2>7. adminCalls' = [adminCalls EXCEPT ![c] = call]
    BY <1>1, <1>3, <1>5
  <2>8. \A id \in (Ids(userT) \cup Ids(staffT))' :
          id \in Ids(userT) \cup Ids(staffT) \/ (call.step = "finish" /\ call.who = id)
    BY <1>1, <2>1, <2>6 DEF Ids
  <2>9. ~Deleting(call)
    BY <2>6 DEF Deleting
  <2> HIDE DEF call
  <2> QED BY <1>1, <2>5, <2>6, <2>7, <2>8, <2>9, StepKeeps
<1> QED BY <1>4, <1>5

LEMMA OwnersChange ==
  ASSUME TablesFit, UsersFit(userT', rows), StaffFit(staffT', rows),
         Ids(userT') = Ids(userT), Ids(staffT') = Ids(staffT),
         UNCHANGED <<pinT, roleT, permT, userRoles, staffRoles, grants, rows>>
  PROVE  TablesFit' /\ (Ids(userT) \cup Ids(staffT))' = Ids(userT) \cup Ids(staffT)
<1>1. Ids(userT)' = Ids(userT) /\ Ids(staffT)' = Ids(staffT)
  BY DEF Ids
<1>2. Ids(roleT)' = Ids(roleT) /\ Ids(permT)' = Ids(permT) /\ Ids(pinT)' = Ids(pinT)
  BY DEF Ids
<1>3. /\ UsersFit(userT', rows') /\ StaffFit(staffT', rows') /\ NamesFit(roleT', rows')
      /\ NamesFit(permT', rows') /\ rows' \in Nat /\ Ids(userT)' = Ids(pinT)'
  BY <1>1, <1>2 DEF TablesFit
<1> QED BY <1>1, <1>2, <1>3, TablesGrow

LEMMA VerifyNewUserKeeps ==
  ASSUME AccInv, NEW c \in AdminCalls, VerifyNewUser(c)
  PROVE  AccInv'
<1>1. /\ adminCalls[c].op = "createuser" /\ adminCalls[c].step = "finish"
      /\ userT' = UpdateUserStatus(userT, adminCalls[c].who, "active")
      /\ adminCalls' = [adminCalls EXCEPT ![c].todo = @ \ {"verify"}]
      /\ UNCHANGED <<pinT, staffT, roleT, permT, userRoles, staffRoles, grants, rows>>
      /\ UNCHANGED <<halfMade, stripped, renamed>>
  BY DEF VerifyNewUser, Doing, Remembered, VerifyEmail, UpdateUserStatus
<1>2. TablesFit /\ ActsFit /\ rows \in Nat /\ UsersFit(userT, rows) /\ StaffFit(staffT, rows)
  BY DEF AccInv, TablesFit
<1>3. UsersFit(userT', rows) /\ Ids(userT') = Ids(userT)
  BY <1>1, <1>2, UserMarked DEF Standings
<1>4. TablesFit' /\ (Ids(userT) \cup Ids(staffT))' = Ids(userT) \cup Ids(staffT)
  BY <1>1, <1>2, <1>3, OwnersChange
<1> DEFINE call == [adminCalls[c] EXCEPT !.todo = @ \ {"verify"}]
<1>5. adminCalls' = [adminCalls EXCEPT ![c] = call]
  BY <1>1, <1>2 DEF ActsFit
<1>6. /\ call \in ActRecords /\ call.op = adminCalls[c].op /\ call.step = adminCalls[c].step
      /\ call.who = adminCalls[c].who /\ call.todo = adminCalls[c].todo \ {"verify"}
  BY CallOf DEF ActRecords
<1>7. "assign" \notin call.todo =>
        (\E p \in userRoles' : p[1] = call.who) \/ call.who \in stripped'
  BY <1>1, <1>6 DEF AccInv, Assigned, Doing
<1>8. ~Deleting(call)
  BY <1>1, <1>6 DEF Deleting
<1> HIDE DEF call
<1> QED BY <1>1, <1>4, <1>5, <1>6, <1>7, <1>8, StepKeeps

LEMMA AssignNewUserKeeps ==
  ASSUME AccInv, NEW c \in AdminCalls, AssignNewUser(c)
  PROVE  AccInv'
<1> DEFINE x == adminCalls[c]
           assigned == RoleRepoAssign(userRoles, userT, roleT, x.who, x.role)
<1>1. /\ x.op = "createuser" /\ x.step = "finish"
      /\ userRoles' = After(assigned, userRoles)
      /\ IF Succeeds(assigned)
         THEN /\ adminCalls' = [adminCalls EXCEPT ![c].todo = @ \ {"assign"}]
              /\ UNCHANGED <<userT, halfMade>>
         ELSE /\ Over(c) /\ halfMade' = halfMade \cup {x.who}
              /\ userT' \in {userT, VerifyEmail(userT, x.who)}
      /\ UNCHANGED <<pinT, staffT, roleT, permT, staffRoles, grants, rows, stripped, renamed>>
  BY DEF AssignNewUser, Doing
<1>2. TablesFit /\ ActsFit /\ rows \in Nat /\ UsersFit(userT, rows) /\ StaffFit(staffT, rows)
  BY DEF AccInv, TablesFit
<1>3. CASE ~Succeeds(assigned)
  <2>1. UsersFit(userT', rows) /\ Ids(userT') = Ids(userT)
    <3>1. CASE userT' = userT
      BY <3>1, <1>2
    <3>2. CASE userT' = UpdateUserStatus(userT, x.who, "active")
      BY <3>2, <1>2, UserMarked DEF Standings
    <3> QED BY <3>1, <3>2, <1>1, <1>3 DEF VerifyEmail, UpdateUserStatus
  <2>2. userRoles' = userRoles /\ staffT' = staffT /\ Ids(staffT') = Ids(staffT)
    BY <1>1, <1>3 DEF After
  <2>3. TablesFit' /\ (Ids(userT) \cup Ids(staffT))' = Ids(userT) \cup Ids(staffT)
    BY <1>1, <1>2, <2>1, <2>2, OwnersChange
  <2>4. adminCalls' = [adminCalls EXCEPT ![c] = NoAct] /\ ~Deleting(NoAct)
    BY <1>1, <1>3, NoActFits DEF Over, Deleting
  <2>5. x.who \in halfMade' /\ halfMade \subseteq halfMade'
    BY <1>1, <1>3
  <2> HIDE DEF assigned
  <2> QED BY <1>1, <2>2, <2>3, <2>4, <2>5, NoActFits, StepKeeps
<1>4. CASE Succeeds(assigned)
  <2>1. /\ RowsOf(userT, x.who) # {} /\ RowsOf(roleT, x.role) # {}
        /\ userRoles' = userRoles \cup {<<x.who, x.role>>}
    BY <1>1, <1>4, NotFound DEF RoleRepoAssign, After, AssignRoleToUser, Ok
  <2>2. x.who \in Ids(userT) /\ x.role \in Ids(roleT)
    BY <2>1, IdsOf
  <2>3. /\ Ids(userT)' = Ids(userT) /\ Ids(staffT)' = Ids(staffT) /\ Ids(roleT)' = Ids(roleT)
        /\ Ids(permT)' = Ids(permT) /\ Ids(pinT)' = Ids(pinT)
    BY <1>1, <1>4 DEF Ids
  <2>4. /\ UsersFit(userT', rows') /\ StaffFit(staffT', rows') /\ NamesFit(roleT', rows')
        /\ NamesFit(permT', rows') /\ rows' \in Nat /\ Ids(userT)' = Ids(pinT)'
    BY <1>1, <1>2, <1>4, <2>3 DEF TablesFit
  <2>5. \A p \in userRoles' : p \in userRoles \/ (p[1] \in Ids(userT)' /\ p[2] \in Ids(roleT)')
    BY <2>1, <2>2, <2>3
  <2>6. TablesFit'
    BY <1>1, <1>2, <2>3, <2>4, <2>5, TablesGrow
  <2> DEFINE call == [x EXCEPT !.todo = @ \ {"assign"}]
  <2>7. adminCalls' = [adminCalls EXCEPT ![c] = call]
    BY <1>1, <1>2, <1>4 DEF ActsFit
  <2>8. /\ call \in ActRecords /\ call.op = x.op /\ call.step = x.step /\ call.who = x.who
    BY CallOf DEF ActRecords
  <2>9. ~Deleting(call)
    BY <1>1, <2>8 DEF Deleting
  <2>10. <<x.who, x.role>> \in userRoles' /\ <<x.who, x.role>>[1] = call.who
    BY <2>1, <2>8
  <2>11. halfMade' = halfMade
    BY <1>1, <1>4
  <2> HIDE DEF call, assigned
  <2> QED BY <1>1, <2>1, <2>3, <2>6, <2>7, <2>8, <2>9, <2>10, <2>11, StepKeeps
<1> QED BY <1>3, <1>4

LEMMA UserCreatedKeeps ==
  ASSUME AccInv, NEW c \in AdminCalls, UserCreated(c)
  PROVE  AccInv'
<1>1. /\ adminCalls[c].op = "createuser" /\ adminCalls[c].step = "finish" /\ adminCalls[c].todo = {}
      /\ adminCalls' = [adminCalls EXCEPT ![c] = NoAct]
      /\ UNCHANGED <<accountRows, halfMade, stripped, renamed>>
  BY DEF UserCreated, Doing, Remembered, Over
<1>2. (\E p \in userRoles : p[1] = adminCalls[c].who) \/ adminCalls[c].who \in stripped
  BY <1>1 DEF AccInv, Assigned, Doing
<1>3. TablesFit' /\ ~Deleting(NoAct)
  BY <1>1, NoActFits
     DEF accountRows, AccInv, TablesFit, UsersFit, StaffFit, NamesFit, PairsFit, Ids, Deleting
<1> QED BY <1>1, <1>2, <1>3, NoActFits, StepKeeps DEF accountRows, Ids

\* UpdateUser, SetStatus, DeleteUser, SetPicture, UpdateStaff, DeleteStaff.
LEMMA OwnersKeep ==
  ASSUME AccInv, NEW c \in AdminCalls,
         \/ UpdateUser(c) \/ SetStatus(c) \/ DeleteUser(c) \/ SetPicture(c)
         \/ UpdateStaff(c) \/ DeleteStaff(c)
  PROVE  AccInv'
<1>1. /\ TablesFit /\ rows \in Nat /\ UsersFit(userT, rows) /\ StaffFit(staffT, rows)
      /\ adminCalls[c].email \in Mails
  BY CallOf DEF AccInv, TablesFit, ActRecords
<1>2. /\ adminCalls[c].step = "read" /\ Over(c)
      /\ UNCHANGED <<pinT, roleT, permT, userRoles, staffRoles, grants, rows>>
      /\ UNCHANGED <<halfMade, stripped, renamed>>
  BY DEF UpdateUser, SetStatus, DeleteUser, SetPicture, UpdateStaff, DeleteStaff, Doing, Remembered
<1>3. UsersFit(userT', rows) /\ Ids(userT') = Ids(userT)
  <2>1. CASE UpdateUser(c)
    BY <2>1, <1>1, UserUpdated DEF UpdateUser
  <2>2. CASE SetStatus(c)
    <3>1. /\ userT' = UpdateUserStatus(userT, adminCalls[c].who, adminCalls[c].op)
          /\ adminCalls[c].op \in Standings
      BY <2>2 DEF SetStatus, Doing, Standings
    <3> QED BY <3>1, <1>1, UserMarked
  <2>3. CASE DeleteUser(c)
    <3>1. userT' = UpdateUserStatus(userT, adminCalls[c].who, "deleted") /\ "deleted" \in Standings
      BY <2>3 DEF DeleteUser, SoftDeleteUser, UpdateUserStatus, Standings
    <3> QED BY <3>1, <1>1, UserMarked
  <2>4. CASE SetPicture(c)
    BY <2>4, <1>1, UserPictured DEF SetPicture
  <2>5. CASE UpdateStaff(c) \/ DeleteStaff(c)
    BY <2>5, <1>1 DEF UpdateStaff, DeleteStaff
  <2> QED BY <2>1, <2>2, <2>3, <2>4, <2>5
<1>4. StaffFit(staffT', rows) /\ Ids(staffT') = Ids(staffT)
  <2>1. CASE UpdateStaff(c)
    BY <2>1, <1>1, StaffUpdated DEF UpdateStaff
  <2>2. CASE SetStatus(c)
    <3>1. /\ staffT' = After(StaffUpdateStatus(staffT, adminCalls[c].who, adminCalls[c].op), staffT)
          /\ adminCalls[c].op \in Standings
      BY <2>2 DEF SetStatus, Doing, Standings
    <3> QED BY <3>1, <1>1, StaffMarked
  <2>3. CASE DeleteStaff(c)
    <3>1. /\ staffT' = After(StaffUpdateStatus(staffT, adminCalls[c].who, "deleted"), staffT)
          /\ "deleted" \in Standings
      BY <2>3 DEF DeleteStaff, StaffSoftDelete, Standings
    <3> QED BY <3>1, <1>1, StaffMarked
  <2>4. CASE UpdateUser(c) \/ DeleteUser(c) \/ SetPicture(c)
    BY <2>4, <1>1 DEF UpdateUser, DeleteUser, SetPicture
  <2> QED BY <2>1, <2>2, <2>3, <2>4
<1>5. TablesFit' /\ (Ids(userT) \cup Ids(staffT))' = Ids(userT) \cup Ids(staffT)
  BY <1>1, <1>2, <1>3, <1>4, OwnersChange
<1> QED BY <1>2, <1>5, EndKeeps

LEMMA PrepareStaffKeeps ==
  ASSUME AccInv, NEW c \in AdminCalls, PrepareStaff(c)
  PROVE  AccInv'
<1> DEFINE role == RoleGetByName(roleT, adminCalls[c].name)
           id == IF Succeeds(role) THEN role.val.id ELSE 0
           goesOn == ~StaffEmailExists(staffT, adminCalls[c].email) /\ Succeeds(role)
           call == [adminCalls[c] EXCEPT !.step = "insert", !.role = id]
<1>1. PICK op \in {"createstaff", "seed"} : Reads(c, op, goesOn, call)
  BY DEF PrepareStaff
<1>2. id \in Nat /\ adminCalls[c] \in ActRecords
  BY RoleFound, CallOf DEF AccInv
<1>3. goesOn \in BOOLEAN
  BY DEF StaffEmailExists, Succeeds
<1> HIDE DEF role, id, goesOn
<1>4. call \in ActRecords /\ call.step = "insert"
  BY <1>2 DEF ActRecords
<1>5. ~Deleting(call)
  BY <1>4 DEF Deleting
<1> HIDE DEF call
<1> QED BY <1>1, <1>3, <1>4, <1>5, ReadsKeep

LEMMA InsertStaffKeeps ==
  ASSUME AccInv, NEW c \in AdminCalls, InsertStaff(c)
  PROVE  AccInv'
<1> DEFINE x == adminCalls[c]
           inserted == StaffCreate(staffT, StaffMember(rows + 1, x.email, "secret"))
<1>1. /\ x.op \in {"createstaff", "seed"} /\ x.step = "insert"
      /\ staffT' = After(inserted, staffT)
      /\ IF Succeeds(inserted)
         THEN /\ rows' = rows + 1
              /\ adminCalls' = [adminCalls EXCEPT ![c].step = "finish", ![c].who = rows + 1]
         ELSE Over(c) /\ UNCHANGED rows
      /\ UNCHANGED <<userT, pinT, roleT, permT, userRoles, staffRoles, grants>>
      /\ UNCHANGED <<halfMade, stripped, renamed>>
  BY DEF InsertStaff, Doing, Remembered
<1>2. x \in ActRecords /\ x.email \in Mails
  BY CallOf DEF ActRecords
<1>3. /\ TablesFit /\ rows \in Nat /\ StaffFit(staffT, rows) /\ UsersFit(userT, rows)
      /\ adminCalls \in [AdminCalls -> ActRecords]
  BY DEF AccInv, TablesFit, ActsFit
<1>4. CASE ~Succeeds(inserted)
  <2>1. staffT' = staffT /\ Ids(staffT') = Ids(staffT) /\ userT' = userT /\ rows' = rows
    BY <1>1, <1>4 DEF After
  <2>2. TablesFit' /\ (Ids(userT) \cup Ids(staffT))' = Ids(userT) \cup Ids(staffT)
    BY <1>1, <1>3, <2>1, OwnersChange
  <2> HIDE DEF inserted
  <2> QED BY <1>1, <1>4, <2>2, EndKeeps
<1>5. CASE Succeeds(inserted)
  <2>1. StaffFit(staffT', rows + 1) /\ Ids(staffT') = Ids(staffT) \cup {rows + 1}
    BY <1>1, <1>2, <1>3, <1>5, StaffInserted DEF After
  <2>2. /\ UsersFit(userT, rows + 1) /\ NamesFit(roleT, rows + 1) /\ NamesFit(permT, rows + 1)
    BY <1>3 DEF TablesFit, UsersFit, NamesFit, UserRows, NamedRows
  <2>3. /\ Ids(userT)' = Ids(userT) /\ Ids(roleT)' = Ids(roleT) /\ Ids(permT)' = Ids(permT)
        /\ Ids(pinT)' = Ids(pinT) /\ Ids(staffT)' = Ids(staffT) \cup {rows + 1}
    BY <1>1, <2>1 DEF Ids
  <2>4. /\ UsersFit(userT', rows') /\ StaffFit(staffT', rows') /\ NamesFit(roleT', rows')
        /\ NamesFit(permT', rows') /\ rows' \in Nat /\ Ids(userT)' = Ids(pinT)'
    BY <1>1, <1>3, <1>5, <2>1, <2>2, <2>3 DEF TablesFit
  <2> DEFINE call == [x EXCEPT !.step = "finish", !.who = rows + 1]
  <2>5. /\ call \in ActRecords /\ call.step = "finish" /\ call.who = rows + 1 /\ call.op = x.op
    <3>1. call.step = "finish" /\ call.who = rows + 1 /\ call.op = x.op
      BY <1>2 DEF ActRecords
    <3>2. rows + 1 \in Nat
      BY <1>3
    <3>3. call \in ActRecords
      BY <1>2, <3>2 DEF ActRecords
    <3> QED BY <3>1, <3>3
  <2>6. adminCalls' = [adminCalls EXCEPT ![c] = call]
    BY <1>1, <1>3, <1>5
  <2>7. ~Deleting(call) /\ call.op # "createuser"
    BY <1>1, <2>5 DEF Deleting
  <2> HIDE DEF call, inserted
  <2>8. TablesFit'
    BY <1>1, <1>3, <2>3, <2>4, TablesGrow
  <2> QED BY <1>1, <2>3, <2>5, <2>6, <2>7, <2>8, StepKeeps
<1> QED BY <1>4, <1>5

LEMMA AssignStaffKeeps ==
  ASSUME AccInv, NEW c \in AdminCalls, AssignStaff(c)
  PROVE  AccInv'
<1> DEFINE x == adminCalls[c]
           assigned == StaffAssignRole(staffRoles, staffT, roleT, x.who, x.role)
<1>1. /\ x.op \in {"createstaff", "seed"} /\ x.step = "finish"
      /\ staffRoles' = After(assigned, staffRoles)
      /\ halfMade' = IF Succeeds(assigned) THEN halfMade ELSE halfMade \cup {x.who}
      /\ Over(c)
      /\ UNCHANGED <<userT, pinT, staffT, roleT, permT, userRoles, grants, rows, stripped, renamed>>
  BY DEF AssignStaff, Doing
<1>2. TablesFit /\ rows \in Nat
  BY DEF AccInv, TablesFit
<1>3. /\ Ids(userT)' = Ids(userT) /\ Ids(staffT)' = Ids(staffT) /\ Ids(roleT)' = Ids(roleT)
      /\ Ids(permT)' = Ids(permT) /\ Ids(pinT)' = Ids(pinT)
  BY <1>1 DEF Ids
<1>4. /\ UsersFit(userT', rows') /\ StaffFit(staffT', rows') /\ NamesFit(roleT', rows')
      /\ NamesFit(permT', rows') /\ rows' \in Nat /\ Ids(userT)' = Ids(pinT)'
  BY <1>1, <1>2, <1>3 DEF TablesFit
<1>5. adminCalls' = [adminCalls EXCEPT ![c] = NoAct] /\ ~Deleting(NoAct)
  BY <1>1, NoActFits DEF Over, Deleting
<1>6. CASE ~Succeeds(assigned)
  <2>1. staffRoles' = staffRoles /\ x.who \in halfMade' /\ halfMade \subseteq halfMade'
    BY <1>1, <1>6 DEF After
  <2> HIDE DEF assigned
  <2>2. TablesFit'
    BY <1>1, <1>2, <1>3, <1>4, <2>1, TablesGrow
  <2> QED BY <1>1, <1>3, <1>5, <2>1, <2>2, NoActFits, StepKeeps
<1>7. CASE Succeeds(assigned)
  <2>1. /\ RowsOf(staffT, x.who) # {} /\ RowsOf(roleT, x.role) # {}
        /\ staffRoles' = staffRoles \cup {<<x.who, x.role>>}
    BY <1>1, <1>7 DEF StaffAssignRole, After, Ok, Succeeds, Fail
  <2>2. x.who \in Ids(staffT) /\ x.role \in Ids(roleT)
    BY <2>1, IdsOf
  <2>3. \A p \in staffRoles' : p \in staffRoles \/ (p[1] \in Ids(staffT)' /\ p[2] \in Ids(roleT)')
    BY <2>1, <2>2, <1>3
  <2>4. <<x.who, x.role>> \in staffRoles' /\ <<x.who, x.role>>[1] = x.who
    BY <2>1
  <2>5. halfMade' = halfMade
    BY <1>1, <1>7
  <2> HIDE DEF assigned
  <2>6. TablesFit'
    BY <1>1, <1>2, <1>3, <1>4, <2>3, TablesGrow
  <2> QED BY <1>1, <1>3, <1>5, <2>1, <2>4, <2>5, <2>6, NoActFits, StepKeeps
<1> QED BY <1>6, <1>7

-----------------------------------------------------------------------------
(* Roles *)

LEMMA NamesChange ==
  ASSUME TablesFit, rows' \in Nat, rows' >= rows, NamesFit(roleT', rows'), NamesFit(permT', rows'),
         Ids(roleT) \subseteq Ids(roleT'), Ids(permT) \subseteq Ids(permT'),
         UNCHANGED <<userT, pinT, staffT, userRoles, staffRoles, grants>>
  PROVE  TablesFit' /\ (Ids(userT) \cup Ids(staffT))' = Ids(userT) \cup Ids(staffT)
<1>1. /\ Ids(userT)' = Ids(userT) /\ Ids(staffT)' = Ids(staffT) /\ Ids(pinT)' = Ids(pinT)
      /\ Ids(roleT) \subseteq Ids(roleT)' /\ Ids(permT) \subseteq Ids(permT)'
  BY DEF Ids
<1>2. UsersFit(userT', rows') /\ StaffFit(staffT', rows') /\ Ids(userT)' = Ids(pinT)'
  BY <1>1 DEF TablesFit, UsersFit, StaffFit, UserRows, StaffRows
<1> QED BY <1>1, <1>2, TablesGrow

LEMMA LookupNamesKeep ==
  ASSUME AccInv, NEW c \in AdminCalls, LookupRoleName(c) \/ LookupPermissionName(c) \/ ReadPermission(c)
  PROVE  AccInv'
<1> DEFINE call == [adminCalls[c] EXCEPT !.step = "write"]
<1>1. PICK op \in {"createrole", "createperm", "updateperm", "deleteperm"}, goesOn \in BOOLEAN :
        Reads(c, op, goesOn, call)
  BY DEF LookupRoleName, LookupPermissionName, ReadPermission, Succeeds
<1>2. /\ adminCalls[c] \in ActRecords /\ adminCalls[c].op = op
  BY <1>1, CallOf DEF Reads
<1>3. call \in ActRecords /\ call.step = "write" /\ call.op = op
  BY <1>2 DEF ActRecords
<1>4. ~Deleting(call)
  BY <1>3 DEF Deleting
<1> HIDE DEF call
<1> QED BY <1>1, <1>3, <1>4, ReadsKeep

LEMMA ReadRoleKeeps ==
  ASSUME AccInv, NEW c \in AdminCalls, ReadRole(c)
  PROVE  AccInv'
<1> DEFINE role == RoleGetByID(roleT, adminCalls[c].role)
           name == IF Succeeds(role) THEN role.val.name ELSE "none"
           rename == [adminCalls[c] EXCEPT !.step = "write"]
           describe == [adminCalls[c] EXCEPT !.step = "write", !.name = name]
<1>1. /\ adminCalls[c].op \in {"renamerole", "describerole"}
      /\ \/ Reads(c, "renamerole", Succeeds(role), rename)
         \/ Reads(c, "describerole", Succeeds(role), describe)
  BY DEF ReadRole, Reads
<1>2. Succeeds(role) => role.val \in roleT
  BY RowFound DEF RoleGetByID, GetRoleByID, RowsOf
<1>3. (\A r \in roleT : r.name \in Titles) /\ "none" \in Titles
  BY DEF AccInv, TablesFit, NamesFit, NamedRows, Titles
<1> HIDE DEF role
<1>4. name \in Titles /\ Succeeds(role) \in BOOLEAN /\ adminCalls[c] \in ActRecords
  BY <1>2, <1>3, CallOf DEF Succeeds
<1> HIDE DEF name
<1>5. /\ rename \in ActRecords /\ rename.step = "write" /\ rename.op = adminCalls[c].op
      /\ describe \in ActRecords /\ describe.step = "write" /\ describe.op = adminCalls[c].op
  BY <1>4 DEF ActRecords
<1>6. ~Deleting(rename) /\ ~Deleting(describe)
  BY <1>1, <1>5 DEF Deleting
<1> HIDE DEF rename, describe
<1>7. CASE Reads(c, "renamerole", Succeeds(role), rename)
  BY <1>4, <1>5, <1>6, <1>7, ReadsKeep
<1>8. CASE Reads(c, "describerole", Succeeds(role), describe)
  BY <1>4, <1>5, <1>6, <1>8, ReadsKeep
<1> QED BY <1>1, <1>7, <1>8

\* The check that a role may be deleted: its name is not a protected one.
LEMMA CheckRoleKeeps ==
  ASSUME AccInv, NEW c \in AdminCalls, CheckRole(c)
  PROVE  AccInv'
<1> DEFINE role == RoleGetByID(roleT, adminCalls[c].role)
           goesOn == IF Succeeds(role) THEN role.val.name \notin protectedRoles ELSE FALSE
           call == [adminCalls[c] EXCEPT !.step = "write"]
<1>1. Reads(c, "deleterole", goesOn, call)
  BY DEF CheckRole
<1>2. Succeeds(role) => role.val \in roleT /\ role.val.id = adminCalls[c].role
  <2>1. role = OneRow(RowsOf(roleT, adminCalls[c].role), MapDBErrors("no rows"))
    BY DEF RoleGetByID, GetRoleByID
  <2>2. Succeeds(role) => role.val \in RowsOf(roleT, adminCalls[c].role)
    BY <2>1, RowFound
  <2> QED BY <2>2 DEF RowsOf
<1>3. call \in ActRecords /\ call.step = "write" /\ call.role = adminCalls[c].role
  BY CallOf DEF ActRecords
<1>4. \A r, s \in roleT : r.id = s.id => r = s
  BY DEF AccInv, TablesFit, NamesFit
<1> HIDE DEF role
<1>5. goesOn \in BOOLEAN
  OBVIOUS
<1>6. goesOn => \A r \in roleT : r.id = call.role => r.name \notin protectedRoles
  BY <1>2, <1>3, <1>4
<1> HIDE DEF goesOn, call
<1> QED BY <1>1, <1>3, <1>5, <1>6, ReadsKeep

LEMMA InsertNameKeeps ==
  ASSUME AccInv, NEW c \in AdminCalls, InsertRole(c) \/ InsertPermission(c)
  PROVE  AccInv'
<1> DEFINE row == Named(rows + 1, adminCalls[c].name)
<1>1. /\ adminCalls[c].step = "write" /\ Over(c)
      /\ UNCHANGED <<userT, pinT, staffT, userRoles, staffRoles, grants, halfMade, stripped, renamed>>
  BY DEF InsertRole, InsertPermission, Doing, Remembered
<1>2. /\ TablesFit /\ rows \in Nat /\ NamesFit(roleT, rows) /\ NamesFit(permT, rows)
      /\ adminCalls[c].name \in Titles
  BY CallOf DEF AccInv, TablesFit, ActRecords
<1>3. NamesFit(roleT, rows + 1) /\ NamesFit(permT, rows + 1)
  BY <1>2 DEF NamesFit, NamedRows
<1>4. \/ /\ rows' = rows + 1 /\ ~NameConflict(roleT, row)
         /\ roleT' = roleT \cup {row} /\ permT' = permT
      \/ /\ rows' = rows + 1 /\ ~NameConflict(permT, row)
         /\ permT' = permT \cup {row} /\ roleT' = roleT
      \/ rows' = rows /\ roleT' = roleT /\ permT' = permT
  <2>1. CASE InsertRole(c)
    <3>1. CASE Succeeds(RoleRepoCreate(roleT, row))
      BY <2>1, <3>1, NotFound DEF InsertRole, After, RoleRepoCreate, CreateRole, Ok
    <3>2. CASE ~Succeeds(RoleRepoCreate(roleT, row))
      BY <2>1, <3>2 DEF InsertRole, After
    <3> QED BY <3>1, <3>2
  <2>2. CASE InsertPermission(c)
    <3>1. CASE Succeeds(PermissionRepoCreate(permT, row))
      BY <2>2, <3>1, NotFound DEF InsertPermission, After, PermissionRepoCreate, CreatePermission, Ok
    <3>2. CASE ~Succeeds(PermissionRepoCreate(permT, row))
      BY <2>2, <3>2 DEF InsertPermission, After
    <3> QED BY <3>1, <3>2
  <2> QED BY <2>1, <2>2
<1>5. /\ rows' \in Nat /\ rows' >= rows /\ NamesFit(roleT', rows') /\ NamesFit(permT', rows')
      /\ Ids(roleT) \subseteq Ids(roleT') /\ Ids(permT) \subseteq Ids(permT')
      /\ roleT \subseteq roleT'
  BY <1>2, <1>3, <1>4, NameInserted
<1> HIDE DEF row
<1>6. TablesFit' /\ (Ids(userT) \cup Ids(staffT))' = Ids(userT) \cup Ids(staffT)
  BY <1>1, <1>2, <1>5, NamesChange
<1> QED BY <1>1, <1>5, <1>6, EndKeeps

\* An UPDATE of a name: refused when another row has it.
LEMMA WriteRoleKeeps ==
  ASSUME AccInv, NEW c \in AdminCalls, WriteRole(c)
  PROVE  AccInv'
<1> DEFINE x == adminCalls[c]
           written == RoleRepoUpdate(roleT, x.role, x.name)
           after == UpdateRole(roleT, x.role, x.name)
           names(table) == {r.name : r \in RowsOf(table, x.role)}
<1>1. /\ x.op \in {"renamerole", "describerole"} /\ x.step = "write" /\ Over(c)
      /\ roleT' = After(written, roleT)
      /\ renamed' = renamed \cup ((names(roleT) \ names(roleT')) \cap protectedRoles)
      /\ UNCHANGED <<userT, pinT, staffT, permT, userRoles, staffRoles, grants, rows, halfMade, stripped>>
  BY DEF WriteRole, Doing
<1>2. /\ TablesFit /\ rows \in Nat /\ NamesFit(roleT, rows) /\ NamesFit(permT, rows) /\ x.name \in Titles
  BY CallOf DEF AccInv, TablesFit, ActRecords
<1>3. \/ roleT' = roleT
      \/ /\ roleT' = after
         /\ RowsOf(roleT, x.role) = {} \/ ~NameConflict(roleT, Named(x.role, x.name))
  <2>1. CASE ~Succeeds(written)
    BY <2>1, <1>1 DEF After
  <2>2. CASE Succeeds(written)
    <3>1. ~(NameConflict(roleT, Named(x.role, x.name)) /\ RoleGetByID(roleT, x.role).err = "nil")
      BY <2>2, NotFound DEF RoleRepoUpdate
    <3>2. roleT' = after
      BY <2>2, <3>1, <1>1 DEF RoleRepoUpdate, After, Ok
    <3>3. RowsOf(roleT, x.role) # {} => RoleGetByID(roleT, x.role).err = "nil"
      BY Found DEF RoleGetByID, GetRoleByID
    <3> QED BY <3>1, <3>2, <3>3
  <2> QED BY <2>1, <2>2
<1>4. NamesFit(roleT', rows) /\ Ids(roleT') = Ids(roleT)
  <2>1. CASE roleT' = roleT
    BY <2>1, <1>2
  <2>2. CASE roleT' = after /\ (RowsOf(roleT, x.role) = {} \/ ~NameConflict(roleT, Named(x.role, x.name)))
    <3>1. NamesFit(after, rows) /\ Ids(after) = Ids(roleT)
      BY <2>2, <1>2, NameWritten
    <3> QED BY <3>1, <2>2
  <2> QED BY <2>1, <2>2, <1>3
<1>5. \A r \in roleT : r \in roleT' \/ r.name \in renamed' \/ r.name \notin protectedRoles
  <2> SUFFICES ASSUME roleT' = after, NEW r \in roleT, r.name \in protectedRoles, r \notin roleT'
               PROVE  r.name \in renamed'
    BY <1>3
  <2>1. r.id = x.role
    BY DEF Without, UpdateRole
  <2>2. RowsOf(roleT, x.role) = {r} /\ r \in NamedRows
    BY <2>1, <1>2 DEF RowsOf, NamesFit
  <2> DEFINE v == [r EXCEPT !.name = x.name]
  <2>3. v.name = x.name /\ v.id = x.role /\ (x.name = r.name => v = r)
    BY <2>1, <2>2 DEF NamedRows
  <2>4. roleT' = Without(roleT, x.role) \cup {v}
    BY <2>2 DEF UpdateRole
  <2> HIDE DEF v, after
  <2>5. r.name # x.name
    BY <2>3, <2>4
  <2>6. \A w \in RowsOf(roleT', x.role) : w = v
    BY <2>4 DEF RowsOf, Without
  <2>7. r.name \in names(roleT) /\ r.name \notin names(roleT')
    BY <2>2, <2>3, <2>5, <2>6
  <2> QED BY <2>7, <1>1
<1>6. renamed \subseteq renamed'
  BY <1>1
<1>7. Ids(permT) \subseteq Ids(permT') /\ permT' = permT /\ rows' = rows
  BY <1>1
<1>8. rows' \in Nat /\ rows' >= rows /\ NamesFit(roleT', rows') /\ NamesFit(permT', rows')
  BY <1>2, <1>4, <1>7
<1>9. TablesFit' /\ (Ids(userT) \cup Ids(staffT))' = Ids(userT) \cup Ids(staffT)
  BY <1>1, <1>2, <1>4, <1>7, <1>8, NamesChange
<1> HIDE DEF written, after, names
<1> QED BY <1>1, <1>5, <1>6, <1>9, EndKeeps

LEMMA WritePermissionKeeps ==
  ASSUME AccInv, NEW c \in AdminCalls, WritePermission(c)
  PROVE  AccInv'
<1> DEFINE x == adminCalls[c]
           written == PermissionRepoUpdate(permT, x.who, x.name)
           after == UpdateRole(permT, x.who, x.name)
<1>1. /\ x.step = "write" /\ Over(c) /\ permT' = After(written, permT)
      /\ UNCHANGED <<userT, pinT, staffT, roleT, userRoles, staffRoles, grants, rows>>
      /\ UNCHANGED <<halfMade, stripped, renamed>>
  BY DEF WritePermission, Doing, Remembered
<1>2. /\ TablesFit /\ rows \in Nat /\ NamesFit(roleT, rows) /\ NamesFit(permT, rows) /\ x.name \in Titles
  BY CallOf DEF AccInv, TablesFit, ActRecords
<1>3. \/ permT' = permT
      \/ /\ permT' = after
         /\ RowsOf(permT, x.who) = {} \/ ~NameConflict(permT, Named(x.who, x.name))
  <2>1. CASE ~Succeeds(written)
    BY <2>1, <1>1 DEF After
  <2>2. CASE Succeeds(written)
    <3>1. ~(NameConflict(permT, Named(x.who, x.name)) /\ PermissionGetByID(permT, x.who).err = "nil")
      BY <2>2, NotFound DEF PermissionRepoUpdate
    <3>2. permT' = after
      BY <2>2, <3>1, <1>1 DEF PermissionRepoUpdate, After, UpdatePermission, UpdateRole, Ok
    <3>3. RowsOf(permT, x.who) # {} => PermissionGetByID(permT, x.who).err = "nil"
      BY Found DEF PermissionGetByID, GetPermissionByID
    <3> QED BY <3>1, <3>2, <3>3
  <2> QED BY <2>1, <2>2
<1>4. NamesFit(permT', rows) /\ Ids(permT') = Ids(permT)
  <2>1. CASE permT' = permT
    BY <2>1, <1>2
  <2>2. CASE permT' = after /\ (RowsOf(permT, x.who) = {} \/ ~NameConflict(permT, Named(x.who, x.name)))
    <3>1. NamesFit(after, rows) /\ Ids(after) = Ids(permT)
      BY <2>2, <1>2, NameWritten
    <3> QED BY <3>1, <2>2
  <2> QED BY <2>1, <2>2, <1>3
<1>5. roleT' = roleT /\ rows' = rows /\ Ids(roleT) \subseteq Ids(roleT')
  BY <1>1
<1>6. rows' \in Nat /\ rows' >= rows /\ NamesFit(roleT', rows') /\ NamesFit(permT', rows')
  BY <1>2, <1>4, <1>5
<1> HIDE DEF written, after
<1>7. TablesFit' /\ (Ids(userT) \cup Ids(staffT))' = Ids(userT) \cup Ids(staffT)
  BY <1>1, <1>2, <1>4, <1>5, <1>6, NamesChange
<1> QED BY <1>1, <1>5, <1>7, EndKeeps

\* DELETE of a role or a permission, and of the pairs that name it.
LEMMA RemoveKeeps ==
  ASSUME AccInv, NEW c \in AdminCalls, RemoveRole(c) \/ RemovePermission(c)
  PROVE  AccInv'
<1>1. TablesFit
  BY DEF AccInv
<1>2. CASE RemoveRole(c)
  <2> DEFINE x == adminCalls[c]
             had == {p[1] : p \in {q \in userRoles \cup staffRoles : q[2] = x.role}}
  <2>1. /\ x.op = "deleterole" /\ x.step = "write" /\ Over(c)
        /\ roleT' = {r \in roleT : r.id # x.role}
        /\ userRoles' = {p \in userRoles : p[2] # x.role}
        /\ staffRoles' = {p \in staffRoles : p[2] # x.role}
        /\ grants' = {g \in grants : g[1] # x.role}
        /\ stripped' = stripped \cup had
        /\ UNCHANGED <<userT, pinT, staffT, permT, rows, halfMade, renamed>>
    BY <1>2 DEF RemoveRole, Doing, DeleteRole, CascadeRole, Without
  <2>2. \A id \in Ids(roleT) : id # x.role => id \in Ids(roleT)'
    BY <2>1 DEF Ids
  <2>3. Ids(userT)' = Ids(userT) /\ Ids(staffT)' = Ids(staffT) /\ Ids(permT)' = Ids(permT) /\ Ids(pinT)' = Ids(pinT)
    BY <2>1 DEF Ids
  <2>4. /\ PairsFit(userRoles, userT, roleT)' /\ PairsFit(staffRoles, staffT, roleT)'
        /\ PairsFit(grants, roleT, permT)'
    BY <1>1, <2>1, <2>2, <2>3 DEF TablesFit, PairsFit
  <2>5. NamesFit(roleT, rows)'
    BY <1>1, <2>1 DEF TablesFit, NamesFit
  <2>6. TablesFit'
    BY <1>1, <2>1, <2>3, <2>4, <2>5 DEF TablesFit, UsersFit, StaffFit, NamesFit
  <2>7. /\ \A p \in userRoles : p \in userRoles' \/ p[1] \in stripped'
        /\ \A p \in staffRoles : p \in staffRoles' \/ p[1] \in stripped'
    BY <2>1
  <2>8. \A r \in roleT : r \in roleT' \/ (Deleting(x) /\ x.role = r.id)
    BY <2>1 DEF Deleting
  <2> HIDE DEF had
  <2> QED BY <2>1, <2>3, <2>6, <2>7, <2>8, EndKeeps
<1>3. CASE RemovePermission(c)
  <2> DEFINE perm == adminCalls[c].who
  <2>1. /\ adminCalls[c].step = "write" /\ Over(c)
        /\ permT' = {p \in permT : p.id # perm}
        /\ grants' = {g \in grants : g[2] # perm}
        /\ UNCHANGED <<userT, pinT, staffT, roleT, userRoles, staffRoles, rows>>
        /\ UNCHANGED <<halfMade, stripped, renamed>>
    BY <1>3 DEF RemovePermission, Doing, DeletePermission, Without, Remembered
  <2>2. \A id \in Ids(permT) : id # perm => id \in Ids(permT)'
    BY <2>1 DEF Ids
  <2>3. Ids(userT)' = Ids(userT) /\ Ids(staffT)' = Ids(staffT) /\ Ids(roleT)' = Ids(roleT) /\ Ids(pinT)' = Ids(pinT)
    BY <2>1 DEF Ids
  <2>4. /\ PairsFit(userRoles, userT, roleT)' /\ PairsFit(staffRoles, staffT, roleT)'
        /\ PairsFit(grants, roleT, permT)'
    BY <1>1, <2>1, <2>2, <2>3 DEF TablesFit, PairsFit
  <2>5. NamesFit(permT, rows)'
    BY <1>1, <2>1 DEF TablesFit, NamesFit
  <2>6. TablesFit'
    BY <1>1, <2>1, <2>3, <2>4, <2>5 DEF TablesFit, UsersFit, StaffFit, NamesFit
  <2> QED BY <2>1, <2>3, <2>6, EndKeeps
<1> QED BY <1>2, <1>3

\* Roles given and taken, permissions granted and revoked.
LEMMA PairsKeep ==
  ASSUME AccInv, NEW c \in AdminCalls,
         AssignRole(c) \/ RemoveUserRole(c) \/ GrantPermission(c) \/ RevokePermission(c)
  PROVE  AccInv'
<1> DEFINE x == adminCalls[c]
<1>1. TablesFit /\ rows \in Nat
  BY DEF AccInv, TablesFit
<1>2. /\ x.step = "read" /\ Over(c) /\ stripped \subseteq stripped'
      /\ UNCHANGED <<userT, pinT, staffT, roleT, permT, staffRoles, rows, halfMade, renamed>>
  BY DEF AssignRole, RemoveUserRole, GrantPermission, RevokePermission, Doing, Remembered
<1>3. /\ Ids(userT)' = Ids(userT) /\ Ids(staffT)' = Ids(staffT) /\ Ids(roleT)' = Ids(roleT)
      /\ Ids(permT)' = Ids(permT) /\ Ids(pinT)' = Ids(pinT)
  BY <1>2 DEF Ids
<1>4. /\ UsersFit(userT', rows') /\ StaffFit(staffT', rows') /\ NamesFit(roleT', rows')
      /\ NamesFit(permT', rows') /\ rows' \in Nat /\ Ids(userT)' = Ids(pinT)'
  BY <1>1, <1>2, <1>3 DEF TablesFit
<1>5. \A p \in userRoles' : p \in userRoles \/ (p[1] \in Ids(userT)' /\ p[2] \in Ids(roleT)')
  <2>1. CASE AssignRole(c)
    <3> DEFINE assigned == RoleRepoAssign(userRoles, userT, roleT, x.who, x.role)
    <3>1. userRoles' = After(assigned, userRoles)
      BY <2>1 DEF AssignRole
    <3>2. CASE ~Succeeds(assigned)
      BY <3>1, <3>2 DEF After
    <3>3. CASE Succeeds(assigned)
      <4>1. /\ RowsOf(userT, x.who) # {} /\ RowsOf(roleT, x.role) # {}
            /\ userRoles' = userRoles \cup {<<x.who, x.role>>}
        BY <3>1, <3>3, NotFound DEF RoleRepoAssign, After, AssignRoleToUser, Ok
      <4>2. x.who \in Ids(userT) /\ x.role \in Ids(roleT)
        BY <4>1, IdsOf
      <4> QED BY <4>1, <4>2, <1>3
    <3> QED BY <3>2, <3>3
  <2>2. CASE RemoveUserRole(c) \/ GrantPermission(c) \/ RevokePermission(c)
    BY <2>2 DEF RemoveUserRole, RemoveRoleFromUser, GrantPermission, RevokePermission
  <2> QED BY <2>1, <2>2
<1>6. \A p \in grants' : p \in grants \/ (p[1] \in Ids(roleT)' /\ p[2] \in Ids(permT)')
  <2>1. CASE GrantPermission(c)
    <3> DEFINE assigned == PermissionRepoAssign(grants, roleT, permT, x.role, x.who)
    <3>1. grants' = After(assigned, grants)
      BY <2>1 DEF GrantPermission
    <3>2. CASE ~Succeeds(assigned)
      BY <3>1, <3>2 DEF After
    <3>3. CASE Succeeds(assigned)
      <4>1. /\ RowsOf(roleT, x.role) # {} /\ RowsOf(permT, x.who) # {}
            /\ grants' = grants \cup {<<x.role, x.who>>}
        BY <3>1, <3>3, NotFound DEF PermissionRepoAssign, After, AssignPermissionToRole, Ok
      <4>2. x.role \in Ids(roleT) /\ x.who \in Ids(permT)
        BY <4>1, IdsOf
      <4> QED BY <4>1, <4>2, <1>3
    <3> QED BY <3>2, <3>3
  <2>2. CASE AssignRole(c) \/ RemoveUserRole(c) \/ RevokePermission(c)
    BY <2>2 DEF AssignRole, RemoveUserRole, RevokePermission, RemovePermissionFromRole
  <2> QED BY <2>1, <2>2
<1>7. \A p \in userRoles : p \in userRoles' \/ p[1] \in stripped'
  <2>1. CASE AssignRole(c)
    <3> DEFINE assigned == RoleRepoAssign(userRoles, userT, roleT, x.who, x.role)
    <3>1. userRoles' = After(assigned, userRoles)
      BY <2>1 DEF AssignRole
    <3>2. CASE ~Succeeds(assigned)
      BY <3>1, <3>2 DEF After
    <3>3. CASE Succeeds(assigned)
      BY <3>1, <3>3, NotFound DEF RoleRepoAssign, After, AssignRoleToUser, Ok
    <3> QED BY <3>2, <3>3
  <2>2. CASE RemoveUserRole(c)
    BY <2>2 DEF RemoveUserRole
  <2>3. CASE GrantPermission(c) \/ RevokePermission(c)
    BY <2>3 DEF GrantPermission, RevokePermission
  <2> QED BY <2>1, <2>2, <2>3
<1>8. TablesFit'
  BY <1>1, <1>2, <1>3, <1>4, <1>5, <1>6, TablesGrow
<1> QED BY <1>2, <1>3, <1>7, <1>8, EndKeeps

-----------------------------------------------------------------------------
(* Every step *)

\* The call that stops after its insert leaves an account half made.
LEMMA StopActKeeps ==
  ASSUME AccInv, NEW c \in AdminCalls, StopAct(c)
  PROVE  AccInv'
<1>1. /\ adminCalls' = [adminCalls EXCEPT ![c] = NoAct]
      /\ UNCHANGED <<accountRows, stripped, renamed>>
      /\ halfMade' = IF adminCalls[c].step = "finish" THEN halfMade \cup {adminCalls[c].who} ELSE halfMade
  BY DEF StopAct, Over
<1>2. TablesFit' /\ ~Deleting(NoAct)
  BY <1>1, NoActFits
     DEF accountRows, AccInv, TablesFit, UsersFit, StaffFit, NamesFit, PairsFit, Ids, Deleting
<1> QED BY <1>1, <1>2, NoActFits, StepKeeps DEF accountRows, Ids

LEMMA ActKeeps ==
  ASSUME AccInv, NEW c \in AdminCalls,
         NEW r \in UserAndStaffRequests \cup RoleRequests \cup PermissionRequests, Act(c, r)
  PROVE  AccInv'
<1> DEFINE call == [f \in DOMAIN NoAct |->
                      CASE f = "step" -> "read"
                        [] f \in DOMAIN r -> r[f]
                        [] OTHER -> NoAct[f]]
<1>1. /\ adminCalls[c] = NoAct /\ adminCalls' = [adminCalls EXCEPT ![c] = call]
      /\ UNCHANGED <<accountRows, halfMade, stripped, renamed>>
  BY DEF Act
<1>2. call \in ActRecords /\ call.step = "read"
  BY CallStarted DEF AccInv
<1>3. TablesFit' /\ ~Deleting(call)
  BY <1>1, <1>2
     DEF accountRows, AccInv, TablesFit, UsersFit, StaffFit, NamesFit, PairsFit, Ids, Deleting
<1> HIDE DEF call
<1> QED BY <1>1, <1>2, <1>3, NoActFits, StepKeeps DEF accountRows, Ids

LEMMA AccountsStart == AccountsInit => AccInv
<1> SUFFICES ASSUME AccountsInit PROVE AccInv
  OBVIOUS
<1>1. {"user", "merchant", "admin"} \subseteq Titles
  BY AccountsAssumption DEF Titles, protectedRoles
<1>2. NamesFit(roleT, rows) /\ rows \in Nat
  BY <1>1 DEF AccountsInit, NamesFit, Named, NamedRows
<1>3. TablesFit
  BY <1>2 DEF AccountsInit, TablesFit, UsersFit, StaffFit, NamesFit, PairsFit, Ids
<1>4. ActsFit /\ \A c \in AdminCalls : adminCalls[c] = NoAct
  BY NoActFits DEF AccountsInit, ActsFit
<1>5. Explained
  BY DEF AccountsInit, Explained, Ids
<1>6. Assigned
  BY <1>4, NoActFits DEF Assigned, Doing
<1>7. Reserved
  BY <1>4, NoActFits DEF AccountsInit, Reserved, Deleting, protectedRoles, Named
<1> QED BY <1>3, <1>4, <1>5, <1>6, <1>7 DEF AccInv

LEMMA AccountsStep == AccInv /\ [AccountsNext]_accountVars => AccInv'
<1> SUFFICES ASSUME AccInv, [AccountsNext]_accountVars PROVE AccInv'
  OBVIOUS
<1>1. CASE UNCHANGED accountVars
  <2>1. UNCHANGED <<accountRows, adminCalls, halfMade, stripped, renamed>>
    BY <1>1 DEF accountVars
  <2>2. TablesFit'
    BY <2>1 DEF accountRows, AccInv, TablesFit, UsersFit, StaffFit, NamesFit, PairsFit, Ids
  <2>3. ActsFit' /\ Explained'
    BY <2>1 DEF accountRows, AccInv, ActsFit, Explained, HasRole, Ids
  <2>4. Assigned' /\ Reserved'
    BY <2>1 DEF accountRows, AccInv, Assigned, Doing, Reserved, Deleting
  <2> QED BY <2>2, <2>3, <2>4 DEF AccInv
<1>2. ASSUME NEW c \in AdminCalls, AccountStep(c) PROVE AccInv'
  <2>1. CASE PrepareUser(c) \/ InsertUser(c) \/ VerifyNewUser(c) \/ AssignNewUser(c) \/ UserCreated(c)
    BY <2>1, PrepareUserKeeps, InsertUserKeeps, VerifyNewUserKeeps, AssignNewUserKeeps, UserCreatedKeeps
  <2>2. CASE \/ UpdateUser(c) \/ SetStatus(c) \/ DeleteUser(c) \/ SetPicture(c)
             \/ UpdateStaff(c) \/ DeleteStaff(c)
    BY <2>2, OwnersKeep
  <2>3. CASE PrepareStaff(c) \/ InsertStaff(c) \/ AssignStaff(c)
    BY <2>3, PrepareStaffKeeps, InsertStaffKeeps, AssignStaffKeeps
  <2>4. CASE LookupRoleName(c) \/ LookupPermissionName(c) \/ ReadPermission(c)
    BY <2>4, LookupNamesKeep
  <2>5. CASE InsertRole(c) \/ InsertPermission(c)
    BY <2>5, InsertNameKeeps
  <2>6. CASE ReadRole(c) \/ WriteRole(c) \/ CheckRole(c)
    BY <2>6, ReadRoleKeeps, WriteRoleKeeps, CheckRoleKeeps
  <2>7. CASE WritePermission(c) \/ RemoveRole(c) \/ RemovePermission(c)
    BY <2>7, WritePermissionKeeps, RemoveKeeps
  <2>8. CASE AssignRole(c) \/ RemoveUserRole(c) \/ GrantPermission(c) \/ RevokePermission(c)
    BY <2>8, PairsKeep
  <2>9. CASE StopAct(c)
    BY <2>9, StopActKeeps
  <2> QED BY <1>2, <2>1, <2>2, <2>3, <2>4, <2>5, <2>6, <2>7, <2>8, <2>9 DEF AccountStep
<1>3. ASSUME NEW c \in AdminCalls,
             NEW r \in UserAndStaffRequests \cup RoleRequests \cup PermissionRequests, Act(c, r)
      PROVE  AccInv'
  BY <1>3, ActKeeps
<1> QED BY <1>1, <1>2, <1>3 DEF AccountsNext

\* What the lists show with the fallback role has no role of its own.
LEMMA ShownAreThere ==
  ASSUME NEW s \in ListUsers \cup ListStaff
  PROVE  s.id \in Ids(userT) \cup Ids(staffT)
<1>1. CASE s \in ListUsers
  <2>1. PICK u \in userT : \E role \in RolesShown(GetUserRoles(roleT, userRoles, u.id), "user") :
                              s = toAdminUserSummary(u, role)
    BY <1>1 DEF ListUsers
  <2> QED BY <2>1 DEF toAdminUserSummary, Ids
<1>2. CASE s \in ListStaff
  <2>1. PICK u \in staffT : \E role \in RolesShown(StaffGetRoles(roleT, staffRoles, u.id), "staff") :
                              s = toAdminUserSummary(u, role)
    BY <1>2 DEF ListStaff
  <2> QED BY <2>1 DEF toAdminUserSummary, Ids
<1> QED BY <1>1, <1>2

\* user_usecase.go, staff_usecase.go, roles_usecase.go: however administrators
\* create, change and delete accounts, roles and permissions, and wherever a
\* call stops, the tables keep their keys and references, and whoever has no
\* role is being created, was left half made, or had one taken away.
THEOREM AccountsAreSound == AccountsSpec => []AccountsHold
<1>1. AccInv => AccountsHold
  <2> SUFFICES ASSUME AccInv PROVE AccountsHold
    OBVIOUS
  <2>1. AccountsTypeOK
    BY DEF AccInv, TablesFit, UsersFit, StaffFit, NamesFit, PairsFit, AccountsTypeOK
  <2>2. RolelessIsExplained
    BY ShownAreThere DEF AccInv, Explained, HasRole, RolelessIsExplained
  <2> QED BY <2>1, <2>2 DEF AccountsHold
<1> QED BY <1>1, AccountsStart, AccountsStep, PTL DEF AccountsSpec

\* DeleteRole (roles_usecase.go:107) protects three roles by their names, in a
\* statement before the deletion: Register finds its role unless UpdateRole
\* gave the role another name, whatever is renamed between the two.
THEOREM RolesStay == AccountsSpec => []ProtectedRolesStay
<1>1. AccInv => ProtectedRolesStay
  BY DEF AccInv, Reserved, ProtectedRolesStay
<1> QED BY <1>1, AccountsStart, AccountsStep, PTL DEF AccountsSpec
=============================================================================
