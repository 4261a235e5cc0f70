------------------------------ MODULE Sessions ------------------------------
(***************************************************************************)
(* Logging in and out, refreshing, passwords and the PIN, in the auth      *)
(* service.  Every statement against postgres or redis is a step, so that  *)
(* calls interleave as the replicas of the service let them.               *)
(*                                                                         *)
(* An account is named by its e-mail, which nobody changes here.  A reset  *)
(* starts where its code was accepted (module Codes has the codes).        *)
(* /auth/refresh is sent on by the gateway, but the auth service has no    *)
(* such route yet: RefreshToken is modelled from its use case.             *)
(***************************************************************************)
EXTENDS AuthRows

CONSTANTS Users, StaffIds,   \* accounts
          SessionCalls,      \* calls that may be in progress together
          Passwords, Pins,
          MaxPinAttempts,
          MaxOps,            \* bound on the calls of a behaviour
          MaxOpenings,       \* bound on the locks of a PIN that run out
          MaxSessionFaults,  \* bound on failed statements
          Nobody

ASSUME SessionsAssumption ==
  /\ MaxPinAttempts \in Nat \ {0}
  /\ {MaxOps, MaxOpenings, MaxSessionFaults} \subseteq Nat /\ IsFiniteSet(SessionCalls)
  /\ Users \cap StaffIds = {} /\ Nobody \notin Users \cup StaffIds

VARIABLES users, staff, tokens, pins,
          redisVersion,  \* auth:user:<id>:version
          calls,         \* the calls in progress
          ops,           \* how many were started
          failed,        \* how many statements failed
          \* what the properties remember
          origin,        \* of a refresh token: the password behind it, the token it
                         \* replaces, and whether a RevokeAll overtook its call
          loose,         \* users whose sessions outlived a change of the password:
                         \* an administrator made it, or it stopped half-way
          drifted,       \* users one of whose two versions was not raised
          guesses,       \* wrong PINs compared since the counter was last at zero
          openings       \* locks that ran out or were not set, and wrong PINs that
                         \* were not counted, since then

rowVars == <<users, staff, tokens, pins, redisVersion>>
ghostVars == <<origin, loose, drifted, guesses, openings>>
sessionVars == <<rowVars, calls, ops, failed, ghostVars>>

Accounts == Users \cup StaffIds
\* A token is named by the number of its row.
Hashes == 1 .. MaxOps + 1
NewHash == Cardinality(tokens) + 1
Idle == [op |-> "idle", step |-> "idle", id |-> Nobody, password |-> "none",
         secret |-> "none", hash |-> 0, todo |-> {}, late |-> FALSE]

SessionsInit ==
  /\ \E p \in Passwords, q \in Pins :
       /\ users = {[User(u, u, "none", u, p) EXCEPT !.status = "active"] : u \in Users}
       /\ staff = {StaffMember(s, s, p) : s \in StaffIds}
       /\ pins \in {{}, {Pin(u, q) : u \in Users}}
  /\ tokens \in {{}} \cup {{RefreshToken(1, u)} : u \in Users}
  /\ redisVersion = [a \in Accounts |-> 0]
  /\ calls = [c \in SessionCalls |-> Idle]
  /\ ops = 0 /\ failed = 0
  /\ \E p \in {u.password : u \in users} :
       origin = [h \in Hashes |-> [password |-> p, replaces |-> 0, late |-> FALSE]]
  /\ loose = {} /\ drifted = {}
  /\ guesses = [u \in Users |-> 0] /\ openings = [u \in Users |-> 0]

-----------------------------------------------------------------------------
(* Requests the handlers let through, and the calls they start *)

LoginRequests == [op : {"login"}, id : Users, password : Passwords, secret : Pins]
AdminLoginRequests == [op : {"adminlogin"}, id : StaffIds, password : Passwords]
LogoutRequests ==
  [op : {"logoutall"}, id : Accounts]
    \cup UNION {[op : {"logout"}, id : {t.user}, hash : {t.hash}] : t \in tokens}
RefreshRequests == UNION {[op : {"refresh"}, id : {t.user}, hash : {t.hash}] : t \in tokens}
ChangePasswordRequests ==
  {r \in [op : {"change"}, id : Users, password : Passwords, secret : Passwords] :
     r.password # r.secret}
ResetPasswordRequests == [op : {"reset"}, id : Users, secret : Passwords]
SetPINRequests == [op : {"setpin"}, id : Users, secret : Pins]
UpdatePINRequests == [op : {"updatepin"}, id : Users, password : Pins, secret : Pins]
VerifyPINRequests == [op : {"verifypin"}, id : Users, secret : Pins]

FirstStep(op) ==
  CASE op \in {"login", "adminlogin", "change", "reset"} -> "check"
    [] op \in {"logout", "refresh"} -> "lookup"
    [] op = "logoutall" -> "versions"
    [] op \in {"setpin", "updatepin", "verifypin"} -> "pin"

Called(request) ==
  LET given(f) == IF f \in DOMAIN request THEN request[f] ELSE Idle[f]
  IN [op |-> request.op, step |-> FirstStep(request.op), id |-> request.id,
      password |-> given("password"), secret |-> given("secret"), hash |-> given("hash"),
      todo |-> {"postgres", "redis"}, late |-> FALSE]

Start(c, request) ==
  /\ calls[c].op = "idle" /\ ops < MaxOps
  /\ ops' = ops + 1
  /\ calls' = [calls EXCEPT ![c] = Called(request)]
  /\ UNCHANGED <<rowVars, failed, ghostVars>>

At(c, op, step) == calls[c].op \in op /\ calls[c].step = step
Goto(c, step) == calls' = [calls EXCEPT ![c].step = step]
\* The call is answered, with an error or not.
Answer(c) == calls' = [calls EXCEPT ![c] = Idle]
Same == UNCHANGED <<ops, failed>>

\* A RevokeAll overtakes the calls that are about to store a token.
Overtake(id) ==
  [c \in SessionCalls |->
     IF calls[c].id = id /\ calls[c].op \in {"login", "adminlogin", "refresh"}
     THEN [calls[c] EXCEPT !.late = TRUE] ELSE calls[c]]

-----------------------------------------------------------------------------
(* Login and AdminLogin *)

Authenticates(found, password) ==
  Succeeds(found) /\ found.val.password = password /\ found.val.status = "active"

LoginCheck(c) ==
  /\ At(c, {"login"}, "check")
  /\ IF Authenticates(GetByEmail(users, calls[c].id), calls[c].password)
     THEN Goto(c, "pin") ELSE Answer(c)
  /\ Same /\ UNCHANGED <<rowVars, ghostVars>>

\* The roles are read next; they only go into the access token.
AdminLoginCheck(c) ==
  /\ At(c, {"adminlogin"}, "check")
  /\ IF Authenticates(StaffGetByEmail(staff, calls[c].id), calls[c].password)
     THEN Goto(c, "persist") ELSE Answer(c)
  /\ Same /\ UNCHANGED <<rowVars, ghostVars>>

\* The refresh token is stored; only then is the call answered.
PersistToken(c) ==
  /\ At(c, {"login", "adminlogin", "refresh"}, "persist")
  /\ tokens' = CreateRefreshToken(tokens, RefreshToken(NewHash, calls[c].id))
  /\ origin' = [origin EXCEPT ![NewHash] =
                  [password |-> calls[c].password, replaces |-> calls[c].hash,
                   late |-> calls[c].late]]
  /\ Answer(c)
  /\ Same /\ UNCHANGED <<users, staff, pins, redisVersion, loose, drifted, guesses, openings>>

\* Roles and token version are read together, for the access token.
LoadContext(c) ==
  /\ At(c, {"login", "refresh"}, "context")
  /\ IF Succeeds(RepoGetTokenVersion(users, calls[c].id))
     THEN Goto(c, IF calls[c].op = "login" THEN "persist" ELSE "revoke")
     ELSE Answer(c)
  /\ Same /\ UNCHANGED <<rowVars, ghostVars>>

-----------------------------------------------------------------------------
(* The PIN *)

AfterPin(c) == IF calls[c].op = "login" THEN Goto(c, "context") ELSE Answer(c)

\* Read, lock checked, compared; a wrong one is counted next.
VerifyPIN(c) ==
  LET found == GetByUserID(pins, calls[c].id)
      right == found.val.hash = calls[c].secret
  IN /\ At(c, {"login", "verifypin"}, "pin")
     /\ CASE ~Succeeds(found) \/ found.val.locked -> Answer(c)
          [] OTHER -> CASE ~right -> Goto(c, "count")
                        [] right /\ found.val.attempts > 0 -> Goto(c, "forgive")
                        [] OTHER -> AfterPin(c)
     /\ guesses' = IF Succeeds(found) /\ ~found.val.locked /\ ~right
                   THEN [guesses EXCEPT ![calls[c].id] = @ + 1] ELSE guesses
     /\ Same /\ UNCHANGED <<rowVars, origin, loose, drifted, openings>>

\* Variant: the limit is compared with the number of attempts before this one.
CountAttemptLate(c) ==
  LET after == IncrementPINFailedAttempts(pins, calls[c].id)
      row == CHOOSE p \in RowsOf(after, calls[c].id) : TRUE
  IN /\ At(c, {"login", "verifypin"}, "count")
     /\ pins' = after
     /\ IF row.attempts > MaxPinAttempts THEN Goto(c, "lock") ELSE Answer(c)
     /\ Same /\ UNCHANGED <<users, staff, tokens, redisVersion, ghostVars>>

CountAttempt(c) ==
  LET after == IncrementPINFailedAttempts(pins, calls[c].id)
      row == CHOOSE p \in RowsOf(after, calls[c].id) : TRUE
  IN /\ At(c, {"login", "verifypin"}, "count")
     /\ pins' = after
     /\ IF row.attempts >= MaxPinAttempts THEN Goto(c, "lock") ELSE Answer(c)
     /\ Same /\ UNCHANGED <<users, staff, tokens, redisVersion, ghostVars>>

LockAfterAttempts(c) ==
  /\ At(c, {"login", "verifypin"}, "lock")
  /\ pins' = LockPIN(pins, calls[c].id)
  /\ Answer(c)
  /\ Same /\ UNCHANGED <<users, staff, tokens, redisVersion, ghostVars>>

\* The counter goes back to zero, and no lock stays: not even one that
\* another call has set since this one read the row.
ForgiveAttempts(c) ==
  /\ At(c, {"login", "verifypin"}, "forgive")
  /\ pins' = ResetPINFailedAttempts(pins, calls[c].id)
  /\ guesses' = [guesses EXCEPT ![calls[c].id] = 0]
  /\ openings' = [openings EXCEPT ![calls[c].id] = 0]
  /\ AfterPin(c)
  /\ Same /\ UNCHANGED <<users, staff, tokens, redisVersion, origin, loose, drifted>>

\* locked_until passes; the counter stays where it is.
LockRunsOut(u) ==
  /\ openings[u] < MaxOpenings
  /\ \E p \in RowsOf(pins, u) :
       p.locked /\ pins' = Without(pins, u) \cup {[p EXCEPT !.locked = FALSE]}
  /\ openings' = [openings EXCEPT ![u] = @ + 1]
  /\ Same
  /\ UNCHANGED <<users, staff, tokens, redisVersion, calls, origin, loose, drifted, guesses>>

SetPIN(c) ==
  /\ At(c, {"setpin"}, "pin")
  /\ IF PINExists(pins, calls[c].id) THEN Answer(c) ELSE Goto(c, "write")
  /\ Same /\ UNCHANGED <<rowVars, ghostVars>>

\* The table has one PIN per user: the second of two inserts fails.
InsertPIN(c) ==
  LET result == PinRepoCreate(pins, calls[c].id, calls[c].secret) IN
  /\ At(c, {"setpin"}, "write")
  /\ pins' = IF Succeeds(result) THEN result.val ELSE pins
  /\ Answer(c)
  /\ Same /\ UNCHANGED <<users, staff, tokens, redisVersion, ghostVars>>

\* The old PIN is compared without being counted.
UpdatePIN(c) ==
  LET found == GetByUserID(pins, calls[c].id) IN
  /\ At(c, {"updatepin"}, "pin")
  /\ IF Succeeds(found) THEN IF ~found.val.locked /\ found.val.hash = calls[c].password
                             THEN Goto(c, "write") ELSE Answer(c)
     ELSE Answer(c)
  /\ Same /\ UNCHANGED <<rowVars, ghostVars>>

WritePIN(c) ==
  /\ At(c, {"updatepin"}, "write")
  /\ pins' = UpdatePINHash(pins, calls[c].id, calls[c].secret)
  /\ guesses' = [guesses EXCEPT ![calls[c].id] = 0]
  /\ openings' = [openings EXCEPT ![calls[c].id] = 0]
  /\ Answer(c)
  /\ Same /\ UNCHANGED <<users, staff, tokens, redisVersion, origin, loose, drifted>>

-----------------------------------------------------------------------------
(* Refresh and logout *)

\* Variant: a revoked token is only refused at logout.
LookupTokenOnly(c) ==
  LET found == GetByTokenHash(tokens, calls[c].hash)
      live == IF Succeeds(found) THEN ~found.val.revoked ELSE FALSE
  IN /\ At(c, {"logout", "refresh"}, "lookup")
     /\ IF calls[c].op = "logout" THEN IF live THEN Goto(c, "revoke") ELSE Answer(c)
        ELSE calls' = [calls EXCEPT ![c].step = "account",
                                    ![c].password = origin[calls[c].hash].password,
                                    ![c].late = @ \/ origin[calls[c].hash].late]
     /\ Same /\ UNCHANGED <<rowVars, ghostVars>>

\* The token is looked up; an expired one is refused like a revoked one.
LookupToken(c) ==
  LET found == GetByTokenHash(tokens, calls[c].hash)
      live == IF Succeeds(found) THEN ~found.val.revoked ELSE FALSE
  IN /\ At(c, {"logout", "refresh"}, "lookup")
     /\ \/ ~live /\ Answer(c)
        \/ live /\ calls[c].op = "logout" /\ Goto(c, "revoke")
        \/ /\ live /\ calls[c].op = "refresh"
           /\ \/ Answer(c)
              \/ calls' = [calls EXCEPT ![c].step = "account",
                                        ![c].password = origin[calls[c].hash].password,
                                        ![c].late = @ \/ origin[calls[c].hash].late]
     /\ Same /\ UNCHANGED <<rowVars, ghostVars>>

\* Staff are not in auth.users: their tokens cannot be refreshed.
RefreshAccount(c) ==
  LET found == GetByID(users, calls[c].id) IN
  /\ At(c, {"refresh"}, "account")
  /\ IF Succeeds(found) THEN IF found.val.status = "active" THEN Goto(c, "context") ELSE Answer(c)
     ELSE Answer(c)
  /\ Same /\ UNCHANGED <<rowVars, ghostVars>>

\* The old token goes before the new one is stored; nothing checks that it
\* was still there.
RevokeToken(c) ==
  /\ At(c, {"logout", "refresh"}, "revoke")
  /\ tokens' = RevokeRefreshToken(tokens, calls[c].hash)
  /\ IF calls[c].op = "refresh" THEN Goto(c, "persist") ELSE Answer(c)
  /\ Same /\ UNCHANGED <<users, staff, pins, redisVersion, ghostVars>>

\* Postgres and redis are told in parallel.  Staff are not in auth.users: the
\* postgres half of their logout is an error.
IncrementVersion(c) ==
  LET result == RepoIncrementTokenVersion(users, calls[c].id) IN
  /\ At(c, {"logoutall", "reset"}, "versions") /\ "postgres" \in calls[c].todo
  /\ IF Succeeds(result)
     THEN /\ users' = result.val
          /\ calls' = [calls EXCEPT ![c].todo = @ \ {"postgres"}]
     ELSE /\ UNCHANGED users
          /\ calls' = [calls EXCEPT ![c].step = "aborted"]
  /\ Same /\ UNCHANGED <<staff, tokens, pins, redisVersion, ghostVars>>

\* Variant: SET instead of INCR.
UpgradeVersionSet(c) ==
  /\ At(c, {"logoutall", "reset"}, "versions") /\ "redis" \in calls[c].todo
  /\ redisVersion' = [redisVersion EXCEPT ![calls[c].id] = 1]
  /\ calls' = [calls EXCEPT ![c].todo = @ \ {"redis"}]
  /\ Same /\ UNCHANGED <<users, staff, tokens, pins, ghostVars>>

UpgradeVersion(c) ==
  /\ At(c, {"logoutall", "reset"}, "versions") /\ "redis" \in calls[c].todo
  /\ redisVersion' = [redisVersion EXCEPT ![calls[c].id] = @ + 1]
  /\ calls' = [calls EXCEPT ![c].todo = @ \ {"redis"}]
  /\ Same /\ UNCHANGED <<users, staff, tokens, pins, ghostVars>>

VersionsRaised(c) ==
  /\ At(c, {"logoutall", "reset"}, "versions") /\ calls[c].todo = {}
  /\ Goto(c, "revokeall")
  /\ Same /\ UNCHANGED <<rowVars, ghostVars>>

\* One half fails and the context of the other is cancelled: whichever has
\* not been done by now may still be done, or not.
VersionFails(c) ==
  /\ At(c, {"logoutall", "reset"}, "versions") /\ calls[c].todo # {}
  /\ failed < MaxSessionFaults /\ failed' = failed + 1
  /\ Goto(c, "aborted")
  /\ UNCHANGED <<rowVars, ops, ghostVars>>

AbortVersions(c) ==
  LET id == calls[c].id IN
  /\ At(c, {"logoutall", "reset"}, "aborted")
  /\ \E done \in SUBSET calls[c].todo :
       /\ users' = IF "postgres" \in done THEN IncrementTokenVersion(users, id) ELSE users
       /\ redisVersion' = IF "redis" \in done THEN [redisVersion EXCEPT ![id] = @ + 1]
                          ELSE redisVersion
  /\ drifted' = drifted \cup {id}
  /\ loose' = IF calls[c].op = "reset" THEN loose \cup {id} ELSE loose
  /\ Answer(c)
  /\ Same /\ UNCHANGED <<staff, tokens, pins, origin, guesses, openings>>

\* Variant: the tokens are left as they are.
RevokeNothing(c) ==
  LET id == calls[c].id IN
  /\ At(c, {"logoutall", "change", "reset"}, "revokeall")
  /\ tokens' = tokens
  /\ calls' = [Overtake(id) EXCEPT ![c] = Idle]
  /\ loose' = loose \ {id}
  /\ Same /\ UNCHANGED <<users, staff, pins, redisVersion, origin, drifted, guesses, openings>>

RevokeAll(c) ==
  LET id == calls[c].id IN
  /\ At(c, {"logoutall", "change", "reset"}, "revokeall")
  /\ tokens' = RevokeAllRefreshTokensForUser(tokens, id)
  /\ calls' = [Overtake(id) EXCEPT ![c] = Idle]
  /\ loose' = loose \ {id}
  /\ Same /\ UNCHANGED <<users, staff, pins, redisVersion, origin, drifted, guesses, openings>>

-----------------------------------------------------------------------------
(* Passwords *)

\* ChangePassword verifies the old one; ResetPassword has had its code accepted.
CheckOldPassword(c) ==
  LET found == GetByID(users, calls[c].id) IN
  /\ At(c, {"change"}, "check")
  /\ IF Succeeds(found) THEN IF found.val.password = calls[c].password THEN Goto(c, "write")
                             ELSE Answer(c)
     ELSE Answer(c)
  /\ Same /\ UNCHANGED <<rowVars, ghostVars>>

FindResetUser(c) ==
  /\ At(c, {"reset"}, "check")
  /\ IF Succeeds(GetByEmail(users, calls[c].id)) THEN Goto(c, "write") ELSE Answer(c)
  /\ Same /\ UNCHANGED <<rowVars, ghostVars>>

WritePassword(c) ==
  /\ At(c, {"change", "reset"}, "write")
  /\ users' = UpdatePassword(users, calls[c].id, calls[c].secret)
  /\ Goto(c, IF calls[c].op = "change" THEN "revokeall" ELSE "versions")
  /\ Same /\ UNCHANGED <<staff, tokens, pins, redisVersion, ghostVars>>

\* A statement fails, or the process ends, after some of a call's writes.
FailCall(c) ==
  /\ failed < MaxSessionFaults /\ failed' = failed + 1
  /\ calls[c].step \notin {"idle", "versions", "aborted"}
  /\ loose' = IF calls[c].step = "revokeall" /\ calls[c].op # "logoutall"
              THEN loose \cup {calls[c].id} ELSE loose
  /\ openings' = IF calls[c].step \in {"count", "lock"} THEN [openings EXCEPT ![calls[c].id] = @ + 1]
                 ELSE openings
  /\ Answer(c)
  /\ UNCHANGED <<rowVars, ops, origin, drifted, guesses>>

-----------------------------------------------------------------------------
(* What administrators do to an account: one statement each, and no session *)
(* is ended.                                                                *)

AdminSetsPassword(u, password) ==
  LET result == AdminUpdate(users, u, "none", password) IN
  /\ ops < MaxOps /\ ops' = ops + 1
  /\ Succeeds(result) /\ users' = result.val
  /\ loose' = loose \cup {u}
  /\ UNCHANGED <<staff, tokens, pins, redisVersion, calls, failed, origin, drifted, guesses, openings>>

AdminSetsStatus(u, status) ==
  /\ ops < MaxOps /\ ops' = ops + 1
  /\ users' = IF status = "deleted" THEN SoftDeleteUser(users, u)
              ELSE UpdateUserStatus(users, u, status)
  /\ UNCHANGED <<staff, tokens, pins, redisVersion, calls, failed, ghostVars>>

-----------------------------------------------------------------------------
PinRequests == SetPINRequests \cup UpdatePINRequests \cup VerifyPINRequests
SessionRequests ==
  LoginRequests \cup AdminLoginRequests \cup LogoutRequests \cup RefreshRequests
    \cup ChangePasswordRequests \cup ResetPasswordRequests
Requests == PinRequests \cup SessionRequests

CallStep(c) ==
  \/ LoginCheck(c) \/ AdminLoginCheck(c) \/ LoadContext(c) \/ PersistToken(c)
  \/ VerifyPIN(c) \/ CountAttempt(c) \/ LockAfterAttempts(c) \/ ForgiveAttempts(c)
  \/ SetPIN(c) \/ InsertPIN(c) \/ UpdatePIN(c) \/ WritePIN(c)
  \/ LookupToken(c) \/ RefreshAccount(c) \/ RevokeToken(c)
  \/ IncrementVersion(c) \/ UpgradeVersion(c) \/ VersionsRaised(c)
  \/ VersionFails(c) \/ AbortVersions(c) \/ RevokeAll(c)
  \/ CheckOldPassword(c) \/ FindResetUser(c) \/ WritePassword(c)
  \/ FailCall(c)

AdminStep(u) ==
  \/ \E p \in Passwords : AdminSetsPassword(u, p)
  \/ \E s \in {"active", "suspended", "deleted"} : AdminSetsStatus(u, s)

SessionsNext ==
  \/ \E c \in SessionCalls : CallStep(c) \/ \E r \in Requests : Start(c, r)
  \/ \E u \in Users : LockRunsOut(u) \/ AdminStep(u)

SessionsSpec == SessionsInit /\ [][SessionsNext]_sessionVars

-----------------------------------------------------------------------------
(* Properties *)

\* The shape of the rows and of the calls; one PIN per user.
SessionsTypeOK ==
  /\ {u.id : u \in users} = Users
  /\ \A u \in users : u.status \in {"active", "suspended", "deleted"} /\ u.password \in Passwords
  /\ tokens \subseteq [hash : Hashes, user : Accounts, revoked : BOOLEAN]
  /\ \A p1, p2 \in pins : p1.id = p2.id => p1 = p2
  /\ \A c \in SessionCalls : calls[c].todo \subseteq {"postgres", "redis"}

\* Some call is between writing the user's new password and ending the sessions.
ChangingPassword(u) ==
  \E c \in SessionCalls :
    /\ calls[c].id = u /\ calls[c].op \in {"change", "reset"}
    /\ calls[c].step \in {"versions", "aborted", "revokeall"}

\* "Revoke all existing refresh tokens so other devices cannot renew
\* sessions": a live refresh token comes from a login with the password the
\* user has now, unless a change is under way, was half done or was made by an
\* administrator, or the token's own call was overtaken by the revocation.
SessionsFollowPassword ==
  \A t \in tokens : (t.user \in Users /\ ~t.revoked) =>
    \/ \E u \in users : u.id = t.user /\ u.password = origin[t.hash].password
    \/ t.user \in loose \/ origin[t.hash].late
    \/ ChangingPassword(t.user)

\* Rotation: a refresh token is replaced once by each of the calls that overlap, and
\* never again: what a call has revoked no later call can refresh.
TokensRotate ==
  \A t \in tokens :
    Cardinality({n \in tokens : origin[n.hash].replaces = t.hash}) <= Cardinality(SessionCalls)

\* Sessions (auth_usecase.go): what refresh tokens are worth after a change of
\* the password, and after a refresh.
SessionsHold == SessionsTypeOK /\ SessionsFollowPassword /\ TokensRotate

\* The two copies of a user's token version agree, except while a call is
\* raising them or after one of the two could not be raised.
VersionsAgree ==
  \A u \in users :
    \/ u.version = redisVersion[u.id]
    \/ u.id \in drifted
    \/ \E c \in SessionCalls : calls[c].id = u.id /\ calls[c].step \in {"versions", "aborted"}

\* The lock of the PIN under concurrent verifications: a counter at the limit
\* means a lock, unless one is being set, ran out or failed; and however the
\* calls interleave, the wrong PINs compared between two returns of the
\* counter to zero stay within the limit, one round of calls in progress, and
\* one more round for every lock that ran out or statement that failed.
PinLockHolds ==
  \A p \in pins :
    /\ p.attempts >= MaxPinAttempts =>
         \/ p.locked \/ openings[p.id] > 0
         \/ \E c \in SessionCalls : calls[c].id = p.id /\ calls[c].step = "lock"
    /\ guesses[p.id] <= MaxPinAttempts - 1 + Cardinality(SessionCalls) * (1 + openings[p.id])
=============================================================================
