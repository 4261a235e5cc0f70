----------------------------- MODULE MCIdentity -----------------------------
(* The auth service for TLC.  Its parts share no state that both write, so *)
(* each behaviour is of one part, with the calls that can disturb each     *)
(* other: sessions and passwords, the PIN, each kind of mailed code,       *)
(* accounts and roles, permissions and roles.                              *)
EXTENDS Sessions, Codes, Accounts, TLC

VARIABLE part

\* One call has sent a code: a state behaviours of codes come to, and start
\* from as well, so that what takes many calls is found sooner.
CodeMailed ==
  LET k == IF registered THEN "reset" ELSE "register"
      first(v, v0) == [kind \in Kinds |-> IF kind = k THEN v ELSE v0]
  IN /\ part = k
     /\ otp = first(SetCooldown(SetOTP(NoKeys, 1)), NoKeys)
     /\ issued = first(1, 0) /\ mailed = first({1}, {})
     /\ verified = FALSE
     /\ codeCalls = [c \in CodeCalls |-> NoCodeCall] /\ asked = 1 /\ codeFaults = 0
     /\ tries = PerKind(0) /\ accepted = PerKind(0) /\ rewinds = PerKind(0)

IdentityInit ==
  /\ part \in {"sessions", "pin", "register", "reset", "accounts", "permissions"}
  /\ SessionsInit /\ AccountsInit
  /\ \/ CodesInit
     \/ registered \in BOOLEAN /\ CodeMailed
  /\ part = "sessions" => pins # {}
  /\ part # "sessions" => tokens = {}
  /\ part \notin {"sessions", "pin"} =>
       pins = {} /\ \A u \in users : u.password = CHOOSE w \in Passwords : TRUE
  /\ part \notin Kinds => ~registered

\* A login in "sessions" has the right PIN, one in "pin" the right password.
SessionRequestsHere ==
  {r \in SessionRequests : r.op = "login" => \A p \in pins : p.hash = r.secret}
PinRequestsHere ==
  PinRequests \cup {r \in LoginRequests : \A u \in users : u.password = r.password}

SessionsStep ==
  \/ \E c \in SessionCalls : CallStep(c)
  \/ /\ ops < MaxOps - 1
     /\ \/ \E u \in Users : AdminStep(u)
        \/ \E c \in SessionCalls, r \in SessionRequestsHere : Start(c, r)

PinStep ==
  \/ \E c \in SessionCalls : CallStep(c) \/ \E r \in PinRequestsHere : Start(c, r)
  \/ \E u \in Users : LockRunsOut(u)

CodesStep ==
  /\ CodesNext
  /\ \A c \in CodeCalls : codeCalls'[c].op # "idle" => codeCalls'[c].kind = part

AccountsStep ==
  \E c \in AdminCalls : AccountStep(c) \/ \E r \in UserAndStaffRequests \cup RoleRequests : Act(c, r)

PermissionsStep ==
  \E c \in AdminCalls : AccountStep(c) \/ \E r \in PermissionRequests \cup RoleRequests : Act(c, r)

IdentityNext ==
  /\ UNCHANGED part
  /\ \/ part = "sessions" /\ SessionsStep /\ UNCHANGED <<codeVars, accountVars>>
     \/ part = "pin" /\ PinStep /\ UNCHANGED <<codeVars, accountVars>>
     \/ part \in Kinds /\ CodesStep /\ UNCHANGED <<sessionVars, accountVars>>
     \/ part = "accounts" /\ AccountsStep /\ UNCHANGED <<sessionVars, codeVars>>
     \/ part = "permissions" /\ PermissionsStep /\ UNCHANGED <<sessionVars, codeVars>>

IdentitySpec == IdentityInit /\ [][IdentityNext]_<<sessionVars, codeVars, accountVars, part>>

\* The three sets of calls are one.
Symmetric == Permutations(SessionCalls) \cup Permutations(Handles)
=============================================================================
