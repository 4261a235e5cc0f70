SPECIFICATION IdentitySpec
CONSTANTS
  Users = {u1}
  StaffIds = {s1}
  SessionCalls = {c1, c2}
  Passwords = {w1, w2}
  Pins = {p1, p2}
  MaxPinAttempts = 2
  MaxOps = 4
  MaxOpenings = 1
  MaxSessionFaults = 1
  Nobody = Nobody
  CodeCalls = {c1, c2}
  MaxVerifyAttempts = 1
  MaxIssues = 2
  MaxAsked = 5
  MaxCodeFaults = 1
  AdminCalls = {c1, c2}
  Emails = {e1, e2}
  Handles = {h1, h2}
  RoleNames = {"user", "merchant", "admin", "vip"}
  MaxActs = 3
  MaxAdminFaults = 1
SYMMETRY Symmetric
INVARIANTS
  SessionsHold
  VersionsAgree
  PinLockHolds
  CodesResistGuessing
  CooldownIsExplained
  AccountsHold
  ProtectedRolesStay
CHECK_DEADLOCK FALSE
