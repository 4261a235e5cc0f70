------------------------------ MODULE Accounts ------------------------------
(***************************************************************************)
(* What administrators do in the auth service: users, staff, roles,        *)
(* permissions, and the seeding of the first administrator at start.  A    *)
(* call is a step per statement that changes a row, with what was read     *)
(* before kept in the call; it may stop between any two of them.  A row is *)
(* named by the number of its insert.                                      *)
(***************************************************************************)
EXTENDS AuthRows

CONSTANTS AdminCalls,       \* calls that may be in progress together
          Emails, Handles,  \* of new accounts
          RoleNames,        \* names roles are created with or renamed to
          MaxActs,          \* bound on the calls of a behaviour
          MaxAdminFaults    \* bound on calls that stop half-way

\* The roles of the seed migration.
protectedRoles == {"user", "merchant", "admin"}
AdminEmail == "admin@"

ASSUME AccountsAssumption ==
  /\ {MaxActs, MaxAdminFaults} \subseteq Nat /\ protectedRoles \subseteq RoleNames
  /\ AdminEmail \notin Emails

VARIABLES userT, pinT, staffT, roleT, permT,   \* the tables
          userRoles, staffRoles, grants,       \* the tables of pairs
          rows,                                \* rows inserted so far
          adminCalls, acts, adminFaults,
          \* what the properties remember
          halfMade,  \* accounts whose creation stopped or failed after the insert
          stripped,  \* accounts that had a role taken away
          renamed    \* protected names that an UpdateRole replaced

accountRows == <<userT, pinT, staffT, roleT, permT, userRoles, staffRoles, grants, rows>>
accountVars == <<accountRows, adminCalls, acts, adminFaults, halfMade, stripped, renamed>>

NoAct == [op |-> "idle", step |-> "idle", who |-> 0, email |-> "none", handle |-> "none",
          role |-> 0, name |-> "none", todo |-> {}]

AccountsInit ==
  /\ roleT = {Named(1, "user"), Named(2, "merchant"), Named(3, "admin")} /\ rows = 3
  /\ userT = {} /\ pinT = {} /\ staffT = {} /\ permT = {}
  /\ userRoles = {} /\ staffRoles = {} /\ grants = {}
  /\ adminCalls = [c \in AdminCalls |-> NoAct] /\ acts = 0 /\ adminFaults = 0
  /\ halfMade = {} /\ stripped = {} /\ renamed = {}

-----------------------------------------------------------------------------
(* Requests the handlers let through *)

Ids(table) == {row.id : row \in table}
CreateUserRequests == [op : {"createuser"}, email : Emails, name : RoleNames]
UpdateUserRequests == [op : {"updateuser"}, who : Ids(userT), email : Emails]
UserStatusRequests == [op : {"pending", "active", "suspended", "deleted"}, who : Ids(userT)]
CreateStaffRequests == [op : {"createstaff"}, email : Emails, name : RoleNames]
UpdateStaffRequests == [op : {"updatestaff"}, who : Ids(staffT), email : Emails]
StaffStatusRequests == [op : {"pending", "active", "suspended", "deleted"}, who : Ids(staffT)]
CreateRoleRequests == [op : {"createrole"}, name : RoleNames]
UpdateRoleRequests ==
  [op : {"renamerole"}, role : Ids(roleT), name : RoleNames]
    \cup [op : {"describerole"}, role : Ids(roleT)]
DeleteRoleRequests == [op : {"deleterole"}, role : Ids(roleT)]
AssignRoleRequests == [op : {"assign"}, who : Ids(userT), role : Ids(roleT)]
RemoveRoleRequests == [op : {"remove"}, who : Ids(userT), role : Ids(roleT)]
CreatePermissionRequests == [op : {"createperm"}, name : {"dashboard.read"}]
UpdatePermissionRequests == [op : {"updateperm"}, who : Ids(permT), name : {"users.read"}]
DeletePermissionRequests == [op : {"deleteperm"}, who : Ids(permT)]
GrantRequests == [op : {"grant"}, role : Ids(roleT), who : Ids(permT)]
RevokeRequests == [op : {"revoke"}, role : Ids(roleT), who : Ids(permT)]
PictureRequests == [op : {"picture"}, who : Ids(userT)]
SeedRequests == [op : {"seed"}, email : {AdminEmail}, name : {"admin"}]

Act(c, request) ==
  /\ adminCalls[c] = NoAct /\ acts < MaxActs
  /\ acts' = acts + 1
  /\ adminCalls' = [adminCalls EXCEPT ![c] =
       [f \in DOMAIN NoAct |->
          CASE f = "step" -> "read"
            [] f \in DOMAIN request -> request[f]
            [] OTHER -> NoAct[f]]]
  /\ UNCHANGED <<accountRows, adminFaults, halfMade, stripped, renamed>>

\* The call c reads and goes on to "step", or ends.
Reads(c, op, goesOn, call) ==
  /\ adminCalls[c].op = op /\ adminCalls[c].step = "read"
  /\ adminCalls' = [adminCalls EXCEPT ![c] = IF goesOn THEN call ELSE NoAct]
  /\ UNCHANGED <<accountRows, acts, adminFaults, halfMade, stripped, renamed>>
Doing(c, op, step) == adminCalls[c].op \in op /\ adminCalls[c].step = step
Over(c) == adminCalls' = [adminCalls EXCEPT ![c] = NoAct]
Remembered == UNCHANGED <<acts, adminFaults, halfMade, stripped, renamed>>
\* The table after a statement that succeeds, or as it was.
After(result, table) == IF Succeeds(result) THEN result.val ELSE table

-----------------------------------------------------------------------------
(* Users *)

generateHandle(h) == ~HandleExists(userT, h)

\* Four queries in parallel; the role's name is lower-cased first.  What they
\* find is checked again by the constraints on the inserts.
PrepareUser(c) ==
  \E h \in Handles :
    LET role == RoleGetByName(roleT, adminCalls[c].name)
        unique == CheckUniqueFields(userT, adminCalls[c].email, "none")
        goesOn == Succeeds(role) /\ Succeeds(unique) /\ generateHandle(h)
    IN Reads(c, "createuser", goesOn,
             [adminCalls[c] EXCEPT !.step = "insert", !.handle = h,
                                   !.role = IF Succeeds(role) THEN role.val.id ELSE 0])

\* The user and the PIN, in one transaction.  No registration event is written.
InsertUser(c) ==
  LET call == adminCalls[c]
      id == rows + 1
      inserted == UserRepoCreate(userT, User(id, call.email, "none", call.handle, "secret"))
  IN /\ Doing(c, {"createuser"}, "insert")
     /\ userT' = After(inserted, userT)
     /\ IF Succeeds(inserted)
        THEN /\ rows' = id /\ pinT' = PinRepoCreate(pinT, id, "pin").val
             /\ adminCalls' = [adminCalls EXCEPT ![c].step = "finish", ![c].who = id,
                                                 ![c].todo = {"verify", "assign"}]
        ELSE Over(c) /\ UNCHANGED <<rows, pinT>>
     /\ UNCHANGED <<staffT, roleT, permT, userRoles, staffRoles, grants>> /\ Remembered

\* Two statements in parallel, outside the transaction.
VerifyNewUser(c) ==
  /\ Doing(c, {"createuser"}, "finish") /\ "verify" \in adminCalls[c].todo
  /\ userT' = VerifyEmail(userT, adminCalls[c].who)
  /\ adminCalls' = [adminCalls EXCEPT ![c].todo = @ \ {"verify"}]
  /\ UNCHANGED <<pinT, staffT, roleT, permT, userRoles, staffRoles, grants, rows>> /\ Remembered

\* Variant: an error of the assignment is not looked at.
AssignNewUserOnly(c) ==
  LET call == adminCalls[c]
      assigned == RoleRepoAssign(userRoles, userT, roleT, call.who, call.role)
  IN /\ Doing(c, {"createuser"}, "finish") /\ "assign" \in call.todo
     /\ userRoles' = After(assigned, userRoles)
     /\ adminCalls' = [adminCalls EXCEPT ![c].todo = @ \ {"assign"}]
     /\ UNCHANGED <<pinT, userT, staffT, roleT, permT, staffRoles, grants, rows>>
     /\ Remembered

\* The role may have been deleted since; then the call fails, and whether the
\* other statement was still made is open.
AssignNewUser(c) ==
  LET call == adminCalls[c]
      assigned == RoleRepoAssign(userRoles, userT, roleT, call.who, call.role)
  IN /\ Doing(c, {"createuser"}, "finish") /\ "assign" \in call.todo
     /\ userRoles' = After(assigned, userRoles)
     /\ IF Succeeds(assigned)
        THEN /\ adminCalls' = [adminCalls EXCEPT ![c].todo = @ \ {"assign"}]
             /\ UNCHANGED <<userT, halfMade>>
        ELSE /\ Over(c) /\ halfMade' = halfMade \cup {call.who}
             /\ userT' \in {userT, VerifyEmail(userT, call.who)}
     /\ UNCHANGED <<pinT, staffT, roleT, permT, staffRoles, grants, rows,
                    acts, adminFaults, stripped, renamed>>

UserCreated(c) ==
  /\ Doing(c, {"createuser"}, "finish") /\ adminCalls[c].todo = {}
  /\ Over(c) /\ UNCHANGED accountRows /\ Remembered

UpdateUser(c) ==
  /\ Doing(c, {"updateuser"}, "read")
  /\ userT' = After(AdminUpdate(userT, adminCalls[c].who, adminCalls[c].email, "none"), userT)
  /\ Over(c)
  /\ UNCHANGED <<pinT, staffT, roleT, permT, userRoles, staffRoles, grants, rows>> /\ Remembered

\* A status may be set on a deleted account too: it is back then.
SetStatus(c) ==
  LET call == adminCalls[c] IN
  /\ Doing(c, {"pending", "active", "suspended"}, "read")
  /\ userT' = UpdateUserStatus(userT, call.who, call.op)
  /\ staffT' = After(StaffUpdateStatus(staffT, call.who, call.op), staffT)
  /\ Over(c)
  /\ UNCHANGED <<pinT, roleT, permT, userRoles, staffRoles, grants, rows>> /\ Remembered

DeleteUser(c) ==
  /\ Doing(c, {"deleted"}, "read") /\ adminCalls[c].who \in Ids(userT)
  /\ userT' = SoftDeleteUser(userT, adminCalls[c].who) /\ Over(c)
  /\ UNCHANGED <<pinT, staffT, roleT, permT, userRoles, staffRoles, grants, rows>> /\ Remembered

\* The address is checked to be the user's own first.
SetPicture(c) ==
  /\ Doing(c, {"picture"}, "read")
  /\ userT' = After(RepoUpdateProfilePicture(userT, adminCalls[c].who, "url"), userT) /\ Over(c)
  /\ UNCHANGED <<pinT, staffT, roleT, permT, userRoles, staffRoles, grants, rows>> /\ Remembered

-----------------------------------------------------------------------------
(* Staff, and the administrator seeded at start *)

\* EmailExists, then the role by its name.
PrepareStaff(c) ==
  LET role == RoleGetByName(roleT, adminCalls[c].name)
      goesOn == ~StaffEmailExists(staffT, adminCalls[c].email) /\ Succeeds(role)
  IN \E op \in {"createstaff", "seed"} :
       Reads(c, op, goesOn, [adminCalls[c] EXCEPT !.step = "insert",
                               !.role = IF Succeeds(role) THEN role.val.id ELSE 0])

InsertStaff(c) ==
  LET id == rows + 1
      inserted == StaffCreate(staffT, StaffMember(id, adminCalls[c].email, "secret"))
  IN /\ Doing(c, {"createstaff", "seed"}, "insert")
     /\ staffT' = After(inserted, staffT)
     /\ IF Succeeds(inserted)
        THEN /\ rows' = id
             /\ adminCalls' = [adminCalls EXCEPT ![c].step = "finish", ![c].who = id]
        ELSE Over(c) /\ UNCHANGED rows
     /\ UNCHANGED <<userT, pinT, roleT, permT, userRoles, staffRoles, grants>> /\ Remembered

AssignStaff(c) ==
  LET call == adminCalls[c]
      assigned == StaffAssignRole(staffRoles, staffT, roleT, call.who, call.role)
  IN /\ Doing(c, {"createstaff", "seed"}, "finish")
     /\ staffRoles' = After(assigned, staffRoles)
     /\ halfMade' = IF Succeeds(assigned) THEN halfMade ELSE halfMade \cup {call.who}
     /\ Over(c)
     /\ UNCHANGED <<userT, pinT, staffT, roleT, permT, userRoles, grants, rows,
                    acts, adminFaults, stripped, renamed>>

UpdateStaff(c) ==
  /\ Doing(c, {"updatestaff"}, "read")
  /\ staffT' = After(StaffUpdate(staffT, adminCalls[c].who, adminCalls[c].email, "none"), staffT)
  /\ Over(c)
  /\ UNCHANGED <<userT, pinT, roleT, permT, userRoles, staffRoles, grants, rows>> /\ Remembered

DeleteStaff(c) ==
  /\ Doing(c, {"deleted"}, "read") /\ adminCalls[c].who \in Ids(staffT)
  /\ staffT' = After(StaffSoftDelete(staffT, adminCalls[c].who), staffT) /\ Over(c)
  /\ UNCHANGED <<userT, pinT, roleT, permT, userRoles, staffRoles, grants, rows>> /\ Remembered

-----------------------------------------------------------------------------
(* Roles *)

LookupRoleName(c) ==
  Reads(c, "createrole", ~Succeeds(RoleGetByName(roleT, adminCalls[c].name)),
        [adminCalls[c] EXCEPT !.step = "write"])

InsertRole(c) ==
  LET inserted == RoleRepoCreate(roleT, Named(rows + 1, adminCalls[c].name)) IN
  /\ Doing(c, {"createrole"}, "write")
  /\ roleT' = After(inserted, roleT)
  /\ rows' = IF Succeeds(inserted) THEN rows + 1 ELSE rows
  /\ Over(c)
  /\ UNCHANGED <<userT, pinT, staffT, permT, userRoles, staffRoles, grants>> /\ Remembered

\* The whole row is read, changed and written back: a new description brings
\* back the name that was read.
ReadRole(c) ==
  LET role == RoleGetByID(roleT, adminCalls[c].role) IN
  \/ Reads(c, "renamerole", Succeeds(role), [adminCalls[c] EXCEPT !.step = "write"])
  \/ Reads(c, "describerole", Succeeds(role),
           [adminCalls[c] EXCEPT !.step = "write",
                                 !.name = IF Succeeds(role) THEN role.val.name ELSE "none"])

WriteRole(c) ==
  LET call == adminCalls[c]
      written == RoleRepoUpdate(roleT, call.role, call.name)
      names(table) == {r.name : r \in RowsOf(table, call.role)}
  IN /\ Doing(c, {"renamerole", "describerole"}, "write")
     /\ roleT' = After(written, roleT) /\ Over(c)
     /\ renamed' = renamed \cup ((names(roleT) \ names(roleT')) \cap protectedRoles)
     /\ UNCHANGED <<userT, pinT, staffT, permT, userRoles, staffRoles, grants, rows,
                    acts, adminFaults, halfMade, stripped>>

\* Variant: the name is not looked at.
CheckRoleExists(c) ==
  Reads(c, "deleterole", Succeeds(RoleGetByID(roleT, adminCalls[c].role)),
        [adminCalls[c] EXCEPT !.step = "write"])

CheckRole(c) ==
  LET role == RoleGetByID(roleT, adminCalls[c].role) IN
  Reads(c, "deleterole",
        IF Succeeds(role) THEN role.val.name \notin protectedRoles ELSE FALSE,
        [adminCalls[c] EXCEPT !.step = "write"])

\* Whoever has the role loses it.
RemoveRole(c) ==
  LET role == adminCalls[c].role
      had == {p[1] : p \in {q \in userRoles \cup staffRoles : q[2] = role}}
  IN /\ Doing(c, {"deleterole"}, "write")
     /\ roleT' = DeleteRole(roleT, role)
     /\ userRoles' = CascadeRole(userRoles, role) /\ staffRoles' = CascadeRole(staffRoles, role)
     /\ grants' = {g \in grants : g[1] # role}
     /\ stripped' = stripped \cup had
     /\ Over(c)
     /\ UNCHANGED <<userT, pinT, staffT, permT, rows, acts, adminFaults, halfMade, renamed>>

\* The user and the role are looked up first; the foreign keys say the same.
AssignRole(c) ==
  LET call == adminCalls[c] IN
  /\ Doing(c, {"assign"}, "read")
  /\ userRoles' = After(RoleRepoAssign(userRoles, userT, roleT, call.who, call.role), userRoles)
  /\ Over(c)
  /\ UNCHANGED <<userT, pinT, staffT, roleT, permT, staffRoles, grants, rows>> /\ Remembered

RemoveUserRole(c) ==
  LET call == adminCalls[c] IN
  /\ Doing(c, {"remove"}, "read")
  /\ userRoles' = RemoveRoleFromUser(userRoles, call.who, call.role)
  /\ stripped' = stripped \cup {p[1] : p \in userRoles \ userRoles'}
  /\ Over(c)
  /\ UNCHANGED <<userT, pinT, staffT, roleT, permT, staffRoles, grants, rows,
                 acts, adminFaults, halfMade, renamed>>

-----------------------------------------------------------------------------
(* Permissions *)

LookupPermissionName(c) ==
  Reads(c, "createperm", ~Succeeds(PermissionGetByName(permT, adminCalls[c].name)),
        [adminCalls[c] EXCEPT !.step = "write"])

InsertPermission(c) ==
  LET inserted == PermissionRepoCreate(permT, Named(rows + 1, adminCalls[c].name)) IN
  /\ Doing(c, {"createperm"}, "write")
  /\ permT' = After(inserted, permT)
  /\ rows' = IF Succeeds(inserted) THEN rows + 1 ELSE rows
  /\ Over(c)
  /\ UNCHANGED <<userT, pinT, staffT, roleT, userRoles, staffRoles, grants>> /\ Remembered

ReadPermission(c) ==
  \E op \in {"updateperm", "deleteperm"} :
    Reads(c, op, Succeeds(PermissionGetByID(permT, adminCalls[c].who)),
          [adminCalls[c] EXCEPT !.step = "write"])

WritePermission(c) ==
  LET call == adminCalls[c] IN
  /\ Doing(c, {"updateperm"}, "write")
  /\ permT' = After(PermissionRepoUpdate(permT, call.who, call.name), permT) /\ Over(c)
  /\ UNCHANGED <<userT, pinT, staffT, roleT, userRoles, staffRoles, grants, rows>> /\ Remembered

RemovePermission(c) ==
  LET perm == adminCalls[c].who IN
  /\ Doing(c, {"deleteperm"}, "write")
  /\ permT' = DeletePermission(permT, perm)
  /\ grants' = {g \in grants : g[2] # perm}
  /\ Over(c)
  /\ UNCHANGED <<userT, pinT, staffT, roleT, userRoles, staffRoles, rows>> /\ Remembered

GrantPermission(c) ==
  LET call == adminCalls[c] IN
  /\ Doing(c, {"grant"}, "read")
  /\ grants' = After(PermissionRepoAssign(grants, roleT, permT, call.role, call.who), grants)
  /\ Over(c)
  /\ UNCHANGED <<userT, pinT, staffT, roleT, permT, userRoles, staffRoles, rows>> /\ Remembered

RevokePermission(c) ==
  LET call == adminCalls[c] IN
  /\ Doing(c, {"revoke"}, "read")
  /\ grants' = RemovePermissionFromRole(grants, call.role, call.who)
  /\ Over(c)
  /\ UNCHANGED <<userT, pinT, staffT, roleT, permT, userRoles, staffRoles, rows>> /\ Remembered

-----------------------------------------------------------------------------
\* A statement fails, or the process ends.
StopAct(c) ==
  /\ adminFaults < MaxAdminFaults /\ adminFaults' = adminFaults + 1
  /\ adminCalls[c] # NoAct
  /\ halfMade' = IF adminCalls[c].step = "finish" THEN halfMade \cup {adminCalls[c].who} ELSE halfMade
  /\ Over(c)
  /\ UNCHANGED <<accountRows, acts, stripped, renamed>>

UserAndStaffRequests ==
  CreateUserRequests \cup UpdateUserRequests \cup UserStatusRequests \cup PictureRequests
    \cup CreateStaffRequests \cup UpdateStaffRequests \cup StaffStatusRequests \cup SeedRequests
RoleRequests ==
  CreateRoleRequests \cup UpdateRoleRequests \cup DeleteRoleRequests
    \cup AssignRoleRequests \cup RemoveRoleRequests
PermissionRequests ==
  CreatePermissionRequests \cup UpdatePermissionRequests \cup DeletePermissionRequests
    \cup GrantRequests \cup RevokeRequests

AccountStep(c) ==
  \/ PrepareUser(c) \/ InsertUser(c) \/ VerifyNewUser(c) \/ AssignNewUser(c) \/ UserCreated(c)
  \/ UpdateUser(c) \/ SetStatus(c) \/ DeleteUser(c) \/ SetPicture(c)
  \/ PrepareStaff(c) \/ InsertStaff(c) \/ AssignStaff(c) \/ UpdateStaff(c) \/ DeleteStaff(c)
  \/ LookupRoleName(c) \/ InsertRole(c) \/ ReadRole(c) \/ WriteRole(c)
  \/ CheckRole(c) \/ RemoveRole(c) \/ AssignRole(c) \/ RemoveUserRole(c)
  \/ LookupPermissionName(c) \/ InsertPermission(c) \/ ReadPermission(c)
  \/ WritePermission(c) \/ RemovePermission(c) \/ GrantPermission(c) \/ RevokePermission(c)
  \/ StopAct(c)

AccountsNext ==
  \E c \in AdminCalls :
    \/ AccountStep(c)
    \/ \E r \in UserAndStaffRequests \cup RoleRequests \cup PermissionRequests : Act(c, r)

AccountsSpec == AccountsInit /\ [][AccountsNext]_accountVars

-----------------------------------------------------------------------------
(* What the lists show of an account: one of its roles, or "user" (of staff  *)
(* "staff") when it has none.                                               *)

toAdminUserSummary(u, role) == [id |-> u.id, email |-> u.email, status |-> u.status, role |-> role]
RolesShown(found, default) == IF found = {} THEN {default} ELSE {r.name : r \in found}
ListUsers ==
  UNION {{toAdminUserSummary(u, role) : role \in RolesShown(GetUserRoles(roleT, userRoles, u.id), "user")}
           : u \in userT}
ListStaff ==
  UNION {{toAdminUserSummary(s, role) : role \in RolesShown(StaffGetRoles(roleT, staffRoles, s.id), "staff")}
           : s \in staffT}

(* Properties *)

\* The tables keep their keys and references however the calls interleave:
\* names, e-mails and handles are unique, every pair refers to rows that are
\* there, every user has a PIN.
AccountsTypeOK ==
  /\ \A t \in {roleT, permT} : \A a, b \in t : (a.name = b.name \/ a.id = b.id) => a = b
  /\ \A a, b \in userT : (a.email = b.email \/ a.handle = b.handle) => a = b
  /\ \A a, b \in staffT : a.email = b.email => a = b
  /\ \A p \in userRoles : p[1] \in Ids(userT) /\ p[2] \in Ids(roleT)
  /\ \A p \in staffRoles : p[1] \in Ids(staffT) /\ p[2] \in Ids(roleT)
  /\ \A g \in grants : g[1] \in Ids(roleT) /\ g[2] \in Ids(permT)
  /\ Ids(userT) = Ids(pinT)

\* Whoever the lists show with the fallback role has that very role, or is
\* being created, or was left without by a creation that did not end, or had
\* a role taken away: an answer "created" means an account that has its role.
RolelessIsExplained ==
  \A s \in ListUsers \cup ListStaff :
    \/ \E p \in userRoles \cup staffRoles : p[1] = s.id
    \/ s.id \in halfMade \cup stripped
    \/ \E c \in AdminCalls : adminCalls[c].who = s.id /\ adminCalls[c].step = "finish"

\* Accounts and roles (user_usecase.go, staff_usecase.go, roles_usecase.go):
\* the tables keep their references and nobody lacks a role unexplained.
AccountsHold == AccountsTypeOK /\ RolelessIsExplained

\* Registration finds its role: the three roles it and the seed look up by
\* name are there, unless one was given another name (which nothing refuses).
ProtectedRolesStay == protectedRoles \subseteq {r.name : r \in roleT} \cup renamed
=============================================================================
