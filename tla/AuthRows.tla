------------------------------ MODULE AuthRows ------------------------------
(***************************************************************************)
(* The tables of the auth database, as sets of rows, with the statements   *)
(* of its queries (each maps a table to the table after it, or to the rows *)
(* found) and the repositories over them (which say what a statement       *)
(* returns when it finds nothing or breaks a constraint).                  *)
(* Times, descriptions and display names are left out.                     *)
(***************************************************************************)
EXTENDS Naturals, FiniteSets, Outcomes

-----------------------------------------------------------------------------
(* auth.users *)

User(id, email, phone, handle, password) ==
  [id |-> id, email |-> email, phone |-> phone, handle |-> handle,
   password |-> password, status |-> "pending", version |-> 0, picture |-> "none"]

\* The insert names neither status nor version: they get their defaults.
CreateUser(users, user) == users \cup {user}
GetUserByID(users, id) == RowsOf(users, id)
GetUserByEmail(users, email) == {u \in users : u.email = email}
GetUserByPhone(users, phone) == {u \in users : u.phone = phone}
EmailExists(users, email) == \E u \in users : u.email = email
HandleExists(users, handle) == \E u \in users : u.handle = handle
PhoneExists(users, phone) == \E u \in users : u.phone = phone
GetTokenVersion(users, id) == {u.version : u \in RowsOf(users, id)}
IncrementTokenVersion(users, id) ==
  Without(users, id) \cup {[u EXCEPT !.version = @ + 1] : u \in RowsOf(users, id)}
UpdatePassword(users, id, password) ==
  Without(users, id) \cup {[u EXCEPT !.password = password] : u \in RowsOf(users, id)}
UpdateUserStatus(users, id, status) ==
  Without(users, id) \cup {[u EXCEPT !.status = status] : u \in RowsOf(users, id)}
SoftDeleteUser(users, id) ==
  Without(users, id) \cup {[u EXCEPT !.status = "deleted"] : u \in RowsOf(users, id)}
VerifyEmail(users, id) ==
  Without(users, id) \cup {[u EXCEPT !.status = "active"] : u \in RowsOf(users, id)}
UpdateProfilePicture(users, id, url) ==
  Without(users, id) \cup {[u EXCEPT !.picture = url] : u \in RowsOf(users, id)}
\* COALESCE: a column without a new value ("none") keeps the old one.
AdminUpdateUser(users, id, email, password) ==
  Without(users, id) \cup
    {[u EXCEPT !.email = IF email = "none" THEN @ ELSE email,
               !.password = IF password = "none" THEN @ ELSE password]
       : u \in RowsOf(users, id)}

\* The unique constraints on email, handle and phone.
UserConflict(users, u) ==
  \E other \in Without(users, u.id) :
    \/ other.email = u.email \/ other.handle = u.handle
    \/ u.phone # "none" /\ other.phone = u.phone

\* The repository: what callers get.
UserRepoCreate(users, user) ==
  IF UserConflict(users, user) THEN Fail(MapDBErrors("unique"))
  ELSE Ok(CreateUser(users, user))
GetByID(users, id) == OneRow(GetUserByID(users, id), "ErrUserNotFound")
GetByEmail(users, email) == OneRow(GetUserByEmail(users, email), "ErrUserNotFound")
GetByPhone(users, phone) == OneRow(GetUserByPhone(users, phone), "ErrUserNotFound")
\* CreateUser passes an empty handle: no row has it.
CheckUniqueFields(users, email, phone) ==
  IF EmailExists(users, email) \/ (phone # "none" /\ PhoneExists(users, phone))
  THEN Fail("ErrAlreadyExists") ELSE Ok(users)
AdminUpdate(users, id, email, password) ==
  LET after == AdminUpdateUser(users, id, email, password) IN
  CASE GetUserByID(users, id) = {} -> Fail(MapDBErrors("no rows"))
    [] \E u \in RowsOf(after, id) : UserConflict(after, u) -> Fail(MapDBErrors("unique"))
    [] OTHER -> Ok(after)
RepoIncrementTokenVersion(users, id) ==
  IF GetUserByID(users, id) = {} THEN Fail("error") ELSE Ok(IncrementTokenVersion(users, id))
RepoGetTokenVersion(users, id) == OneRow(GetTokenVersion(users, id), "ErrUserNotFound")
RepoUpdateProfilePicture(users, id, url) ==
  IF GetUserByID(users, id) = {} THEN Fail("error") ELSE Ok(UpdateProfilePicture(users, id, url))

-----------------------------------------------------------------------------
(* auth.refresh_tokens *)

RefreshToken(hash, owner) == [hash |-> hash, user |-> owner, revoked |-> FALSE]

CreateRefreshToken(tokens, t) == tokens \cup {t}
GetRefreshToken(tokens, hash) == {t \in tokens : t.hash = hash}
RevokeRefreshToken(tokens, hash) ==
  {IF t.hash = hash THEN [t EXCEPT !.revoked = TRUE] ELSE t : t \in tokens}
RevokeAllRefreshTokensForUser(tokens, id) ==
  {IF t.user = id THEN [t EXCEPT !.revoked = TRUE] ELSE t : t \in tokens}

GetByTokenHash(tokens, hash) == OneRow(GetRefreshToken(tokens, hash), MapDBErrors("no rows"))

-----------------------------------------------------------------------------
(* auth.user_pins *)

Pin(id, hash) == [id |-> id, hash |-> hash, attempts |-> 0, locked |-> FALSE]

CreatePIN(pins, pin) == pins \cup {pin}
GetPINByUserID(pins, id) == RowsOf(pins, id)
PINExists(pins, id) == RowsOf(pins, id) # {}
IncrementPINFailedAttempts(pins, id) ==
  Without(pins, id) \cup {[p EXCEPT !.attempts = @ + 1] : p \in RowsOf(pins, id)}
LockPIN(pins, id) ==
  Without(pins, id) \cup {[p EXCEPT !.locked = TRUE] : p \in RowsOf(pins, id)}
ResetPINFailedAttempts(pins, id) ==
  Without(pins, id) \cup {[p EXCEPT !.attempts = 0, !.locked = FALSE] : p \in RowsOf(pins, id)}
UpdatePINHash(pins, id, hash) ==
  Without(pins, id) \cup {Pin(id, hash) : p \in RowsOf(pins, id)}

PinRepoCreate(pins, id, hash) ==
  IF PINExists(pins, id) THEN Fail(MapDBErrors("unique")) ELSE Ok(CreatePIN(pins, Pin(id, hash)))
GetByUserID(pins, id) == OneRow(GetPINByUserID(pins, id), MapDBErrors("no rows"))

-----------------------------------------------------------------------------
(* auth.roles, auth.user_roles, auth.permissions, auth.role_permissions.  A *)
(* deleted row takes the rows that refer to it with it (ON DELETE CASCADE). *)

Named(id, name) == [id |-> id, name |-> name]

CreateRole(roles, role) == roles \cup {role}
GetRoleByID(roles, id) == RowsOf(roles, id)
GetRoleByName(roles, name) == {r \in roles : r.name = name}
UpdateRole(roles, id, name) ==
  Without(roles, id) \cup {[r EXCEPT !.name = name] : r \in RowsOf(roles, id)}
DeleteRole(roles, id) == Without(roles, id)
AssignRoleToUser(pairs, who, role) == pairs \cup {<<who, role>>}
RemoveRoleFromUser(pairs, who, role) == pairs \ {<<who, role>>}
GetUserRoles(roles, pairs, who) == {r \in roles : <<who, r.id>> \in pairs}
CascadeRole(pairs, role) == {p \in pairs : p[2] # role}

CreatePermission(perms, perm) == perms \cup {perm}
GetPermissionByID(perms, id) == RowsOf(perms, id)
GetPermissionByName(perms, name) == {p \in perms : p.name = name}
UpdatePermission(perms, id, name) ==
  Without(perms, id) \cup {[p EXCEPT !.name = name] : p \in RowsOf(perms, id)}
DeletePermission(perms, id) == Without(perms, id)
AssignPermissionToRole(grants, role, perm) == grants \cup {<<role, perm>>}
RemovePermissionFromRole(grants, role, perm) == grants \ {<<role, perm>>}
GetRolePermissions(perms, grants, role) == {p \in perms : <<role, p.id>> \in grants}

\* The unique constraint on the name.
NameConflict(table, row) == \E other \in Without(table, row.id) : other.name = row.name

RoleRepoCreate(roles, role) ==
  IF NameConflict(roles, role) THEN Fail(MapDBErrors("unique")) ELSE Ok(CreateRole(roles, role))
RoleGetByID(roles, id) == OneRow(GetRoleByID(roles, id), MapDBErrors("no rows"))
RoleGetByName(roles, name) == OneRow(GetRoleByName(roles, name), MapDBErrors("no rows"))
\* UPDATE of no row is no error.
RoleRepoUpdate(roles, id, name) ==
  IF NameConflict(roles, Named(id, name)) /\ RoleGetByID(roles, id).err = "nil"
  THEN Fail(MapDBErrors("unique")) ELSE Ok(UpdateRole(roles, id, name))
\* A pair that exists already is no error; a missing user or role is.
RoleRepoAssign(pairs, owners, roles, who, role) ==
  IF RowsOf(owners, who) = {} \/ RowsOf(roles, role) = {} THEN Fail(MapDBErrors("foreign key"))
  ELSE Ok(AssignRoleToUser(pairs, who, role))

PermissionRepoCreate(perms, perm) ==
  IF NameConflict(perms, perm) THEN Fail(MapDBErrors("unique"))
  ELSE Ok(CreatePermission(perms, perm))
PermissionGetByID(perms, id) == OneRow(GetPermissionByID(perms, id), MapDBErrors("no rows"))
PermissionGetByName(perms, name) == OneRow(GetPermissionByName(perms, name), MapDBErrors("no rows"))
PermissionRepoUpdate(perms, id, name) ==
  IF NameConflict(perms, Named(id, name)) /\ PermissionGetByID(perms, id).err = "nil"
  THEN Fail(MapDBErrors("unique")) ELSE Ok(UpdatePermission(perms, id, name))
PermissionRepoAssign(grants, roles, perms, role, perm) ==
  IF RowsOf(roles, role) = {} \/ RowsOf(perms, perm) = {} THEN Fail(MapDBErrors("foreign key"))
  ELSE IF <<role, perm>> \in grants THEN Fail(MapDBErrors("unique"))
  ELSE Ok(AssignPermissionToRole(grants, role, perm))

-----------------------------------------------------------------------------
(* auth.staff, auth.staff_roles.  Reads leave out deleted members; the      *)
(* status update does not.                                                  *)

StaffMember(id, email, password) ==
  [id |-> id, email |-> email, password |-> password, status |-> "active", version |-> 0]

StaffCreate(staff, member) ==
  IF \E s \in staff : s.email = member.email THEN Fail(MapDBErrors("unique"))
  ELSE Ok(staff \cup {member})
StaffGetByID(staff, id) ==
  OneRow({s \in RowsOf(staff, id) : s.status # "deleted"}, "ErrUserNotFound")
StaffGetByEmail(staff, email) ==
  OneRow({s \in staff : s.email = email /\ s.status # "deleted"}, "ErrUserNotFound")
StaffEmailExists(staff, email) == \E s \in staff : s.email = email
StaffUpdateStatus(staff, id, status) ==
  IF RowsOf(staff, id) = {} THEN Fail("ErrUserNotFound")
  ELSE Ok(Without(staff, id) \cup {[s EXCEPT !.status = status] : s \in RowsOf(staff, id)})
StaffSoftDelete(staff, id) == StaffUpdateStatus(staff, id, "deleted")
StaffUpdate(staff, id, email, password) ==
  LET changed(s) == [s EXCEPT !.email = IF email = "none" THEN @ ELSE email,
                              !.password = IF password = "none" THEN @ ELSE password]
  IN IF ~Succeeds(StaffGetByID(staff, id)) THEN Fail("ErrUserNotFound")
     ELSE IF \E s \in Without(staff, id) : s.email = email THEN Fail("error")
     ELSE Ok(Without(staff, id) \cup {changed(s) : s \in RowsOf(staff, id)})
StaffAssignRole(pairs, staff, roles, who, role) ==
  IF RowsOf(staff, who) = {} \/ RowsOf(roles, role) = {} THEN Fail("error")
  ELSE Ok(pairs \cup {<<who, role>>})
StaffGetRoles(roles, pairs, who) == {r \in roles : <<who, r.id>> \in pairs}
=============================================================================
