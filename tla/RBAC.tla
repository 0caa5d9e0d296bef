-------------------------------- MODULE RBAC --------------------------------
(***************************************************************************)
(* rbac.Authorizer (rbac/authorizer.go): roles of users, permissions of     *)
(* roles, permissions granted directly.  One mutex guards the three maps,    *)
(* so every call is one step.  A missing map entry and an empty set cannot  *)
(* be told apart and are both the empty set here.                           *)
(***************************************************************************)
EXTENDS Authority

VARIABLES userRoles,         \* [LoginID -> set of role names]
          rolePermissions,   \* [Name -> set of permission names]
          directPermissions  \* [LoginID -> set of permission names]

tables == <<userRoles, rolePermissions, directPermissions>>

Init ==
  /\ userRoles = [u \in LoginID |-> {}]
  /\ rolePermissions = [r \in Name |-> {}]
  /\ directPermissions = [u \in LoginID |-> {}]

AssignRole(login, role) ==
  /\ login # BlankID /\ role # Blank
  /\ userRoles' = [userRoles EXCEPT ![login] = @ \cup {role}]
  /\ UNCHANGED <<rolePermissions, directPermissions>>

RevokeRole(login, role) ==
  /\ login # BlankID /\ role # Blank
  /\ userRoles' = [userRoles EXCEPT ![login] = @ \ {role}]
  /\ UNCHANGED <<rolePermissions, directPermissions>>

GrantPermission(role, permission) ==
  /\ role # Blank /\ permission # Blank
  /\ rolePermissions' = [rolePermissions EXCEPT ![role] = @ \cup {permission}]
  /\ UNCHANGED <<userRoles, directPermissions>>

RevokePermission(role, permission) ==
  /\ role # Blank /\ permission # Blank
  /\ rolePermissions' = [rolePermissions EXCEPT ![role] = @ \ {permission}]
  /\ UNCHANGED <<userRoles, directPermissions>>

\* Mutant: blank permissions are kept.
SetUntrimmed(login, permissions) ==
  /\ login # BlankID
  /\ directPermissions' = [directPermissions EXCEPT ![login] = permissions]
  /\ UNCHANGED <<userRoles, rolePermissions>>

\* The whole set is replaced.
SetDirectPermissions(login, permissions) ==
  /\ login # BlankID
  /\ directPermissions' = [directPermissions EXCEPT ![login] = permissions \ {Blank}]
  /\ UNCHANGED <<userRoles, rolePermissions>>

\* What a user holds, directly and through roles.
PermissionsOf(login) ==
  directPermissions[login] \cup UNION {rolePermissions[r] : r \in userRoles[login]}

\* Mutant: the permissions of roles are forgotten.
HasDirectAuthority(login, authority) ==
  /\ login # BlankID
  /\ authority.value # Blank
  /\ CASE authority.type = "role" -> authority.value \in userRoles[login]
       [] authority.type = "permission" ->
            \E p \in directPermissions[login] : ValueMatches(p, authority.value)

\* Roles match exactly, permissions by wildcard.
HasAuthority(login, authority) ==
  /\ login # BlankID
  /\ authority.value # Blank
  /\ CASE authority.type = "role" -> authority.value \in userRoles[login]
       [] authority.type = "permission" ->
            \E p \in PermissionsOf(login) : ValueMatches(p, authority.value)

GetAuthorities(login) ==
  IF login = BlankID THEN {}
  ELSE {Role(r) : r \in userRoles[login]} \cup {Permission(p) : p \in PermissionsOf(login)}

Administer ==
  \/ \E u \in Managed, r \in RoleName : AssignRole(u, r) \/ RevokeRole(u, r)
  \/ \E r \in RoleName, p \in PermissionName :
       GrantPermission(r, p) \/ RevokePermission(r, p)
  \/ \E u \in Managed, P \in SUBSET PermissionName : SetDirectPermissions(u, P)
=============================================================================
