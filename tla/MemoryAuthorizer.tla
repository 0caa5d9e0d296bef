--------------------------- MODULE MemoryAuthorizer ---------------------------
(***************************************************************************)
(* core.MemoryAuthorizer (core/authorizer.go): a list of authorities per     *)
(* login ID.  No answer depends on order or repetition: the list is a set.   *)
(* NoopAuthorizer, the default, is the one nobody ever granted anything.    *)
(***************************************************************************)
EXTENDS Authority

VARIABLE authorities  \* [LoginID \cup {BlankID} -> set of authorities]

Init == authorities = [u \in LoginID \cup {BlankID} |-> {}]

\* Blank values are dropped here...
SetAuthorities(login, given) ==
  authorities' = [authorities EXCEPT ![login] = {a \in given : a.value # Blank}]

\* ...but not here: those of one type are replaced, the others stay.
MergeAuthorities(login, type, given) ==
  authorities' = [authorities EXCEPT ![login] = {a \in @ : a.type # type} \cup given]

SetRoles(login, roles) ==
  MergeAuthorities(login, "role", {Role(r) : r \in roles})

SetPermissions(login, permissions) ==
  MergeAuthorities(login, "permission", {Permission(p) : p \in permissions})

AuthorityMatches(candidate, requested) ==
  /\ candidate.type = requested.type
  /\ ValueMatches(candidate.value, requested.value)

HasAuthority(login, authority) ==
  /\ authority.value # Blank
  /\ \E candidate \in authorities[login] : AuthorityMatches(candidate, authority)

GetAuthorities(login) == authorities[login]

Administer ==
  \E u \in Managed :
    \/ \E R \in SUBSET RoleName : SetRoles(u, R)
    \/ \E P \in SUBSET PermissionName : SetPermissions(u, P)
    \/ \E R \in SUBSET RoleName, P \in SUBSET PermissionName :
         SetAuthorities(u, {Role(r) : r \in R} \cup {Permission(p) : p \in P})
=============================================================================
