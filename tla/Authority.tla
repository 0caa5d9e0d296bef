------------------------------ MODULE Authority ------------------------------
(***************************************************************************)
(* core.Authority (core/authorizer.go): what a caller may be granted.  A     *)
(* value is a name, kept as a sequence of its characters because a suffix    *)
(* wildcard matches by prefix; the blanks around it are trimmed everywhere,  *)
(* so a blank value is the empty sequence.                                  *)
(***************************************************************************)
EXTENDS SequencesExt

CONSTANTS LoginID, BlankID,   \* login IDs; one that is blank once trimmed
          Char, Star,         \* characters of names; Star is the character *
          Name,               \* the names that may be asked for, one of them blank
          Managed,            \* the users an administrator changes
          RoleName, PermissionName  \* the names an administrator uses

ASSUME AuthorityAssumption ==
  /\ BlankID \notin LoginID
  /\ Star \in Char
  /\ Name \subseteq Seq(Char)
  /\ Managed \subseteq LoginID
  /\ RoleName \cup PermissionName \subseteq Name

Blank == <<>>

AuthorityType == {"permission", "role"}

Role(value) == [type |-> "role", value |-> value]
Permission(value) == [type |-> "permission", value |-> value]

AnyAuthority == [type : AuthorityType, value : Name]

EndsWithStar(value) == value # Blank /\ Last(value) = Star

\* Equal, or a suffix wildcard whose prefix the requested name starts with.
ValueMatches(candidate, requested) ==
  \/ candidate = requested
  \/ EndsWithStar(candidate) /\ IsPrefix(Front(candidate), requested)
=============================================================================
