---------------------------- MODULE MCRedisStore ----------------------------
(* An instance of RedisStore small enough to explore exhaustively. *)
EXTENDS RedisStore, TLC

CONSTANTS u1, u2, none, d1, d2

\* An access token of one user that expires at once, and a permanent refresh
\* token of another that may take over its key.
MCSaveInputs ==
  {[kind |-> "access", subject |-> u1, status |-> "active", expiresAt |-> 1, data |-> d1],
   [kind |-> "refresh", subject |-> u2, status |-> "active", expiresAt |-> Never, data |-> d1]}

\* Tokens and sessions share no key: a behaviour uses tokens and the index
\* of one user, or the session of one user.
OneKind ==
  \/ /\ \A s \in Subject : sessions[s] = NoEntry
     /\ \A p \in Proc : req[p] \notin SessionCall
     /\ \A p \in Proc : req[p] # Failed /\ req[p].op \in {"Find", "DeleteAll"} => req[p].subject = u1
  \/ /\ \A k \in Token : tokens[k] = NoEntry
     /\ \A p \in Proc : req[p] # Failed => req[p] \in SessionCall /\ req[p].subject = u1
     /\ \A p \in Proc : res[p].states = {}

\* Goroutines are interchangeable, and so are keys: no input names one.
MCSymmetry == Permutations(Proc) \cup Permutations(Token)
=============================================================================
