-------------------------- MODULE MCDatabaseStore --------------------------
(* An instance of DatabaseStore small enough to explore exhaustively. *)
EXTENDS DatabaseStore, TLC

CONSTANTS u1, u2, none, d1, d2

\* An access token of one user that expires at once, and a permanent refresh
\* token of another that may take over its key.
MCSaveInputs ==
  {[kind |-> "access", subject |-> u1, status |-> "active", expiresAt |-> 1, data |-> d1],
   [kind |-> "refresh", subject |-> u2, status |-> "active", expiresAt |-> Never, data |-> d1]}

\* The two tables share nothing: a behaviour uses tokens, or, where
\* row locks make no difference, the session of one user.
OneTable ==
  \/ /\ \A s \in Subject : sessions[s] = NoEntry
     /\ \A p \in Proc : req[p] \notin SessionCall
  \/ /\ rowLocks
     /\ \A k \in Token : tokens[k] = NoEntry
     /\ \A p \in Proc : req[p] # Failed => req[p] \in SessionCall /\ req[p].subject = u1
     /\ \A p \in Proc : res[p].states = {}

\* Goroutines are interchangeable, and so are keys: no input names one.
MCSymmetry == Permutations(Proc) \cup Permutations(Token)
=============================================================================
