----------------------------- MODULE StoreCalls -----------------------------
(***************************************************************************)
(* The calls of core.Store and core.AtomicStore and what they return.  The  *)
(* abstract store and the memory store accept the same calls; they differ   *)
(* in how a call is carried out.                                           *)
(***************************************************************************)
EXTENDS StoreOps, FiniteSets

CONSTANTS Proc,        \* goroutines that use the store
          Subject,     \* login subjects, normalised
          ZeroSubject, \* the empty LoginID, which only a nonce may carry
          Data,        \* payloads: device, metadata, online; Session.Data
          NewData,     \* the Data of a session just initialised
          SaveInputs,  \* the token states callers save
          TTL,         \* the ttl arguments callers pass with a token state
          SessionTTL,  \* and with a session
          Filters,     \* the kinds callers ask for; none means all
          Ops,         \* the operations this instance uses
          MaxTime      \* bound on the clock

State == [kind : TokenKind, subject : Subject \cup {ZeroSubject},
          status : TokenStatus, expiresAt : Deadline, data : Data]

Entry == [state : State, expiresAt : Deadline]

SessionItem == [data : Data, expiresAt : Deadline]

Snapshot == [key : Token, state : State]

\* What a call may have read of the store.
StoreView == [entries : UNION {[K -> Entry] : K \in SUBSET Token},
              session : SessionItem \cup {NoEntry}]

ASSUME StoreAssumption ==
  /\ MaxTime \in Nat
  /\ TTL \cup SessionTTL \subseteq Nat
  /\ Filters \subseteq SUBSET TokenKind
  /\ NewData \in Data
  /\ SaveInputs \subseteq State
  /\ NoEntry \notin Entry
  /\ NoEntry \notin SessionItem
  /\ NoEntry \notin Data
  /\ NoEntry \notin StoreView

\* ErrEmptyLoginID: only a nonce may be saved without a login subject.
Acceptable(state) == state.subject # ZeroSubject \/ state.kind = "nonce"

TokenCall ==
       [op : {"Save"}, key : Token, state : State, ttl : TTL]
  \cup [op : {"CAS"}, key : Token, expected : State, state : State, ttl : TTL]
  \cup [op : {"Get", "Delete"}, key : Token]
  \cup [op : {"Consume"}, key : Token, kinds : SUBSET TokenKind]
  \cup [op : {"Find", "DeleteAll"}, subject : Subject, kinds : SUBSET TokenKind]

SessionCall ==
       [op : {"SaveSession"}, subject : Subject, data : Data, ttl : SessionTTL]
  \cup [op : {"EnsureSession"}, subject : Subject, ttl : SessionTTL]
  \cup [op : {"GetSession", "DeleteSession"}, subject : Subject]

Call == TokenCall \cup SessionCall

\* ok is the answer of a compare-and-swap; states is what the call read; data is
\* Session.Data, NoEntry for none.
Response == [ok : BOOLEAN, err : BOOLEAN, states : SUBSET Snapshot,
             data : Data \cup {NoEntry}]

Done == [ok |-> TRUE, err |-> FALSE, states |-> {}, data |-> NoEntry]
Failed == [Done EXCEPT !.ok = FALSE]
Refused == [Failed EXCEPT !.err = TRUE]
Reported(K, entries) ==
  [Done EXCEPT !.states = {[key |-> k, state |-> entries[k].state] : k \in K}]

\* The part of the store a call is about, at one instant.
View(c, tokens, sessions) ==
  [entries |-> [k \in IF c.op \in {"Find", "DeleteAll"}
                        THEN OfSubject(tokens, c.subject, c.kinds)
                        ELSE Stored(tokens) \cap (IF "key" \in DOMAIN c THEN {c.key} ELSE {})
                 |-> tokens[k]],
   session |-> IF c.op \in {"GetSession", "DeleteSession"} THEN sessions[c.subject]
               ELSE NoEntry]

(***************************************************************************)
(* What a caller may ask next, knowing its last response.  The expected     *)
(* state of a compare-and-swap is a snapshot the caller was given, or that  *)
(* snapshot marked consumed (as Refresh does after it has claimed a token). *)
(***************************************************************************)
NextCalls(last) ==
  {c \in      [op : {"Save"}, key : Token, state : SaveInputs, ttl : TTL]
         \cup {[op |-> "CAS", key |-> s.key, expected |-> e, state |-> n, ttl |-> d] :
                 s \in last.states,
                 e \in UNION {{x.state, MarkConsumed(x.state)} : x \in last.states},
                 n \in SaveInputs, d \in TTL}
         \cup [op : {"Get", "Delete"}, key : Token]
         \cup [op : {"Consume"}, key : Token, kinds : Filters]
         \cup [op : {"Find", "DeleteAll"}, subject : Subject, kinds : Filters]
         \cup SessionCall :
     c.op \in Ops}
=============================================================================
