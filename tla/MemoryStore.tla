---------------------------- MODULE MemoryStore ----------------------------
(***************************************************************************)
(* storage/memory/store.go.  A map of items, an index from subjects to the  *)
(* keys they own, and a map of sessions, under one RWMutex.  A section under *)
(* the lock is one step.  What is NOT under the lock is a step of its own:   *)
(* most operations read the clock before they wait for the mutex, and Get   *)
(* drops the read lock and takes the write lock to evict, looking the key up *)
(* again with the clock reading it already has.                             *)
(***************************************************************************)
EXTENDS StoreCalls

VARIABLES now, tokens, indexes, sessions,
          phase,    \* "idle", "called" (clock read, waiting for the mutex),
                    \* "recheck" (between RUnlock and Lock)
          req, begun, res

vars == <<now, tokens, indexes, sessions, phase, req, begun, res>>

Init ==
  /\ now = 0
  /\ tokens = [k \in Token |-> NoEntry]
  /\ indexes = [s \in Subject \cup {ZeroSubject} |-> {}]
  /\ sessions = [s \in Subject |-> NoEntry]
  /\ phase = [p \in Proc |-> "idle"]
  /\ req = [p \in Proc |-> Failed]
  /\ begun = [p \in Proc |-> 0]
  /\ res = [p \in Proc |-> Done]

Tick ==
  /\ now < MaxTime
  /\ now' = now + 1
  /\ UNCHANGED <<tokens, indexes, sessions, phase, req, begun, res>>

\* The call is made and the clock is read, before any lock is held.
Begin(p) ==
  /\ phase[p] = "idle"
  /\ \E c \in NextCalls(res[p]) :
       /\ req' = [req EXCEPT ![p] = c]
       /\ phase' = [phase EXCEPT ![p] = "called"]
       /\ begun' = [begun EXCEPT ![p] = now]
  /\ UNCHANGED <<now, tokens, indexes, sessions, res>>

Return(p, response) ==
  /\ phase' = [phase EXCEPT ![p] = "idle"]
  /\ req' = [req EXCEPT ![p] = Failed]
  /\ begun' = [begun EXCEPT ![p] = 0]
  /\ res' = [res EXCEPT ![p] = response]
  /\ UNCHANGED now

Called(p, op) == phase[p] = "called" /\ req[p].op = op

\* contextErr, or the validation of the state: an early return.
Refuse(p) ==
  /\ phase[p] = "called"
  /\ Return(p, Refused)
  /\ UNCHANGED <<tokens, indexes, sessions>>

-----------------------------------------------------------------------------
AddIndexLocked(index, s, k) == [index EXCEPT ![s] = @ \cup {k}]

RemoveIndexLocked(index, s, k) == [index EXCEPT ![s] = @ \ {k}]

\* deleteTokenLocked for each key of K that is stored.
Unindexed(K) ==
  [s \in DOMAIN indexes |->
     indexes[s] \ {k \in K : tokens[k] # NoEntry /\ tokens[k].state.subject = s}]

DeleteTokensLocked(K) ==
  /\ tokens' = Drop(tokens, K)
  /\ indexes' = Unindexed(K)

\* Mutant: the index entry of the old subject stays.
StoreKeepingIndex(k, state, deadline) ==
  /\ tokens' = Put(tokens, k, state, deadline)
  /\ indexes' = AddIndexLocked(indexes, state.subject, k)

\* The old subject's index entry goes before the new one is added.
StoreLocked(k, state, deadline) ==
  LET cleared == IF tokens[k] = NoEntry THEN indexes
                 ELSE RemoveIndexLocked(indexes, tokens[k].state.subject, k)
  IN  /\ tokens' = Put(tokens, k, state, deadline)
      /\ indexes' = AddIndexLocked(cleared, state.subject, k)

SaveTokenState(p) ==
  /\ Called(p, "Save")
  /\ Acceptable(req[p].state)
  /\ StoreLocked(req[p].key, req[p].state,
                 EffectiveExpiresAt(req[p].state, begun[p], req[p].ttl))
  /\ Return(p, Done)
  /\ UNCHANGED sessions

\* The new deadline comes from the clock before the lock, the comparison from
\* a second reading under it.
CompareAndSwapTokenState(p) ==
  /\ Called(p, "CAS")
  /\ Acceptable(req[p].state)
  /\ IF Matches(tokens, req[p].key, req[p].expected, now)
       THEN /\ StoreLocked(req[p].key, req[p].state,
                           EffectiveExpiresAt(req[p].state, begun[p], req[p].ttl))
            /\ Return(p, Done)
       ELSE /\ UNCHANGED <<tokens, indexes>>
            /\ Return(p, Failed)
  /\ UNCHANGED sessions

\* Under the read lock: missing and live are answered, expired is not.
GetRead(p) ==
  /\ Called(p, "Get")
  /\ LET k == req[p].key IN
       IF tokens[k] # NoEntry /\ EntryExpired(tokens[k], begun[p])
         THEN /\ phase' = [phase EXCEPT ![p] = "recheck"]
              /\ UNCHANGED <<now, req, begun, res>>
         ELSE Return(p, Reported({k} \cap Stored(tokens), tokens))
  /\ UNCHANGED <<tokens, indexes, sessions>>

\* Mutant: the item is not looked up again under the write lock.
GetDropping(p) ==
  /\ phase[p] = "recheck"
  /\ req[p].op = "Get"
  /\ DeleteTokensLocked({req[p].key})
  /\ Return(p, Done)
  /\ UNCHANGED sessions

\* Under the write lock: the item may have been replaced or removed meanwhile.
GetRecheck(p) ==
  /\ phase[p] = "recheck"
  /\ req[p].op = "Get"
  /\ LET k == req[p].key IN
       IF tokens[k] # NoEntry /\ EntryExpired(tokens[k], begun[p])
         THEN DeleteTokensLocked({k}) /\ Return(p, Done)
         ELSE /\ UNCHANGED <<tokens, indexes>>
              /\ Return(p, Reported({k} \cap Stored(tokens), tokens))
  /\ UNCHANGED sessions

ConsumeTokenState(p) ==
  /\ Called(p, "Consume")
  /\ LET k == req[p].key IN
       IF tokens[k] = NoEntry \/ EntryExpired(tokens[k], begun[p])
         THEN DeleteTokensLocked({k}) /\ Return(p, Done)
         ELSE /\ tokens' = Consume(tokens, k, req[p].kinds, begun[p])
              /\ UNCHANGED indexes
              /\ Return(p, Reported({k}, tokens))
  /\ UNCHANGED sessions

DeleteTokenState(p) ==
  /\ Called(p, "Delete")
  /\ DeleteTokensLocked({req[p].key})
  /\ Return(p, Done)
  /\ UNCHANGED sessions

\* Walks the index, dropping dangling members and evicting expired items.
FindTokenStates(p) ==
  /\ Called(p, "Find")
  /\ LET s        == req[p].subject
         dangling == indexes[s] \ Stored(tokens)
         expired  == {k \in indexes[s] \ dangling : EntryExpired(tokens[k], begun[p])}
         matching == {k \in indexes[s] \ (dangling \cup expired) :
                        MatchKind(tokens[k].state.kind, req[p].kinds)}
     IN  /\ tokens' = Drop(tokens, expired)
         /\ indexes' = [Unindexed(expired) EXCEPT ![s] = @ \ dangling]
         /\ Return(p, Reported(matching, tokens))
  /\ UNCHANGED sessions

DeleteTokenStates(p) ==
  /\ Called(p, "DeleteAll")
  /\ DeleteTokensLocked(
       {k \in indexes[req[p].subject] \cap Stored(tokens) :
          MatchKind(tokens[k].state.kind, req[p].kinds)})
  /\ Return(p, Done)
  /\ UNCHANGED sessions

-----------------------------------------------------------------------------
SessionExpired(s, t) == Passed(sessions[s].expiresAt, t)

SaveSession(p) ==
  /\ Called(p, "SaveSession")
  /\ sessions' = [sessions EXCEPT ![req[p].subject] =
       [data |-> req[p].data, expiresAt |-> DeadlineAfter(begun[p], req[p].ttl)]]
  /\ Return(p, Done)
  /\ UNCHANGED <<tokens, indexes>>

\* Mutant: the session is always initialised.
EnsureFresh(p) ==
  /\ Called(p, "EnsureSession")
  /\ sessions' = [sessions EXCEPT ![req[p].subject] =
       [data |-> NewData, expiresAt |-> DeadlineAfter(now, req[p].ttl)]]
  /\ Return(p, Done)
  /\ UNCHANGED <<tokens, indexes>>

\* Reads the clock under the lock; replaces the lifetime, never live data.
EnsureSession(p) ==
  /\ Called(p, "EnsureSession")
  /\ LET s     == req[p].subject
         fresh == sessions[s] = NoEntry \/ SessionExpired(s, now)
     IN  sessions' = [sessions EXCEPT ![s] =
           [data |-> IF fresh THEN NewData ELSE sessions[s].data,
            expiresAt |-> DeadlineAfter(now, req[p].ttl)]]
  /\ Return(p, Done)
  /\ UNCHANGED <<tokens, indexes>>

GetSessionRead(p) ==
  /\ Called(p, "GetSession")
  /\ LET s == req[p].subject IN
       IF sessions[s] # NoEntry /\ SessionExpired(s, begun[p])
         THEN /\ phase' = [phase EXCEPT ![p] = "recheck"]
              /\ UNCHANGED <<now, req, begun, res>>
         ELSE Return(p, IF sessions[s] = NoEntry THEN Done
                        ELSE [Done EXCEPT !.data = sessions[s].data])
  /\ UNCHANGED <<tokens, indexes, sessions>>

\* Mutant: the session is not looked up again under the write lock.
GetSessionDropping(p) ==
  /\ phase[p] = "recheck"
  /\ req[p].op = "GetSession"
  /\ sessions' = [sessions EXCEPT ![req[p].subject] = NoEntry]
  /\ Return(p, Done)
  /\ UNCHANGED <<tokens, indexes>>

GetSessionRecheck(p) ==
  /\ phase[p] = "recheck"
  /\ req[p].op = "GetSession"
  /\ LET s == req[p].subject IN
       IF sessions[s] = NoEntry \/ SessionExpired(s, begun[p])
         THEN sessions' = [sessions EXCEPT ![s] = NoEntry] /\ Return(p, Done)
         ELSE UNCHANGED sessions /\ Return(p, [Done EXCEPT !.data = sessions[s].data])
  /\ UNCHANGED <<tokens, indexes>>

DeleteSession(p) ==
  /\ Called(p, "DeleteSession")
  /\ sessions' = [sessions EXCEPT ![req[p].subject] = NoEntry]
  /\ Return(p, Done)
  /\ UNCHANGED <<tokens, indexes>>

-----------------------------------------------------------------------------
TokenStep(p) ==
  \/ SaveTokenState(p)
  \/ CompareAndSwapTokenState(p)
  \/ GetRead(p)
  \/ GetRecheck(p)
  \/ ConsumeTokenState(p)
  \/ DeleteTokenState(p)
  \/ FindTokenStates(p)
  \/ DeleteTokenStates(p)

SessionStep(p) ==
  \/ SaveSession(p)
  \/ EnsureSession(p)
  \/ GetSessionRead(p)
  \/ GetSessionRecheck(p)
  \/ DeleteSession(p)

Next ==
  \/ Tick
  \/ \E p \in Proc : Begin(p) \/ Refuse(p) \/ TokenStep(p) \/ SessionStep(p)

Spec == Init /\ [][Next]_vars

-----------------------------------------------------------------------------
StoreTypeOK ==
  /\ tokens \in [Token -> Entry \cup {NoEntry}]
  /\ indexes \in [Subject \cup {ZeroSubject} -> SUBSET Token]
  /\ sessions \in [Subject -> SessionItem \cup {NoEntry}]

CallTypeOK ==
  /\ now \in 0 .. MaxTime
  /\ phase \in [Proc -> {"idle", "called", "recheck"}]
  /\ req \in [Proc -> Call \cup {Failed}]
  /\ \A p \in Proc : phase[p] # "idle" => req[p] \in Call
  /\ begun \in [Proc -> 0 .. MaxTime]
  /\ \A p \in Proc : begun[p] <= now
  /\ res \in [Proc -> Response]

\* Every variable has its type (the fields of store.Store, the locals of its
\* methods); a goroutine that is not idle holds a call, and the clock reading it
\* took is not in the future.
TypeOK == StoreTypeOK /\ CallTypeOK

\* The index lists exactly the keys the subject owns, whatever the order of
\* saves that rebind a key, evictions and bulk deletions: FindTokenStates and
\* DeleteTokenStates go by the index alone, so a key missing from it would
\* survive a kick-out and a stale one would log out somebody else.
IndexConsistent ==
  \A s \in Subject \cup {ZeroSubject} : indexes[s] = OfSubject(tokens, s, {})

\* The memory store implements the contract of core/store.go: each call takes
\* effect atomically although the clock is read outside the lock, Get works in
\* two critical sections and lookups by subject go through the index.
Contract == INSTANCE AtomicStore
  WITH phase <- [p \in Proc |-> IF phase[p] = "idle" THEN "idle" ELSE "called"],
       seen  <- [p \in Proc |-> NoEntry]

ImplementsContract == Contract!Spec

\* EnsureSession updates a lifetime: the Data of a session still alive is only
\* ever replaced by a SaveSession and only removed by a DeleteSession.
SessionDataKept ==
  [][\A s \in Subject :
       (/\ sessions[s] # NoEntry
        /\ ~SessionExpired(s, now)
        /\ \A p \in Proc : res'[p] # res[p] \/ phase'[p] # phase[p]
             => req[p] = Failed \/ req[p].op \notin {"SaveSession", "DeleteSession"})
       => sessions'[s] # NoEntry /\ sessions'[s].data = sessions[s].data]_vars
=============================================================================
