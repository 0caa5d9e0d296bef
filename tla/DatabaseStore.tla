--------------------------- MODULE DatabaseStore ---------------------------
(***************************************************************************)
(* storage/database/store.go.  Two tables, tokens and sessions.  Every SQL  *)
(* statement is a step; between two statements of a call, and between a     *)
(* SELECT and the clock reading that judges its row, anything may happen.   *)
(*                                                                         *)
(* The transaction of a consumption selects its row FOR UPDATE.  Where the  *)
(* dialect honours that (rowLocks), the row is locked until the transaction *)
(* ends, and a statement that would change it waits.  SQLite and others     *)
(* drop the clause silently: the conditional UPDATE has to be enough.  Its  *)
(* changes are seen by others when it commits, which it does next: UPDATE   *)
(* and commit are one step.                                                *)
(***************************************************************************)
EXTENDS StoreCalls

\* NoEntry also stands for the holder of a row that is not locked.
ASSUME HolderAssumption == NoEntry \notin Proc

VARIABLES now, tokens, sessions,
          phase,    \* "idle", "called", "selected" (after its first SELECT or
                    \* the eviction of a lookup), "reload" (UPDATE hit no row)
          req, begun,
          seen,     \* the rows a SELECT returned, NoEntry before
          at,       \* the clock when it did
          res,
          holder,   \* the goroutine whose transaction locks the row
          rowLocks, \* the dialect has row locks: fixed when the system starts
          spent     \* consumptions that returned a usable state, by key, since
                    \* the state was last saved (history)

vars == <<now, tokens, sessions, phase, req, begun, seen, at, res, holder,
          rowLocks, spent>>

Init ==
  /\ now = 0
  /\ tokens = [k \in Token |-> NoEntry]
  /\ sessions = [s \in Subject |-> NoEntry]
  /\ phase = [p \in Proc |-> "idle"]
  /\ req = [p \in Proc |-> Failed]
  /\ begun = [p \in Proc |-> 0]
  /\ seen = [p \in Proc |-> NoEntry]
  /\ at = [p \in Proc |-> 0]
  /\ res = [p \in Proc |-> Done]
  /\ holder = [k \in Token |-> NoEntry]
  /\ rowLocks \in BOOLEAN
  /\ spent = [k \in Token |-> 0]

Tick ==
  /\ now < MaxTime
  /\ now' = now + 1
  /\ UNCHANGED <<tokens, sessions, phase, req, begun, seen, at, res, holder,
                 rowLocks, spent>>

\* The call is made; the ones that compute a deadline first read the clock now.
Begin(p) ==
  /\ phase[p] = "idle"
  /\ \E c \in NextCalls(res[p]) :
       /\ req' = [req EXCEPT ![p] = c]
       /\ phase' = [phase EXCEPT ![p] = "called"]
       /\ begun' = [begun EXCEPT ![p] = now]
  /\ UNCHANGED <<now, tokens, sessions, seen, at, res, holder, rowLocks, spent>>

\* Ends the transaction, too, if one is open.
Return(p, response) ==
  /\ phase' = [phase EXCEPT ![p] = "idle"]
  /\ req' = [req EXCEPT ![p] = Failed]
  /\ begun' = [begun EXCEPT ![p] = 0]
  /\ seen' = [seen EXCEPT ![p] = NoEntry]
  /\ at' = [at EXCEPT ![p] = 0]
  /\ res' = [res EXCEPT ![p] = response]
  /\ holder' = [k \in Token |-> IF holder[k] = p THEN NoEntry ELSE holder[k]]
  /\ UNCHANGED <<now, rowLocks>>

\* The call goes on with what it has just read.
GoOn(p, next, view) ==
  /\ phase' = [phase EXCEPT ![p] = next]
  /\ seen' = [seen EXCEPT ![p] = view]
  /\ at' = [at EXCEPT ![p] = now]
  /\ UNCHANGED <<now, req, begun, res, rowLocks>>

In(p, op, where) == phase[p] = where /\ req[p].op = op

\* contextErr, a refused argument, or any statement that fails: the transaction
\* rolls back.
Refuse(p) ==
  /\ phase[p] # "idle"
  /\ Return(p, Refused)
  /\ UNCHANGED <<tokens, sessions, spent>>

Unlocked(p, K) == \A k \in K : holder[k] \in {NoEntry, p}

Selected(p) == seen[p].entries[req[p].key]

-----------------------------------------------------------------------------
\* A row is written: whoever consumes it next is the first to do so.
WriteToken(p, k, state, deadline) ==
  /\ Unlocked(p, {k})
  /\ tokens' = Put(tokens, k, state, deadline)
  /\ spent' = [spent EXCEPT ![k] = 0]

\* One upsert of the whole row.
SaveTokenState(p) ==
  /\ In(p, "Save", "called")
  /\ Acceptable(req[p].state)
  /\ WriteToken(p, req[p].key, req[p].state,
                EffectiveExpiresAt(req[p].state, begun[p], req[p].ttl))
  /\ Return(p, Done)
  /\ UNCHANGED sessions

\* The row is compared in Go first.
CompareSelect(p) ==
  /\ In(p, "CAS", "called")
  /\ Acceptable(req[p].state)
  /\ IF tokens[req[p].key] # NoEntry /\ tokens[req[p].key].state = req[p].expected
       THEN GoOn(p, "selected", View(req[p], tokens, sessions)) /\ UNCHANGED holder
       ELSE Return(p, Failed)
  /\ UNCHANGED <<tokens, sessions, spent>>

\* And again by the UPDATE, together with the deadline.
CompareUpdate(p) ==
  /\ In(p, "CAS", "selected")
  /\ LET k == req[p].key IN
       \E t \in at[p] .. now :
         IF /\ tokens[k] # NoEntry
            /\ tokens[k].state = Selected(p).state
            /\ ~Passed(tokens[k].expiresAt, t)
           THEN /\ WriteToken(p, k, req[p].state,
                              EffectiveExpiresAt(req[p].state, begun[p], req[p].ttl))
                /\ Return(p, Done)
           ELSE UNCHANGED <<tokens, spent>> /\ Return(p, Failed)
  /\ UNCHANGED sessions

GetSelect(p) ==
  /\ In(p, "Get", "called")
  /\ IF tokens[req[p].key] = NoEntry
       THEN Return(p, Done)
       ELSE GoOn(p, "selected", View(req[p], tokens, sessions)) /\ UNCHANGED holder
  /\ UNCHANGED <<tokens, sessions, spent>>

\* Mutant: the expired row is deleted by its key.
GetDropping(p) ==
  /\ In(p, "Get", "selected")
  /\ IF Passed(Selected(p).expiresAt, now)
       THEN /\ Unlocked(p, {req[p].key})
            /\ tokens' = Drop(tokens, {req[p].key})
            /\ Return(p, Done)
       ELSE UNCHANGED tokens /\ Return(p, Reported({req[p].key}, seen[p].entries))
  /\ UNCHANGED <<sessions, spent>>

\* The clock is read now.  An expired row is deleted if it is still that row and
\* its deadline has still passed.
GetJudge(p) ==
  /\ In(p, "Get", "selected")
  /\ LET k == req[p].key IN
       IF Passed(Selected(p).expiresAt, now)
         THEN /\ Unlocked(p, {k})
              /\ tokens' = Drop(tokens,
                   {x \in {k} \cap Stored(tokens) :
                      /\ tokens[x].state = Selected(p).state
                      /\ Passed(tokens[x].expiresAt, now)})
              /\ Return(p, Done)
         ELSE UNCHANGED tokens /\ Return(p, Reported({k}, seen[p].entries))
  /\ UNCHANGED <<sessions, spent>>

-----------------------------------------------------------------------------
\* Mutant: the row is selected without FOR UPDATE.
ConsumeSelectPlain(p) ==
  /\ In(p, "Consume", "called")
  /\ IF tokens[req[p].key] = NoEntry
       THEN Return(p, Done)
       ELSE GoOn(p, "selected", View(req[p], tokens, sessions)) /\ UNCHANGED holder
  /\ UNCHANGED <<tokens, sessions, spent>>

\* SELECT ... FOR UPDATE.
ConsumeSelect(p) ==
  /\ In(p, "Consume", "called")
  /\ IF tokens[req[p].key] = NoEntry
       THEN Return(p, Done)
       ELSE /\ Unlocked(p, {req[p].key})
            /\ GoOn(p, "selected", View(req[p], tokens, sessions))
            /\ holder' = IF rowLocks THEN [holder EXCEPT ![req[p].key] = p] ELSE holder
  /\ UNCHANGED <<tokens, sessions, spent>>

\* Expired is as good as missing: the row goes, whatever it is by now.
ConsumeExpired(p) ==
  /\ In(p, "Consume", "selected")
  /\ Passed(Selected(p).expiresAt, now)
  /\ Unlocked(p, {req[p].key})
  /\ tokens' = Drop(tokens, {req[p].key})
  /\ Return(p, Done)
  /\ UNCHANGED <<sessions, spent>>

\* A consumed, revoked or foreign state is returned as it is.
ConsumeInactive(p) ==
  /\ In(p, "Consume", "selected")
  /\ ~Passed(Selected(p).expiresAt, now)
  /\ ~Consumable(Selected(p).state, req[p].kinds, now)
  /\ Return(p, Reported({req[p].key}, seen[p].entries))
  /\ UNCHANGED <<tokens, sessions, spent>>

\* Mutant: the UPDATE hits any row of that key.
StillStored(p, t) == tokens[req[p].key] # NoEntry

\* The row is still the one selected, active and unexpired.
StillConsumable(p, t) ==
  LET k == req[p].key IN
    /\ tokens[k] # NoEntry
    /\ tokens[k].state = Selected(p).state
    /\ tokens[k].state.status = "active"
    /\ ~Passed(tokens[k].expiresAt, t)

\* The conditional UPDATE, with the clock reading that found the row usable.
ConsumeUpdate(p) ==
  /\ In(p, "Consume", "selected")
  /\ LET k == req[p].key IN
       /\ Unlocked(p, {k})
       /\ \E t \in at[p] .. now :
            /\ ~Passed(Selected(p).expiresAt, t)
            /\ Consumable(Selected(p).state, req[p].kinds, t)
            /\ IF StillConsumable(p, t)
                 THEN /\ tokens' = Rewrite(tokens, k, MarkConsumed(Selected(p).state))
                      /\ spent' = [spent EXCEPT ![k] = @ + 1]
                      /\ Return(p, Reported({k}, seen[p].entries))
                 ELSE /\ phase' = [phase EXCEPT ![p] = "reload"]
                      /\ at' = [at EXCEPT ![p] = t]
                      /\ UNCHANGED <<now, tokens, req, begun, seen, res, holder,
                                     rowLocks, spent>>
  /\ UNCHANGED sessions

\* Another transaction was faster: what it left is the answer, unless that could
\* be consumed as well.
ConsumeReload(p) ==
  /\ In(p, "Consume", "reload")
  /\ LET k == req[p].key IN
       Return(p, IF tokens[k] = NoEntry THEN Done
                 ELSE IF Consumable(tokens[k].state, req[p].kinds, at[p]) THEN Refused
                 ELSE Reported({k}, tokens))
  /\ UNCHANGED <<tokens, sessions, spent>>

-----------------------------------------------------------------------------
DeleteTokenState(p) ==
  /\ In(p, "Delete", "called")
  /\ Unlocked(p, {req[p].key})
  /\ tokens' = Drop(tokens, {req[p].key})
  /\ Return(p, Done)
  /\ UNCHANGED <<sessions, spent>>

\* The expired rows of the subject, of every kind, go first.
FindEvict(p) ==
  /\ In(p, "Find", "called")
  /\ LET expired == {k \in OfSubject(tokens, req[p].subject, {}) :
                       Passed(tokens[k].expiresAt, begun[p])}
     IN  /\ Unlocked(p, expired)
         /\ tokens' = Drop(tokens, expired)
  /\ GoOn(p, "selected", NoEntry)
  /\ UNCHANGED <<sessions, holder, spent>>

\* Then the rest is read without a look at the deadlines.
FindSelect(p) ==
  /\ In(p, "Find", "selected")
  /\ Return(p, Reported(OfSubject(tokens, req[p].subject, req[p].kinds), tokens))
  /\ UNCHANGED <<tokens, sessions, spent>>

DeleteTokenStates(p) ==
  /\ In(p, "DeleteAll", "called")
  /\ LET K == OfSubject(tokens, req[p].subject, req[p].kinds) IN
       Unlocked(p, K) /\ tokens' = Drop(tokens, K)
  /\ Return(p, Done)
  /\ UNCHANGED <<sessions, spent>>

-----------------------------------------------------------------------------
WriteSession(p, data) ==
  /\ sessions' = [sessions EXCEPT ![req[p].subject] =
       [data |-> data, expiresAt |-> DeadlineAfter(begun[p], req[p].ttl)]]
  /\ Return(p, Done)
  /\ UNCHANGED <<tokens, spent>>

SaveSession(p) == In(p, "SaveSession", "called") /\ WriteSession(p, req[p].data)

\* One upsert whose CASE keeps the data of a row that has not expired.
EnsureSession(p) ==
  /\ In(p, "EnsureSession", "called")
  /\ LET row == sessions[req[p].subject] IN
       IF row = NoEntry
         THEN WriteSession(p, NewData)
         ELSE WriteSession(p, IF Passed(row.expiresAt, begun[p]) THEN NewData
                                                                 ELSE row.data)

GetSessionSelect(p) ==
  /\ In(p, "GetSession", "called")
  /\ IF sessions[req[p].subject] = NoEntry
       THEN Return(p, Done)
       ELSE GoOn(p, "selected", View(req[p], tokens, sessions)) /\ UNCHANGED holder
  /\ UNCHANGED <<tokens, sessions, spent>>

\* An expired row is deleted if the row there now has expired as well.
GetSessionJudge(p) ==
  /\ In(p, "GetSession", "selected")
  /\ LET s == req[p].subject
         row == seen[p].session
     IN  IF Passed(row.expiresAt, now)
           THEN /\ sessions' = [sessions EXCEPT ![s] =
                     IF @ = NoEntry THEN NoEntry
                     ELSE IF Passed(@.expiresAt, now) THEN NoEntry ELSE @]
                /\ Return(p, Done)
           ELSE UNCHANGED sessions /\ Return(p, [Done EXCEPT !.data = row.data])
  /\ UNCHANGED <<tokens, spent>>

DeleteSession(p) ==
  /\ In(p, "DeleteSession", "called")
  /\ sessions' = [sessions EXCEPT ![req[p].subject] = NoEntry]
  /\ Return(p, Done)
  /\ UNCHANGED <<tokens, spent>>

-----------------------------------------------------------------------------
ConsumeStep(p) ==
  \/ ConsumeSelect(p)
  \/ ConsumeExpired(p)
  \/ ConsumeInactive(p)
  \/ ConsumeUpdate(p)
  \/ ConsumeReload(p)

TokenStep(p) ==
  \/ SaveTokenState(p)
  \/ CompareSelect(p)
  \/ CompareUpdate(p)
  \/ GetSelect(p)
  \/ GetJudge(p)
  \/ ConsumeStep(p)
  \/ DeleteTokenState(p)
  \/ FindEvict(p)
  \/ FindSelect(p)
  \/ DeleteTokenStates(p)

SessionStep(p) ==
  \/ SaveSession(p)
  \/ EnsureSession(p)
  \/ GetSessionSelect(p)
  \/ GetSessionJudge(p)
  \/ DeleteSession(p)

Next ==
  \/ Tick
  \/ \E p \in Proc : Begin(p) \/ Refuse(p) \/ TokenStep(p) \/ SessionStep(p)

Spec == Init /\ [][Next]_vars

-----------------------------------------------------------------------------
StoreTypeOK ==
  /\ tokens \in [Token -> Entry \cup {NoEntry}]
  /\ sessions \in [Subject -> SessionItem \cup {NoEntry}]

CallTypeOK ==
  /\ now \in 0 .. MaxTime
  /\ phase \in [Proc -> {"idle", "called", "selected", "reload"}]
  /\ req \in [Proc -> Call \cup {Failed}]
  /\ begun \in [Proc -> 0 .. MaxTime]
  /\ at \in [Proc -> 0 .. MaxTime]
  /\ res \in [Proc -> Response]
  /\ holder \in [Token -> Proc \cup {NoEntry}]
  /\ rowLocks \in BOOLEAN
  /\ \A p \in Proc :
       /\ phase[p] # "idle" => req[p] \in Call /\ begun[p] <= now
       /\ phase[p] \in {"selected", "reload"} => at[p] \in begun[p] .. now
       /\ seen[p] # NoEntry => phase[p] \in {"selected", "reload"}
  /\ \A k \in Token : holder[k] # NoEntry =>
       rowLocks /\ In(holder[k], "Consume", "selected")

\* Every variable has its type (the columns of tokenStateRecord and
\* sessionRecord, the locals of the methods); what a call has read and when it
\* read it agree with how far it got, and only an open transaction holds a lock.
TypeOK == StoreTypeOK /\ CallTypeOK

\* consumeTokenState promises that a state is won by one caller only, whether or
\* not the dialect drops FOR UPDATE: between two writes of a row at most one
\* consumption returns it as usable, or a nonce or refresh token is spent twice.
SingleWinner == \A k \in Token : spent[k] <= 1

\* Where the dialect locks rows, the UPDATE of a consumption always hits the row
\* its SELECT returned: the branch that reads the row again is for the others.
LockSuffices == \A p \in Proc : phase[p] = "reload" => ~rowLocks

\* The contract is claimed with row locks only: without, it is shown a store that
\* nobody uses.
Shown(value, initial) == IF rowLocks THEN value ELSE initial

\* With row locks the database store implements the contract of core/store.go:
\* rows judged after they were read, deletions conditional on what was read, and
\* the transaction of a consumption add up to calls that take effect at once.
Contract == INSTANCE AtomicStore
  WITH tokens   <- Shown(tokens, [k \in Token |-> NoEntry]),
       sessions <- Shown(sessions, [s \in Subject |-> NoEntry]),
       phase    <- Shown([p \in Proc |-> IF phase[p] = "idle" THEN "idle" ELSE "called"],
                         [p \in Proc |-> "idle"]),
       req      <- Shown(req, [p \in Proc |-> Failed]),
       begun    <- Shown(begun, [p \in Proc |-> 0]),
       seen     <- Shown(seen, [p \in Proc |-> NoEntry]),
       res      <- Shown(res, [p \in Proc |-> Done])

ImplementsContract == Contract!Spec
=============================================================================
