----------------------------- MODULE AtomicStore -----------------------------
(***************************************************************************)
(* What core.Store and core.AtomicStore promise (core/store.go).  A call    *)
(* that changes something does so at one instant between its start and its  *)
(* return.  A call that reads sees the map as it was at one such instant,   *)
(* and judges what it saw by a clock reading of another: a store that asks  *)
(* a server has the answer before it looks at the clock.  A call may be     *)
(* refused, with no effect.  An expired entry may vanish at any moment, and *)
(* nobody can tell: that is the only change the store makes on its own.     *)
(***************************************************************************)
EXTENDS StoreCalls

VARIABLES now,       \* the clock every client and the store share
          tokens,    \* [Token -> Entry or NoEntry]
          sessions,  \* [Subject -> SessionItem or NoEntry]
          phase,     \* "idle" or "called", per goroutine
          req,       \* the call in progress
          begun,     \* the clock when it began
          seen,      \* what it saw of the map, NoEntry before it looks
          res        \* the response to the last call

vars == <<now, tokens, sessions, phase, req, begun, seen, res>>

Init ==
  /\ now = 0
  /\ tokens = [k \in Token |-> NoEntry]
  /\ sessions = [s \in Subject |-> NoEntry]
  /\ phase = [p \in Proc |-> "idle"]
  /\ req = [p \in Proc |-> Failed]
  /\ begun = [p \in Proc |-> 0]
  /\ seen = [p \in Proc |-> NoEntry]
  /\ res = [p \in Proc |-> Done]

SessionLive(s, t) ==
  sessions[s] # NoEntry /\ ~Passed(sessions[s].expiresAt, t)

\* Any of the entries that have expired by t may be gone.
EvictSome(t) ==
  /\ \E K \in SUBSET (Stored(tokens) \ Live(tokens, t)) : tokens' = Drop(tokens, K)
  /\ \E S \in SUBSET {s \in Subject : ~SessionLive(s, t)} :
       sessions' = [s \in Subject |-> IF s \in S THEN NoEntry ELSE sessions[s]]

Tick ==
  /\ now < MaxTime
  /\ now' = now + 1
  /\ EvictSome(now')
  /\ UNCHANGED <<phase, req, begun, seen, res>>

Evict == EvictSome(now) /\ UNCHANGED <<now, phase, req, begun, seen, res>>

Begin(p) ==
  /\ phase[p] = "idle"
  /\ \E c \in NextCalls(res[p]) :
       /\ req' = [req EXCEPT ![p] = c]
       /\ phase' = [phase EXCEPT ![p] = "called"]
       /\ begun' = [begun EXCEPT ![p] = now]
  /\ UNCHANGED <<now, tokens, sessions, seen, res>>

Answer(p, response) ==
  /\ phase' = [phase EXCEPT ![p] = "idle"]
  /\ req' = [req EXCEPT ![p] = Failed]
  /\ begun' = [begun EXCEPT ![p] = 0]
  /\ seen' = [seen EXCEPT ![p] = NoEntry]
  /\ res' = [res EXCEPT ![p] = response]
  /\ UNCHANGED now

\* The call looks at the map, for the first time or once again.
Observe(p) ==
  /\ phase[p] = "called"
  /\ seen' = [seen EXCEPT ![p] = View(req[p], tokens, sessions)]
  /\ UNCHANGED <<now, tokens, sessions, phase, req, begun, res>>

\* What a call that reads, or finds nothing to change, may answer from a view of
\* the map by the clock reading t.  What has expired by its own deadline may be
\* among the answer of a lookup by subject, where the callers look themselves,
\* and of a consumption, which returns what it could not consume.  A deletion
\* that finds the session replaced since it looked took effect just before that.
ReadAnswers(c, view, t) ==
  LET stored  == DOMAIN view.entries
      live    == {k \in stored : ~EntryExpired(view.entries[k], t)}
      expired == {k \in stored : IsExpired(view.entries[k].state, t)}
      With(K) == {Reported(live \cup L, view.entries) : L \in SUBSET K}
  IN  CASE c.op = "Get" -> With({})
        [] c.op = "Find" -> With(stored)
        [] c.op = "Consume" ->
             IF \E k \in live : Consumable(view.entries[k].state, c.kinds, t)
               THEN {} ELSE With(expired)
        [] c.op \in {"Delete", "DeleteAll"} -> IF live = {} THEN {Done} ELSE {}
        [] c.op = "GetSession" ->
             IF view.session = NoEntry THEN {Done}
             ELSE IF Passed(view.session.expiresAt, t) THEN {Done}
             ELSE {[Done EXCEPT !.data = view.session.data]}
        [] c.op = "DeleteSession" ->
             IF view.session = NoEntry \/ sessions[c.subject] = NoEntry THEN {Done}
             ELSE IF sessions[c.subject].data # view.session.data THEN {Done} ELSE {}
        [] OTHER -> {}

\* The view is of this moment, or the one the call has kept.  The expired entries
\* it came across may go.
Report(p) ==
  /\ phase[p] = "called"
  /\ \E view \in ({seen[p]} \ {NoEntry}) \cup {View(req[p], tokens, sessions)},
        t \in begun[p] .. now :
       \E response \in ReadAnswers(req[p], view, t) : Answer(p, response)
  /\ EvictSome(now)

\* A context already done, a state the store refuses, a failing server: nothing
\* happens.
Refuse(p) ==
  /\ phase[p] = "called"
  /\ Answer(p, Refused)
  /\ UNCHANGED <<tokens, sessions>>

Save(p, c, t) ==
  /\ c.op = "Save"
  /\ Acceptable(c.state)
  /\ tokens' = Put(tokens, c.key, c.state, EffectiveExpiresAt(c.state, t, c.ttl))
  /\ Answer(p, Done)
  /\ UNCHANGED sessions

\* Missing, expired or changed: false, and it never inserts.
CompareAndSwap(p, c, t, u) ==
  /\ c.op = "CAS"
  /\ Acceptable(c.state)
  /\ IF Matches(tokens, c.key, c.expected, u)
       THEN /\ tokens' = Put(tokens, c.key, c.state,
                             EffectiveExpiresAt(c.state, t, c.ttl))
            /\ Answer(p, Done)
       ELSE UNCHANGED tokens /\ Answer(p, Failed)
  /\ UNCHANGED sessions

\* Returns the state as it was before the call.
ConsumeState(p, c, t) ==
  /\ c.op = "Consume"
  /\ c.key \in Live(tokens, t)
  /\ tokens' = Consume(tokens, c.key, c.kinds, t)
  /\ Answer(p, Reported({c.key}, tokens))
  /\ UNCHANGED sessions

Delete(p, c) ==
  /\ c.op = "Delete"
  /\ tokens' = Drop(tokens, {c.key})
  /\ Answer(p, Done)
  /\ UNCHANGED sessions

DeleteAll(p, c) ==
  /\ c.op = "DeleteAll"
  /\ tokens' = Drop(tokens, OfSubject(tokens, c.subject, c.kinds))
  /\ Answer(p, Done)
  /\ UNCHANGED sessions

SetSession(s, item) == sessions' = [sessions EXCEPT ![s] = item]

SaveSession(p, c, t) ==
  /\ c.op = "SaveSession"
  /\ SetSession(c.subject, [data |-> c.data, expiresAt |-> DeadlineAfter(t, c.ttl)])
  /\ Answer(p, Done)
  /\ UNCHANGED tokens

\* Initialises a missing or expired session; keeps the data of a live one.
EnsureSession(p, c, t) ==
  /\ c.op = "EnsureSession"
  /\ SetSession(c.subject,
       [data |-> IF SessionLive(c.subject, t) THEN sessions[c.subject].data ELSE NewData,
        expiresAt |-> DeadlineAfter(t, c.ttl)])
  /\ Answer(p, Done)
  /\ UNCHANGED tokens

DeleteSession(p, c) ==
  /\ c.op = "DeleteSession"
  /\ SetSession(c.subject, NoEntry)
  /\ Answer(p, Done)
  /\ UNCHANGED tokens

\* One call that changes the map takes effect and returns; t and u are clock readings it made.
Perform(p) ==
  /\ phase[p] = "called"
  /\ \E t, u \in begun[p] .. now :
       \/ Save(p, req[p], t)
       \/ CompareAndSwap(p, req[p], t, u)
       \/ ConsumeState(p, req[p], t)
       \/ Delete(p, req[p])
       \/ DeleteAll(p, req[p])
       \/ SaveSession(p, req[p], t)
       \/ EnsureSession(p, req[p], t)
       \/ DeleteSession(p, req[p])

Next ==
  \/ Tick
  \/ Evict
  \/ \E p \in Proc : Begin(p) \/ Refuse(p) \/ Observe(p) \/ Report(p) \/ Perform(p)

Spec == Init /\ [][Next]_vars
=============================================================================
