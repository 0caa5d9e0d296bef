----------------------------- MODULE RedisStore -----------------------------
(***************************************************************************)
(* storage/redis/store.go and session.go.  A token state, the index of a    *)
(* subject and a session are keys of a Redis server, which runs one command *)
(* or script at a time: each is a step.  A change is a read, a decision in  *)
(* Go, and a script that compares what was read before it writes; when the  *)
(* comparison fails, a save or a consumption starts again, Attempts times   *)
(* in all.  Bulk calls work through the members of an index one by one.     *)
(*                                                                         *)
(* A key with an expiry is gone from that instant on.  The server counts    *)
(* its remaining time from the script, the caller computed it from an       *)
(* earlier clock reading.  The keys of earlier versions (the consumption    *)
(* marker, indexes and sessions under unencoded names) are left out.        *)
(***************************************************************************)
EXTENDS StoreCalls

CONSTANTS Attempts,
          BulkOps  \* the operations of callers that use several tokens

ASSUME RedisAssumption == Attempts \in Nat \ {0} /\ BulkOps \subseteq Ops \ {"CAS"}

VARIABLES inUse,    \* the tokens callers use in this behaviour
          now,
          tokens,   \* expiresAt is the instant at which the key goes
          indexes,  \* the set of each subject
          sessions,
          phase,    \* "idle"; "called"; "read" (after an MGET); "members" (after
                    \* SMEMBERS); "values" (walking the members); "matches"
                    \* (walking the tokens to delete); "match" (one of them read)
          req, begun,
          seen,     \* the values the last MGET returned, NoEntry before
          at,       \* the clock when it did
          attempt,  \* how often the script found the key changed
          todo,     \* members or tokens still to be visited
          found,    \* members visited that are neither missing nor expired
          res,
          covered   \* history: what a DeleteTokenStates in progress has to delete

vars == <<inUse, now, tokens, indexes, sessions, phase, req, begun, seen, at,
          attempt, todo, found, res, covered>>

Several == \E j, k \in inUse : j # k

Init ==
  /\ inUse \in SUBSET Token \ {{}}
  /\ now = 0
  /\ tokens = [k \in Token |-> NoEntry]
  /\ indexes = [s \in Subject \cup {ZeroSubject} |-> {}]
  /\ sessions = [s \in Subject |-> NoEntry]
  /\ phase = [p \in Proc |-> "idle"]
  /\ req = [p \in Proc |-> Failed]
  /\ begun = [p \in Proc |-> 0]
  /\ seen = [p \in Proc |-> NoEntry]
  /\ at = [p \in Proc |-> 0]
  /\ attempt = [p \in Proc |-> 0]
  /\ todo = [p \in Proc |-> {}]
  /\ found = [p \in Proc |-> {}]
  /\ res = [p \in Proc |-> Done]
  /\ covered = [p \in Proc |-> {}]

\* Time passes, and keys go.
Tick ==
  /\ now < MaxTime
  /\ now' = now + 1
  /\ tokens' = Drop(tokens, {k \in Stored(tokens) : Passed(tokens[k].expiresAt, now')})
  /\ sessions' = [s \in Subject |->
       IF sessions[s] = NoEntry THEN NoEntry
       ELSE IF Passed(sessions[s].expiresAt, now') THEN NoEntry ELSE sessions[s]]
  /\ UNCHANGED <<indexes, phase, req, begun, seen, at, attempt, todo, found, res>>

Begin(p) ==
  /\ phase[p] = "idle"
  /\ \E c \in NextCalls(res[p]) :
       /\ "key" \in DOMAIN c => c.key \in inUse
       /\ Several => c.op \in BulkOps
       /\ req' = [req EXCEPT ![p] = c]
       /\ phase' = [phase EXCEPT ![p] = "called"]
       /\ begun' = [begun EXCEPT ![p] = now]
  /\ UNCHANGED <<now, tokens, indexes, sessions, seen, at, attempt, todo, found, res>>

\* Callers of several tokens make no compare-and-swap, for which alone the states a
\* call returned are kept.
Return(p, response) ==
  /\ phase' = [phase EXCEPT ![p] = "idle"]
  /\ req' = [req EXCEPT ![p] = Failed]
  /\ begun' = [begun EXCEPT ![p] = 0]
  /\ seen' = [seen EXCEPT ![p] = NoEntry]
  /\ at' = [at EXCEPT ![p] = 0]
  /\ attempt' = [attempt EXCEPT ![p] = 0]
  /\ todo' = [todo EXCEPT ![p] = {}]
  /\ found' = [found EXCEPT ![p] = {}]
  /\ res' = [res EXCEPT ![p] =
       IF Several THEN [response EXCEPT !.states = {}] ELSE response]
  /\ UNCHANGED now

GoOn(p, next) ==
  /\ phase' = [phase EXCEPT ![p] = next]
  /\ UNCHANGED <<now, req, begun, res>>

Unchanged == UNCHANGED <<tokens, indexes, sessions>>

In(p, ops, where) == phase[p] = where /\ req[p].op \in ops

\* contextErr, a refused argument, or any command that fails.
Refuse(p) ==
  /\ phase[p] # "idle"
  /\ Return(p, Refused)
  /\ Unchanged

-----------------------------------------------------------------------------
\* MGET of some keys.
Fetched(K) == [entries |-> [k \in K \cap Stored(tokens) |-> tokens[k]], session |-> NoEntry]

Fetch(p, K) ==
  /\ seen' = [seen EXCEPT ![p] = Fetched(K)]
  /\ at' = [at EXCEPT ![p] = now]

\* What was read of k, which was there.
Snap(p, k) == seen[p].entries[k].state

\* The comparison of the scripts: the value of the key is the one that was read.
StillThat(p, k) ==
  IF k \in DOMAIN seen[p].entries
    THEN k \in Stored(tokens) /\ tokens[k].state = Snap(p, k)
    ELSE k \notin Stored(tokens)

\* readToken, and what each caller makes of a missing key; a compare-and-swap
\* compares in Go first.
ReadToken(p) ==
  /\ In(p, {"Save", "CAS", "Get", "Consume", "Delete"}, "called")
  /\ LET k == req[p].key
         missing == k \notin Stored(tokens)
     IN  IF req[p].op \in {"Get", "Consume", "Delete"} /\ missing
           THEN Return(p, Done)
         ELSE IF req[p].op = "CAS" /\ (missing \/ tokens[k].state # req[p].expected)
           THEN Acceptable(req[p].state) /\ Return(p, Failed)
         ELSE /\ req[p].op \in {"Save", "CAS"} => Acceptable(req[p].state)
              /\ Fetch(p, {k})
              /\ GoOn(p, "read")
              /\ UNCHANGED <<attempt, todo, found>>
  /\ Unchanged

\* The same arguments and the same context: read again, or give up.
Retry(p) ==
  IF attempt[p] + 1 < Attempts
    THEN /\ attempt' = [attempt EXCEPT ![p] = @ + 1]
         /\ GoOn(p, "called")
         /\ UNCHANGED <<seen, at, todo, found>>
    ELSE Return(p, Refused)

\* redisTTL: what is left of the deadline at t, and a millisecond of what has
\* passed (here an instant); PX counts it from the moment the script runs.
KeyDeadline(state, t, ttl) ==
  LET deadline == EffectiveExpiresAt(state, t, ttl) IN
    IF deadline = Never THEN Never
    ELSE IF deadline > t THEN now + (deadline - t) ELSE now + 1

\* saveScript, when the comparison holds: the member moves from the index of the
\* subject that was read to that of the new one.
SaveScript(p, t) ==
  LET k    == req[p].key
      left == {s \in DOMAIN indexes : k \in DOMAIN seen[p].entries /\ s = Snap(p, k).subject}
  IN  /\ tokens' = Put(tokens, k, req[p].state,
                       KeyDeadline(req[p].state, t, req[p].ttl))
      /\ indexes' = [s \in DOMAIN indexes |->
           IF s = req[p].state.subject THEN indexes[s] \cup {k}
           ELSE IF s \in left THEN indexes[s] \ {k} ELSE indexes[s]]

SaveTokenState(p) ==
  /\ In(p, {"Save"}, "read")
  /\ IF StillThat(p, req[p].key)
       THEN /\ \E t \in at[p] .. now : SaveScript(p, t)
            /\ Return(p, Done)
       ELSE UNCHANGED <<tokens, indexes>> /\ Retry(p)
  /\ UNCHANGED sessions

\* Tried once; what was read, the expected state, must not have expired.
CompareAndSwapTokenState(p) ==
  /\ In(p, {"CAS"}, "read")
  /\ LET k == req[p].key IN
       \E t, u \in at[p] .. now :
         /\ t <= u
         /\ IF ~IsExpired(Snap(p, k), t) /\ StillThat(p, k)
              THEN SaveScript(p, u) /\ Return(p, Done)
              ELSE UNCHANGED <<tokens, indexes>> /\ Return(p, Failed)
  /\ UNCHANGED sessions

\* deleteScript: nothing happens to a key that has changed.
DeleteSnapshot(p, k) ==
  IF StillThat(p, k)
    THEN /\ tokens' = Drop(tokens, {k})
         /\ indexes' = [indexes EXCEPT ![Snap(p, k).subject] = @ \ {k}]
    ELSE UNCHANGED <<tokens, indexes>>

GetTokenState(p) ==
  /\ In(p, {"Get"}, "read")
  /\ LET k == req[p].key IN
       IF IsExpired(Snap(p, k), now)
         THEN DeleteSnapshot(p, k) /\ Return(p, Done)
         ELSE /\ UNCHANGED <<tokens, indexes>>
              /\ Return(p, Reported({k}, seen[p].entries))
  /\ UNCHANGED sessions

\* Mutant: the script does not compare.
ConsumeScriptBlind(p) ==
  LET k == req[p].key IN
    IF k \in Stored(tokens)
      THEN /\ tokens' = Rewrite(tokens, k, MarkConsumed(Snap(p, k)))
           /\ Return(p, Reported({k}, seen[p].entries))
      ELSE UNCHANGED tokens /\ Retry(p)

\* consumeScript keeps the expiry of the key.
ConsumeScript(p) ==
  LET k == req[p].key IN
    IF StillThat(p, k)
      THEN /\ tokens' = Rewrite(tokens, k, MarkConsumed(Snap(p, k)))
           /\ Return(p, Reported({k}, seen[p].entries))
      ELSE UNCHANGED tokens /\ Retry(p)

\* The clock is read twice before the script: for expiry, and for activity.
ConsumeTokenState(p) ==
  /\ In(p, {"Consume"}, "read")
  /\ LET k == req[p].key IN
       \E t, u \in at[p] .. now :
         /\ t <= u
         /\ \/ /\ IsExpired(Snap(p, k), t)
               /\ UNCHANGED tokens
               /\ Return(p, Done)
            \/ /\ ~IsExpired(Snap(p, k), t)
               /\ ~Consumable(Snap(p, k), req[p].kinds, u)
               /\ UNCHANGED tokens
               /\ Return(p, Reported({k}, seen[p].entries))
            \/ /\ Consumable(Snap(p, k), req[p].kinds, u)
               /\ ConsumeScript(p)
  /\ UNCHANGED <<indexes, sessions>>

\* A token that changed since it was read is not deleted, and the call fails.
DeleteTokenState(p) ==
  /\ In(p, {"Delete"}, "read")
  /\ DeleteSnapshot(p, req[p].key)
  /\ Return(p, IF StillThat(p, req[p].key) THEN Done ELSE Refused)
  /\ UNCHANGED sessions

-----------------------------------------------------------------------------
FindMembers(p) ==
  /\ In(p, {"Find", "DeleteAll"}, "called")
  /\ IF indexes[req[p].subject] = {}
       THEN Return(p, Done)
       ELSE /\ todo' = [todo EXCEPT ![p] = indexes[req[p].subject]]
            /\ GoOn(p, "members")
            /\ UNCHANGED <<seen, at, attempt, found>>
  /\ Unchanged

\* One MGET for all of them.
FindValues(p) ==
  /\ In(p, {"Find", "DeleteAll"}, "members")
  /\ Fetch(p, todo[p])
  /\ GoOn(p, "values")
  /\ UNCHANGED <<attempt, todo, found>>
  /\ Unchanged

\* Membership is a hint: the stored state says whose token it is.
Matching(p, K) ==
  {k \in K : /\ Snap(p, k).subject = req[p].subject
             /\ MatchKind(Snap(p, k).kind, req[p].kinds)}

\* The walk over the members goes on, or FindTokenStates returns.
Walk(p, k, kept) ==
  LET rest == todo[p] \ {k}
      all  == found[p] \cup kept
  IN  IF rest # {}
        THEN /\ todo' = [todo EXCEPT ![p] = rest]
             /\ found' = [found EXCEPT ![p] = all]
             /\ GoOn(p, "values")
             /\ UNCHANGED <<seen, at, attempt>>
      ELSE IF req[p].op = "Find"
        THEN Return(p, Reported(Matching(p, all), seen[p].entries))
      ELSE IF Matching(p, all) = {} THEN Return(p, Done)
      ELSE /\ todo' = [todo EXCEPT ![p] = Matching(p, all)]
           /\ found' = [found EXCEPT ![p] = {}]
           /\ GoOn(p, "matches")
           /\ UNCHANGED <<seen, at, attempt>>

\* Mutant: the member is removed without a look at the key.
PruneBlind(p, k) ==
  indexes' = [indexes EXCEPT ![req[p].subject] = @ \ {k}]

\* pruneIndexScript: a token saved again since is kept.
Prune(p, k) ==
  indexes' = IF k \in Stored(tokens) THEN indexes
             ELSE [indexes EXCEPT ![req[p].subject] = @ \ {k}]

\* A missing member is pruned, an expired one deleted, any other kept.
FindMember(p) ==
  /\ In(p, {"Find", "DeleteAll"}, "values")
  /\ \E k \in todo[p] :
       \/ /\ k \notin DOMAIN seen[p].entries
          /\ Prune(p, k)
          /\ UNCHANGED tokens
          /\ Walk(p, k, {})
       \/ /\ k \in DOMAIN seen[p].entries
          /\ IsExpired(Snap(p, k), now)
          /\ DeleteSnapshot(p, k)
          /\ Walk(p, k, {})
       \/ /\ k \in DOMAIN seen[p].entries
          /\ ~IsExpired(Snap(p, k), now)
          /\ UNCHANGED <<tokens, indexes>>
          /\ Walk(p, k, {k})
  /\ UNCHANGED sessions

\* DeleteTokenStates goes on to the next token found, or returns.
NextMatch(p, k) ==
  IF todo[p] = {k} THEN Return(p, Done)
  ELSE /\ todo' = [todo EXCEPT ![p] = @ \ {k}]
       /\ found' = [found EXCEPT ![p] = {}]
       /\ GoOn(p, "matches")
       /\ UNCHANGED <<seen, at, attempt>>

\* Each token is read again; one that is gone or is no longer the subject's is
\* passed over.  found holds the one in hand.
ReadMatch(p) ==
  /\ In(p, {"DeleteAll"}, "matches")
  /\ \E k \in todo[p] :
       IF k \in OfSubject(tokens, req[p].subject, req[p].kinds)
         THEN /\ Fetch(p, {k})
              /\ found' = [found EXCEPT ![p] = {k}]
              /\ GoOn(p, "match")
              /\ UNCHANGED <<attempt, todo>>
         ELSE NextMatch(p, k)
  /\ Unchanged

\* Mutant: a token that changed in between is passed over.
DeleteMatchOrSkip(p) ==
  /\ In(p, {"DeleteAll"}, "match")
  /\ \E k \in found[p] : DeleteSnapshot(p, k) /\ NextMatch(p, k)
  /\ UNCHANGED sessions

\* The first token that changed in between ends the call with an error.
DeleteMatch(p) ==
  /\ In(p, {"DeleteAll"}, "match")
  /\ \E k \in found[p] :
       /\ DeleteSnapshot(p, k)
       /\ IF StillThat(p, k) THEN NextMatch(p, k) ELSE Return(p, Refused)
  /\ UNCHANGED sessions

-----------------------------------------------------------------------------
\* sessionWriteScript: the value, then PEXPIRE or PERSIST.
WriteSession(p, data) ==
  /\ sessions' = [sessions EXCEPT ![req[p].subject] =
       [data |-> data, expiresAt |-> DeadlineAfter(now, req[p].ttl)]]
  /\ Return(p, Done)
  /\ UNCHANGED <<tokens, indexes>>

SaveSession(p) == In(p, {"SaveSession"}, "called") /\ WriteSession(p, req[p].data)

\* In "ensure" mode an existing value is kept.
EnsureSession(p) ==
  /\ In(p, {"EnsureSession"}, "called")
  /\ LET item == sessions[req[p].subject] IN
       WriteSession(p, IF item = NoEntry THEN NewData ELSE item.data)

GetSession(p) ==
  /\ In(p, {"GetSession"}, "called")
  /\ LET item == sessions[req[p].subject] IN
       Return(p, IF item = NoEntry THEN Done ELSE [Done EXCEPT !.data = item.data])
  /\ Unchanged

DeleteSessionRead(p) ==
  /\ In(p, {"DeleteSession"}, "called")
  /\ IF sessions[req[p].subject] = NoEntry
       THEN Return(p, Done)
       ELSE /\ seen' = [seen EXCEPT ![p] = View(req[p], tokens, sessions)]
            /\ at' = [at EXCEPT ![p] = now]
            /\ GoOn(p, "read")
            /\ UNCHANGED <<attempt, todo, found>>
  /\ Unchanged

\* sessionDeleteScript: a session with other data stays, and that is no error.
DeleteSession(p) ==
  /\ In(p, {"DeleteSession"}, "read")
  /\ sessions' = [sessions EXCEPT ![req[p].subject] =
       IF @ = NoEntry THEN NoEntry
       ELSE IF @.data = seen[p].session.data THEN NoEntry ELSE @]
  /\ Return(p, Done)
  /\ UNCHANGED <<tokens, indexes>>

-----------------------------------------------------------------------------
TokenStep(p) ==
  \/ ReadToken(p)
  \/ SaveTokenState(p)
  \/ CompareAndSwapTokenState(p)
  \/ GetTokenState(p)
  \/ ConsumeTokenState(p)
  \/ DeleteTokenState(p)
  \/ FindMembers(p)
  \/ FindValues(p)
  \/ FindMember(p)
  \/ ReadMatch(p)
  \/ DeleteMatch(p)

SessionStep(p) ==
  \/ SaveSession(p)
  \/ EnsureSession(p)
  \/ GetSession(p)
  \/ DeleteSessionRead(p)
  \/ DeleteSession(p)

\* The tokens a DeleteTokenStates has to delete: those of the subject since it
\* began, neither saved again nor expired meanwhile.
Track ==
  covered' = [p \in Proc |->
    IF ~(phase'[p] # "idle" /\ req'[p].op = "DeleteAll") THEN {}
    ELSE IF phase[p] = "idle" THEN OfSubject(tokens, req'[p].subject, req'[p].kinds)
    ELSE {k \in covered[p] \cap Live(tokens', now') :
            tokens'[k].state \in {tokens[k].state, MarkConsumed(tokens[k].state)}}]

Next ==
  /\ \/ Tick
     \/ \E p \in Proc : Begin(p) \/ Refuse(p) \/ TokenStep(p) \/ SessionStep(p)
  /\ Track
  /\ UNCHANGED inUse

Spec == Init /\ [][Next]_vars

-----------------------------------------------------------------------------
KeyOps == {"Save", "CAS", "Get", "Consume", "Delete"}
Walking == {"members", "values", "matches", "match"}

StoreTypeOK ==
  /\ now \in 0 .. MaxTime
  /\ tokens \in [Token -> Entry \cup {NoEntry}]
  /\ indexes \in [Subject \cup {ZeroSubject} -> SUBSET inUse]
  /\ sessions \in [Subject -> SessionItem \cup {NoEntry}]
  /\ Stored(tokens) \subseteq inUse
  /\ \A k \in Stored(tokens) : ~Passed(tokens[k].expiresAt, now)
  /\ \A s \in Subject : sessions[s] # NoEntry => ~Passed(sessions[s].expiresAt, now)

\* What client p has in hand, and how far its call got.
CallTypeOK(p) ==
  /\ phase[p] \in {"idle", "called", "read"} \cup Walking
  /\ req[p] \in Call \cup {Failed}
  /\ res[p] \in Response
  /\ {begun[p], at[p]} \subseteq 0 .. now
  /\ attempt[p] \in 0 .. Attempts - 1
  /\ {todo[p], found[p]} \subseteq SUBSET inUse
  /\ phase[p] = "idle" => seen[p] = NoEntry
  /\ phase[p] # "idle" => req[p] \in Call /\ ("key" \in DOMAIN req[p] => req[p].key \in inUse)
  /\ phase[p] \in {"read", "values", "matches", "match"} => seen[p] # NoEntry /\ begun[p] <= at[p]
  /\ phase[p] \in Walking => req[p].op \in {"Find", "DeleteAll"} /\ todo[p] # {}
  /\ found[p] # {} =>
       /\ phase[p] \in {"values", "match"}
       /\ found[p] \subseteq DOMAIN seen[p].entries
       /\ phase[p] = "values" => found[p] \cap todo[p] = {}

\* Every variable has its type (the keys of the server, the locals of the
\* methods), no key outlives its expiry, and what a call has read agrees with how
\* far it got: a script never runs without a snapshot to compare.
TypeOK ==
  /\ inUse \in SUBSET Token
  /\ StoreTypeOK
  /\ \A p \in Proc : CallTypeOK(p) /\ covered[p] \subseteq inUse

\* Every stored token is in the index of its subject, whatever saves, rebindings,
\* prunings of missing members and deletions by snapshot overlap:
\* FindTokenStates and DeleteTokenStates see a token only through the index, and
\* one that is not in it survives a logout or a kick-out.  (The index may hold
\* more: members whose key is gone.)
IndexCovers ==
  \A k \in Stored(tokens) : k \in indexes[tokens[k].state.subject]

\* The entry as the contract counts deadlines: the key may outlive the state.
Logical(entry) ==
  [entry EXCEPT !.expiresAt = Earlier(@, entry.state.expiresAt)]

LogicalMap(map) ==
  [k \in Token |-> IF map[k] = NoEntry THEN NoEntry ELSE Logical(map[k])]

\* The part of a reply that a call by subject is about.
Visible(c, view) ==
  LET K == {k \in DOMAIN view.entries : c.op \in {"Find", "DeleteAll"} =>
              /\ view.entries[k].state.subject = c.subject
              /\ MatchKind(view.entries[k].state.kind, c.kinds)}
  IN  [view EXCEPT !.entries = [k \in K |-> Logical(view.entries[k])]]

\* DeleteTokenStates succeeds only when no token it had to delete is left: it finds
\* them first and deletes them one by one, while others consume them, save them
\* again or rebind them, and a logout rests on what it returns.
SuccessSweeps ==
  [][\A p \in Proc :
       phase[p] # "idle" /\ req[p].op = "DeleteAll" /\ phase'[p] = "idle" /\ ~res'[p].err
         => covered[p] \cap Stored(tokens') = {}]_vars

\* Only where a call stands, not its steps, shows.
Underway == [p \in Proc |-> IF phase[p] = "idle" THEN "idle" ELSE "called"]

\* What a call has observed: what it last read, as far as the call is about it.
Views == [p \in Proc |-> IF seen[p] = NoEntry THEN NoEntry ELSE Visible(req[p], seen[p])]

\* With several tokens in use the contract is shown a store that nobody uses.
Shown(real, still) == IF Several THEN still ELSE real

Contract == INSTANCE AtomicStore
  WITH now    <- Shown(now, 0),
       tokens <- Shown(LogicalMap(tokens), [k \in Token |-> NoEntry]),
       sessions <- Shown(sessions, [s \in Subject |-> NoEntry]),
       phase  <- Shown(Underway, [p \in Proc |-> "idle"]),
       req    <- Shown(req, [p \in Proc |-> Failed]),
       begun  <- Shown(begun, [p \in Proc |-> 0]),
       seen   <- Shown(Views, [p \in Proc |-> NoEntry]),
       res    <- Shown(res, [p \in Proc |-> Done])

\* For calls on one token, and on sessions, the Redis store implements the
\* contract of core/store.go: read, decide, compare and write, tried again and
\* given up, add up to calls that take effect at once or fail without effect.
\* With several tokens in use a call by subject is not atomic: nothing is claimed.
ImplementsContract == Contract!Spec
=============================================================================
