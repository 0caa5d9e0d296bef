-------------------------- MODULE RedisStoreProofs --------------------------
(***************************************************************************)
(* What holds of RedisStore for any number of tokens, clients and attempts:  *)
(* every variable keeps its type, the index lists every stored token, and a  *)
(* deletion by subject that succeeds leaves none of the tokens it had to     *)
(* delete.  While callers use one token, and sessions, it implements the     *)
(* contract of AtomicStore.                                                 *)
(***************************************************************************)
EXTENDS RedisStore, StoreCallsProofs

\* What a call carries, and what a consumption has read.
Known(p) ==
  /\ phase[p] # "idle" =>
       /\ req[p].op \in {"Save", "CAS"} => req[p].state \in State
       /\ req[p].op \in {"Find", "DeleteAll"} => req[p].subject \in Subject
  /\ In(p, {"Consume"}, "read") => req[p].key \in DOMAIN seen[p].entries

\* The keys hold token states; the rest is functions of the right domain.
Shaped ==
  /\ DOMAIN tokens = Token /\ DOMAIN indexes = Subject \cup {ZeroSubject}
  /\ DOMAIN phase = Proc /\ DOMAIN req = Proc /\ DOMAIN begun = Proc
  /\ DOMAIN seen = Proc /\ DOMAIN at = Proc /\ DOMAIN attempt = Proc
  /\ DOMAIN todo = Proc /\ DOMAIN found = Proc /\ DOMAIN res = Proc
  /\ \A k \in Stored(tokens) :
       {"state", "expiresAt"} \subseteq DOMAIN tokens[k] /\ tokens[k].state \in State
  /\ \A p \in Proc : Known(p)

Base == Shaped /\ IndexCovers

-----------------------------------------------------------------------------
\* The client of a command goes on or returns; the others stay where they are.
OthersKept(p) ==
  /\ DOMAIN phase' = Proc /\ DOMAIN req' = Proc /\ DOMAIN begun' = Proc
  /\ DOMAIN seen' = Proc /\ DOMAIN at' = Proc /\ DOMAIN attempt' = Proc
  /\ DOMAIN todo' = Proc /\ DOMAIN found' = Proc /\ DOMAIN res' = Proc
  /\ \A q \in Proc \ {p} :
       /\ phase'[q] = phase[q] /\ req'[q] = req[q] /\ begun'[q] = begun[q]
       /\ seen'[q] = seen[q] /\ at'[q] = at[q] /\ attempt'[q] = attempt[q]
       /\ todo'[q] = todo[q] /\ found'[q] = found[q] /\ res'[q] = res[q]

Locals(p) ==
  /\ seen' = seen \/ \E x : seen' = [seen EXCEPT ![p] = x]
  /\ at' = at \/ \E x : at' = [at EXCEPT ![p] = x]
  /\ attempt' = attempt \/ \E x : attempt' = [attempt EXCEPT ![p] = x]
  /\ todo' = todo \/ \E x : todo' = [todo EXCEPT ![p] = x]
  /\ found' = found \/ \E x : found' = [found EXCEPT ![p] = x]

GoesOn(p) ==
  /\ phase[p] # "idle"
  /\ Locals(p)
  /\ \E next : /\ GoOn(p, next)
               /\ next = "read" /\ req[p].op = "Consume" =>
                    DOMAIN seen' = Proc /\ req[p].key \in DOMAIN seen'[p].entries

Returns(p) == \E r : Return(p, r)

LEMMA ReturnKeepsOthers ==
  ASSUME Shaped, NEW p \in Proc, Returns(p)
  PROVE  OthersKept(p) /\ phase'[p] = "idle"
BY DEF Shaped, Returns, Return, OthersKept

LEMMA GoOnKeepsOthers ==
  ASSUME Shaped, NEW p \in Proc, Locals(p), NEW next, GoOn(p, next)
  PROVE  OthersKept(p) /\ phase'[p] = next /\ req'[p] = req[p]
BY DEF Shaped, Locals, GoOn, OthersKept

\* The walk over the members goes on, or the call is over.
LEMMA WalkMoves ==
  ASSUME Shaped, NEW p \in Proc, NEW k, NEW kept, Walk(p, k, kept), phase[p] # "idle"
  PROVE  GoesOn(p) \/ Returns(p)
BY DEF Walk, GoesOn, Returns, Locals

LEMMA StepMoves ==
  ASSUME Shaped, NEW p \in Proc, TokenStep(p) \/ SessionStep(p) \/ Refuse(p)
  PROVE  GoesOn(p) \/ Returns(p)
<1> USE DEF In
<1>1. CASE ReadToken(p)
  <2>1. CASE Returns(p)
    BY <2>1
  <2>2. CASE ~Returns(p)
    <3>1. /\ phase[p] # "idle"
          /\ Fetch(p, {req[p].key}) /\ GoOn(p, "read") /\ UNCHANGED <<attempt, todo, found>>
          /\ req[p].op = "Consume" => req[p].key \in Stored(tokens)
      BY <1>1, <2>2 DEF ReadToken, Returns
    <3>2. seen' = [seen EXCEPT ![p] = Fetched({req[p].key})] /\ at' = [at EXCEPT ![p] = now]
      BY <3>1 DEF Fetch
    <3>3. seen'[p] = Fetched({req[p].key}) /\ DOMAIN seen' = Proc
      BY <3>2 DEF Shaped
    <3>4. req[p].op = "Consume" => req[p].key \in DOMAIN seen'[p].entries
      BY <3>1, <3>3 DEF Fetched
    <3> QED
      BY <3>1, <3>2, <3>3, <3>4 DEF GoesOn, Locals
  <2> QED
    BY <2>1, <2>2
<1>2. CASE SaveTokenState(p)
  BY <1>2 DEF SaveTokenState, Retry, GoesOn, Returns, Locals
<1>3. CASE ConsumeTokenState(p)
  BY <1>3 DEF ConsumeTokenState, ConsumeScript, Retry, GoesOn, Returns, Locals
<1>4. CASE CompareAndSwapTokenState(p) \/ GetTokenState(p) \/ DeleteTokenState(p) \/ Refuse(p)
  BY <1>4 DEF CompareAndSwapTokenState, GetTokenState, DeleteTokenState, Refuse, Returns
<1>5. CASE FindMembers(p)
  BY <1>5 DEF FindMembers, GoesOn, Returns, Locals
<1>6. CASE FindValues(p)
  BY <1>6 DEF FindValues, Fetch, GoesOn, Locals
<1>7. CASE FindMember(p)
  BY <1>7, WalkMoves DEF FindMember
<1>8. CASE ReadMatch(p)
  BY <1>8 DEF ReadMatch, NextMatch, Fetch, GoesOn, Returns, Locals
<1>9. CASE DeleteMatch(p)
  BY <1>9 DEF DeleteMatch, NextMatch, GoesOn, Returns, Locals
<1>10. CASE SessionStep(p)
  BY <1>10 DEF SessionStep, SaveSession, EnsureSession, WriteSession, GetSession,
               DeleteSessionRead, DeleteSession, GoesOn, Returns, Locals
<1> QED
  BY <1>1, <1>2, <1>3, <1>4, <1>5, <1>6, <1>7, <1>8, <1>9, <1>10 DEF TokenStep

LEMMA StepKnown ==
  ASSUME Shaped, NEW p \in Proc, TokenStep(p) \/ SessionStep(p) \/ Refuse(p)
  PROVE  OthersKept(p) /\ \A q \in Proc : Known(q)'
<1>1. CASE Returns(p)
  BY <1>1, ReturnKeepsOthers DEF OthersKept, Shaped, Known, In
<1>2. CASE GoesOn(p)
  <2>1. PICK next : /\ phase[p] # "idle" /\ Locals(p) /\ GoOn(p, next)
                    /\ next = "read" /\ req[p].op = "Consume" =>
                         req[p].key \in DOMAIN seen'[p].entries
    BY <1>2 DEF GoesOn
  <2>2. OthersKept(p) /\ phase'[p] = next /\ req'[p] = req[p]
    BY <2>1, GoOnKeepsOthers
  <2>3. Known(p)'
    BY <2>1, <2>2 DEF Shaped, Known, In
  <2>4. \A q \in Proc \ {p} : Known(q)'
    BY <2>2 DEF OthersKept, Shaped, Known, In
  <2> QED
    BY <2>2, <2>3, <2>4
<1> QED
  BY <1>1, <1>2, StepMoves

-----------------------------------------------------------------------------
\* What a command does to the keys and the indexes leaves every stored token a
\* state, and listed.
Listed ==
  /\ DOMAIN tokens' = Token /\ DOMAIN indexes' = Subject \cup {ZeroSubject}
  /\ \A k \in Token : tokens'[k] # NoEntry =>
       /\ {"state", "expiresAt"} \subseteq DOMAIN tokens'[k]
       /\ tokens'[k].state \in State
       /\ k \in indexes'[tokens'[k].state.subject]

LEMMA BaseFacts ==
  ASSUME Base
  PROVE  /\ DOMAIN tokens = Token /\ DOMAIN indexes = Subject \cup {ZeroSubject}
         /\ \A k \in Token : tokens[k] # NoEntry =>
              /\ {"state", "expiresAt"} \subseteq DOMAIN tokens[k]
              /\ tokens[k].state \in State
              /\ k \in indexes[tokens[k].state.subject]
BY DEF Base, Shaped, IndexCovers, Stored

\* Deleting keys, whatever happens to the entries of those in the indexes.
LEMMA DropListed ==
  ASSUME Base, NEW K, tokens' = Drop(tokens, K),
         DOMAIN indexes' = Subject \cup {ZeroSubject},
         \A s \in Subject \cup {ZeroSubject} : indexes[s] \ K \subseteq indexes'[s]
  PROVE  Listed
<1>1. \A k \in Token : tokens'[k] # NoEntry => k \notin K /\ tokens'[k] = tokens[k]
  BY DEF Drop
<1>2. \A k \in Token : tokens[k] # NoEntry => tokens[k].state.subject \in Subject \cup {ZeroSubject}
  BY BaseFacts DEF State
<1> QED
  BY <1>1, <1>2, BaseFacts DEF Listed, Drop

LEMMA SnapshotListed ==
  ASSUME Base, NEW p, NEW k, DeleteSnapshot(p, k)
  PROVE  Listed
<1>1. CASE UNCHANGED <<tokens, indexes>>
  BY <1>1, BaseFacts DEF Listed
<1>2. CASE /\ tokens' = Drop(tokens, {k})
           /\ indexes' = [indexes EXCEPT ![Snap(p, k).subject] = @ \ {k}]
  <2> DEFINE own == Snap(p, k).subject
  <2> HIDE DEF own
  <2>1. indexes' = [indexes EXCEPT ![own] = @ \ {k}]
    BY <1>2 DEF own
  <2>2. DOMAIN indexes' = Subject \cup {ZeroSubject}
    BY <2>1, BaseFacts
  <2>3. \A s \in Subject \cup {ZeroSubject} : indexes[s] \ {k} \subseteq indexes'[s]
    BY <2>1, BaseFacts
  <2> QED
    BY <1>2, <2>2, <2>3, DropListed
<1> QED
  BY <1>1, <1>2 DEF DeleteSnapshot

LEMMA SaveListed ==
  ASSUME Base, NEW p \in Proc, NEW t, SaveScript(p, t), req[p].state \in State
  PROVE  Listed
<1> DEFINE k == req[p].key
           row == [state |-> req[p].state, expiresAt |-> KeyDeadline(req[p].state, t, req[p].ttl)]
<1>1. {"state", "expiresAt"} \subseteq DOMAIN row /\ row.state = req[p].state
  OBVIOUS
<1>2. tokens' = [tokens EXCEPT ![k] = row]
  BY DEF SaveScript, Put
<1>3. PICK left \in SUBSET (DOMAIN indexes) : indexes' = [s \in DOMAIN indexes |->
           IF s = req[p].state.subject THEN indexes[s] \cup {k}
           ELSE IF s \in left THEN indexes[s] \ {k} ELSE indexes[s]]
  BY DEF SaveScript
<1> HIDE DEF k, row
<1>4. req[p].state.subject \in Subject \cup {ZeroSubject}
  BY DEF State
<1>5. /\ DOMAIN indexes' = Subject \cup {ZeroSubject}
      /\ k \in indexes'[req[p].state.subject]
      /\ \A s \in Subject \cup {ZeroSubject} : indexes[s] \ {k} \subseteq indexes'[s]
  BY <1>3, <1>4, BaseFacts
<1>6. \A j \in Token : tokens[j] # NoEntry => tokens[j].state.subject \in Subject \cup {ZeroSubject}
  BY BaseFacts DEF State
<1>7. ASSUME NEW j \in Token, tokens'[j] # NoEntry
      PROVE  /\ {"state", "expiresAt"} \subseteq DOMAIN tokens'[j]
             /\ tokens'[j].state \in State
             /\ j \in indexes'[tokens'[j].state.subject]
  <2>1. CASE j = k
    BY <1>1, <1>2, <1>5, <2>1, BaseFacts
  <2>2. CASE j # k
    <3>1. tokens'[j] = tokens[j]
      BY <1>2, <2>2, BaseFacts
    <3> QED
      BY <1>5, <1>6, <1>7, <2>2, <3>1, BaseFacts
  <2> QED
    BY <2>1, <2>2
<1>8. DOMAIN tokens' = Token
  BY <1>2, BaseFacts
<1> QED
  BY <1>5, <1>7, <1>8 DEF Listed

LEMMA ConsumeListed ==
  ASSUME Base, NEW p \in Proc, ConsumeTokenState(p)
  PROVE  Listed
<1> DEFINE k == req[p].key
<1>1. indexes' = indexes /\ k \in DOMAIN seen[p].entries
  BY DEF ConsumeTokenState, Base, Shaped, Known, In
<1>2. CASE UNCHANGED tokens
  BY <1>1, <1>2, BaseFacts DEF Listed
<1>3. CASE ~UNCHANGED tokens
  <2>1. StillThat(p, k) /\ tokens' = Rewrite(tokens, k, MarkConsumed(Snap(p, k)))
    BY <1>3 DEF ConsumeTokenState, ConsumeScript
  <2>2. /\ k \in Token /\ tokens[k] # NoEntry
        /\ tokens' = [tokens EXCEPT ![k] =
                        [tokens[k] EXCEPT !.state = MarkConsumed(tokens[k].state)]]
    BY <1>1, <2>1 DEF StillThat, Stored, Rewrite
  <2>3. /\ MarkConsumed(tokens[k].state) \in State
        /\ MarkConsumed(tokens[k].state).subject = tokens[k].state.subject
    BY <2>2, BaseFacts, ConsumedTyped
  <2> DEFINE state == MarkConsumed(tokens[k].state)
  <2> HIDE DEF k, state
  <2>4. tokens' = [tokens EXCEPT ![k] = [tokens[k] EXCEPT !.state = state]]
    BY <2>2 DEF state
  <2>5. state \in State /\ state.subject = tokens[k].state.subject
    BY <2>3 DEF state
  <2> QED
    BY <1>1, <2>2, <2>4, <2>5, BaseFacts DEF Listed
<1> QED
  BY <1>2, <1>3

LEMMA PruneListed ==
  ASSUME Base, NEW p \in Proc, NEW k, Prune(p, k), UNCHANGED tokens
  PROVE  Listed
<1> DEFINE own == req[p].subject
<1> HIDE DEF own
<1>1. \/ indexes' = indexes
      \/ k \notin Stored(tokens) /\ indexes' = [indexes EXCEPT ![own] = @ \ {k}]
  BY DEF Prune, own
<1>2. \A j \in Token : tokens[j] # NoEntry => tokens[j].state.subject \in Subject \cup {ZeroSubject}
  BY BaseFacts DEF State
<1> QED
  BY <1>1, <1>2, BaseFacts DEF Listed, Stored

LEMMA StepListed ==
  ASSUME Base, NEW p \in Proc, TokenStep(p) \/ SessionStep(p) \/ Refuse(p)
  PROVE  Listed
<1>1. CASE UNCHANGED <<tokens, indexes>>
  BY <1>1, BaseFacts DEF Listed
<1>2. CASE SaveTokenState(p) \/ CompareAndSwapTokenState(p)
  <2>1. phase[p] # "idle" /\ req[p].op \in {"Save", "CAS"}
    BY <1>2 DEF SaveTokenState, CompareAndSwapTokenState, In
  <2>2. req[p].state \in State
    BY <2>1 DEF Base, Shaped, Known
  <2>3. UNCHANGED <<tokens, indexes>> \/ \E t : SaveScript(p, t)
    BY <1>2 DEF SaveTokenState, CompareAndSwapTokenState
  <2> QED
    BY <1>1, <2>2, <2>3, SaveListed
<1>3. CASE GetTokenState(p) \/ DeleteTokenState(p) \/ DeleteMatch(p)
  <2>1. UNCHANGED <<tokens, indexes>> \/ \E k : DeleteSnapshot(p, k)
    BY <1>3 DEF GetTokenState, DeleteTokenState, DeleteMatch
  <2> QED
    BY <1>1, <2>1, SnapshotListed
<1>4. CASE ConsumeTokenState(p)
  BY <1>4, ConsumeListed
<1>5. CASE FindMember(p)
  <2>1. PICK k : \/ UNCHANGED <<tokens, indexes>>
                 \/ DeleteSnapshot(p, k)
                 \/ Prune(p, k) /\ UNCHANGED tokens
    BY <1>5 DEF FindMember
  <2> QED
    BY <1>1, <2>1, SnapshotListed, PruneListed
<1>6. CASE ReadToken(p) \/ FindMembers(p) \/ FindValues(p) \/ ReadMatch(p) \/ SessionStep(p)
             \/ Refuse(p)
  <2>1. UNCHANGED <<tokens, indexes>>
    BY <1>6 DEF ReadToken, FindMembers, FindValues, ReadMatch, SessionStep, Refuse, Unchanged,
                SaveSession, EnsureSession, WriteSession, GetSession, DeleteSessionRead,
                DeleteSession
  <2> QED
    BY <1>1, <2>1
<1> QED
  BY <1>2, <1>3, <1>4, <1>5, <1>6 DEF TokenStep

-----------------------------------------------------------------------------
LEMMA InitBase == Init => Base
BY DEF Init, Base, Shaped, Known, In, IndexCovers, Stored

LEMMA BeginBase ==
  ASSUME Base, NEW p \in Proc, Begin(p)
  PROVE  Base'
<1>1. PICK c \in NextCalls(res[p]) :
        /\ req' = [req EXCEPT ![p] = c]
        /\ phase' = [phase EXCEPT ![p] = "called"]
        /\ begun' = [begun EXCEPT ![p] = now]
        /\ UNCHANGED <<tokens, indexes, seen, at, attempt, todo, found, res>>
  BY DEF Begin
<1>2. /\ c.op \in {"Save", "CAS"} => c.state \in State
      /\ c.op \in {"Find", "DeleteAll"} => c.subject \in Subject
  <2>1. SaveInputs \subseteq State
    BY StoreAssumption
  <2> QED
    BY <2>1 DEF NextCalls, SessionCall
<1>3. /\ phase'[p] = "called" /\ req'[p] = c
      /\ DOMAIN phase' = Proc /\ DOMAIN req' = Proc /\ DOMAIN begun' = Proc
      /\ \A q \in Proc \ {p} : phase'[q] = phase[q] /\ req'[q] = req[q]
  BY <1>1 DEF Base, Shaped
<1> QED
  BY <1>1, <1>2, <1>3 DEF Base, Shaped, Known, In, IndexCovers, Stored

LEMMA NextBase == Base /\ [Next]_vars => Base'
<1> SUFFICES ASSUME Base, [Next]_vars
             PROVE  Base'
  OBVIOUS
<1>1. CASE UNCHANGED vars
  BY <1>1 DEF vars, Base, Shaped, Known, In, IndexCovers, Stored
<1>2. CASE Tick
  <2>1. /\ UNCHANGED <<indexes, phase, req, begun, seen, at, attempt, todo, found, res>>
        /\ \E K : tokens' = Drop(tokens, K)
    BY <1>2 DEF Tick
  <2>2. Listed
    BY <2>1, DropListed DEF Base, Shaped
  <2> QED
    BY <2>1, <2>2 DEF Listed, Base, Shaped, Known, In, IndexCovers, Stored
<1>3. ASSUME NEW p \in Proc, TokenStep(p) \/ SessionStep(p) \/ Refuse(p)
      PROVE  Base'
  <2>1. OthersKept(p) /\ \A q \in Proc : Known(q)'
    BY <1>3, StepKnown DEF Base
  <2>2. Listed
    BY <1>3, StepListed
  <2> QED
    BY <2>1, <2>2 DEF OthersKept, Listed, Base, Shaped, IndexCovers, Stored
<1> QED
  BY <1>1, <1>2, <1>3, BeginBase DEF Next

\* For any number of clients and tokens: a stored token is in the index of its
\* subject.  saveScript adds what it writes, and what removes a member (deleteScript,
\* pruneIndexScript, a save under another subject) deletes or rebinds its key in the
\* same script, or found it gone.
THEOREM IndexComplete == Spec => []IndexCovers
<1>1. Base => IndexCovers
  BY DEF Base
<1> QED
  BY <1>1, InitBase, NextBase, PTL DEF Spec

-----------------------------------------------------------------------------
\* What a deletion by subject has to delete is still before it, and is what it read
\* or that marked consumed.
StillOf(p, k) == tokens[k].state \in {Snap(p, k), MarkConsumed(Snap(p, k))}

Ahead(p) ==
  phase[p] # "idle" /\ req[p].op = "DeleteAll" =>
    /\ covered[p] \subseteq OfSubject(tokens, req[p].subject, req[p].kinds)
    /\ phase[p] # "called" => covered[p] \subseteq Live(tokens, now)
    /\ phase[p] \in {"members", "matches", "match"} => covered[p] \subseteq todo[p]
    /\ phase[p] = "values" =>
         /\ covered[p] \subseteq todo[p] \cup found[p]
         /\ \A k \in covered[p] :
              /\ k \in DOMAIN seen[p].entries
              /\ Snap(p, k) \in State
              /\ StillOf(p, k)

Inv == Base /\ \A p \in Proc : Ahead(p)

\* Consuming a state twice is consuming it once (MarkConsumed).
LEMMA ConsumedOnceMore ==
  ASSUME NEW s \in State
  PROVE  /\ MarkConsumed(MarkConsumed(s)) = MarkConsumed(s)
         /\ MarkConsumed(s).expiresAt = s.expiresAt
         /\ MarkConsumed(s).subject = s.subject
         /\ MarkConsumed(s).kind = s.kind
BY DEF MarkConsumed, State

\* A token that Track keeps was kept before, and is the same or consumed since.
Stays(p) ==
  \A k \in covered'[p] :
    /\ k \in covered[p] /\ k \in Live(tokens', now')
    /\ tokens'[k].state \in {tokens[k].state, MarkConsumed(tokens[k].state)}

LEMMA TrackKeeps ==
  ASSUME NEW p \in Proc, Track, phase[p] # "idle"
  PROVE  /\ Stays(p)
         /\ phase'[p] = "idle" => covered'[p] = {}
BY DEF Track, Stays

LEMMA StaysOfSubject ==
  ASSUME Base, NEW p \in Proc, Stays(p), NEW subject, NEW kinds,
         covered[p] \subseteq OfSubject(tokens, subject, kinds)
  PROVE  /\ covered'[p] \subseteq OfSubject(tokens', subject, kinds)
         /\ covered'[p] \subseteq Live(tokens', now')
         /\ covered'[p] \subseteq covered[p]
<1>1. ASSUME NEW k \in covered'[p]
      PROVE  k \in OfSubject(tokens', subject, kinds)
  <2>1. /\ tokens[k].state \in State
        /\ tokens[k].state.subject = subject
        /\ MatchKind(tokens[k].state.kind, kinds)
    BY <1>1 DEF Stays, OfSubject, Base, Shaped
  <2>2. k \in Stored(tokens')
    BY <1>1 DEF Stays, Live
  <2>3. tokens'[k].state \in {tokens[k].state, MarkConsumed(tokens[k].state)}
    BY <1>1 DEF Stays
  <2>4. tokens'[k].state.subject = subject /\ tokens'[k].state.kind = tokens[k].state.kind
    BY <2>1, <2>3, ConsumedOnceMore
  <2> QED
    BY <2>1, <2>2, <2>4 DEF OfSubject
<1> QED
  BY <1>1 DEF Stays

\* Whoever takes a step, the deletions of the others keep what is ahead of them.
LEMMA OtherAhead ==
  ASSUME Inv, NEW q \in Proc, Track,
         phase'[q] = phase[q], req'[q] = req[q], seen'[q] = seen[q],
         todo'[q] = todo[q], found'[q] = found[q]
  PROVE  Ahead(q)'
<1> SUFFICES ASSUME phase[q] # "idle", req[q].op = "DeleteAll"
             PROVE  Ahead(q)'
  BY DEF Ahead
<1>1. Ahead(q) /\ Stays(q)
  BY TrackKeeps DEF Inv
<1>2. /\ covered'[q] \subseteq OfSubject(tokens', req[q].subject, req[q].kinds)
      /\ covered'[q] \subseteq Live(tokens', now')
      /\ covered'[q] \subseteq covered[q]
  BY <1>1, StaysOfSubject DEF Inv, Ahead
<1>3. ASSUME phase[q] = "values", NEW k \in covered'[q]
      PROVE  Snap(q, k) \in State /\ k \in DOMAIN seen[q].entries
             /\ tokens'[k].state \in {Snap(q, k), MarkConsumed(Snap(q, k))}
  <2>1. k \in covered[q] /\ tokens'[k].state \in {tokens[k].state, MarkConsumed(tokens[k].state)}
    BY <1>1, <1>3 DEF Stays
  <2>2. Snap(q, k) \in State /\ k \in DOMAIN seen[q].entries
        /\ tokens[k].state \in {Snap(q, k), MarkConsumed(Snap(q, k))}
    BY <1>1, <1>3, <2>1 DEF Ahead, StillOf
  <2> QED
    BY <2>1, <2>2, ConsumedOnceMore
<1>4. \A k : Snap(q, k)' = Snap(q, k)
  BY DEF Snap
<1> QED
  BY <1>1, <1>2, <1>3, <1>4 DEF Ahead, StillOf

-----------------------------------------------------------------------------
\* A step of the deletion itself: it goes on with everything ahead, returns with
\* nothing left, or returns an error.
Leaves(p) == covered[p] \cap Stored(tokens') = {}

StaysAhead(p) == phase'[p] # "idle" /\ Ahead(p)'

Ends(p) == \E r : Return(p, r) /\ (r = Refused \/ Leaves(p))

LEMMA MembersAhead ==
  ASSUME Inv, NEW p \in Proc, Track, req[p].op = "DeleteAll", FindMembers(p)
  PROVE  Ends(p) \/ StaysAhead(p)
<1>1. phase[p] = "called" /\ req[p].subject \in Subject
  BY DEF FindMembers, In, Inv, Base, Shaped, Known
<1>2. covered[p] \subseteq OfSubject(tokens, req[p].subject, req[p].kinds)
  BY <1>1 DEF Inv, Ahead
<1>3. covered[p] \subseteq indexes[req[p].subject]
  BY <1>2 DEF Inv, Base, IndexCovers, OfSubject
<1>4. CASE indexes[req[p].subject] = {}
  BY <1>3, <1>4 DEF FindMembers, Ends, Leaves
<1>5. CASE indexes[req[p].subject] # {}
  <2>1. /\ phase'[p] = "members" /\ req'[p] = req[p] /\ todo'[p] = indexes[req[p].subject]
    BY <1>5 DEF FindMembers, GoOn, Inv, Base, Shaped
  <2>2. Stays(p)
    BY <1>1, TrackKeeps
  <2> QED
    BY <1>2, <1>3, <2>1, <2>2, StaysOfSubject DEF StaysAhead, Ahead, Inv
<1> QED
  BY <1>4, <1>5

LEMMA ValuesAhead ==
  ASSUME Inv, NEW p \in Proc, Track, req[p].op = "DeleteAll", FindValues(p)
  PROVE  StaysAhead(p)
<1>1. phase[p] = "members" /\ UNCHANGED tokens
  BY DEF FindValues, In, Unchanged
<1>2. /\ covered[p] \subseteq OfSubject(tokens, req[p].subject, req[p].kinds)
      /\ covered[p] \subseteq todo[p]
  BY <1>1 DEF Inv, Ahead
<1>3. /\ phase'[p] = "values" /\ req'[p] = req[p] /\ todo'[p] = todo[p]
      /\ seen'[p] = Fetched(todo[p])
  BY DEF FindValues, Fetch, GoOn, Inv, Base, Shaped
<1>4. Stays(p)
  BY <1>1, TrackKeeps
<1>5. /\ covered'[p] \subseteq OfSubject(tokens', req[p].subject, req[p].kinds)
      /\ covered'[p] \subseteq Live(tokens', now')
      /\ covered'[p] \subseteq todo[p]
  BY <1>2, <1>4, StaysOfSubject DEF Inv
<1>6. ASSUME NEW k \in covered'[p]
      PROVE  /\ k \in DOMAIN seen'[p].entries
             /\ seen'[p].entries[k].state = tokens[k].state
             /\ tokens[k].state \in State
  <2>1. k \in todo[p] /\ k \in Stored(tokens)
    BY <1>1, <1>5, <1>6 DEF Live
  <2> QED
    BY <1>3, <2>1 DEF Fetched, Inv, Base, Shaped
<1> QED
  BY <1>1, <1>3, <1>5, <1>6 DEF StaysAhead, Ahead, StillOf, Snap

\* Past the member k, when it was none of those to delete or is kept.
LEMMA WalkAhead ==
  ASSUME Inv, NEW p \in Proc, Track, req[p].op = "DeleteAll", phase[p] = "values",
         NEW k, NEW kept, Walk(p, k, kept), k \in kept \/ k \notin covered[p]
  PROVE  Ends(p) \/ StaysAhead(p)
<1> DEFINE all == found[p] \cup kept
<1>1. /\ covered[p] \subseteq OfSubject(tokens, req[p].subject, req[p].kinds)
      /\ covered[p] \subseteq todo[p] \cup found[p]
      /\ \A j \in covered[p] : /\ j \in DOMAIN seen[p].entries
                               /\ Snap(p, j) \in State /\ StillOf(p, j)
  BY DEF Inv, Ahead
<1>2. Stays(p)
  BY TrackKeeps
<1>3. /\ covered'[p] \subseteq OfSubject(tokens', req[p].subject, req[p].kinds)
      /\ covered'[p] \subseteq Live(tokens', now')
      /\ covered'[p] \subseteq covered[p]
  BY <1>1, <1>2, StaysOfSubject DEF Inv
<1>4. CASE todo[p] \ {k} # {}
  <2>1. /\ phase'[p] = "values" /\ req'[p] = req[p] /\ seen'[p] = seen[p]
        /\ todo'[p] = todo[p] \ {k} /\ found'[p] = all
    BY <1>4 DEF Walk, GoOn, Inv, Base, Shaped
  <2>2. covered'[p] \subseteq todo'[p] \cup found'[p]
    BY <1>1, <1>3, <2>1
  <2>3. ASSUME NEW j \in covered'[p]
        PROVE  /\ j \in DOMAIN seen[p].entries /\ Snap(p, j) \in State
               /\ tokens'[j].state \in {Snap(p, j), MarkConsumed(Snap(p, j))}
    BY <1>1, <1>2, <2>3, ConsumedOnceMore DEF Stays, StillOf
  <2>4. \A j : Snap(p, j)' = Snap(p, j)
    BY <2>1 DEF Snap
  <2> QED
    BY <1>3, <2>1, <2>2, <2>3, <2>4 DEF StaysAhead, Ahead, StillOf
<1>5. CASE todo[p] \ {k} = {}
  <2>1. covered[p] \subseteq Matching(p, all)
    <3>1. covered[p] \subseteq all
      BY <1>1, <1>5
    <3>2. ASSUME NEW j \in covered[p]
          PROVE  Snap(p, j).subject = req[p].subject /\ MatchKind(Snap(p, j).kind, req[p].kinds)
      BY <1>1, <3>2, ConsumedOnceMore DEF StillOf, OfSubject
    <3> QED
      BY <3>1, <3>2 DEF Matching
  <2>2. CASE Matching(p, all) = {}
    BY <1>5, <2>1, <2>2 DEF Walk, Ends, Leaves
  <2>3. CASE Matching(p, all) # {}
    <3>1. /\ phase'[p] = "matches" /\ req'[p] = req[p] /\ todo'[p] = Matching(p, all)
      BY <1>5, <2>3 DEF Walk, GoOn, Inv, Base, Shaped
    <3> QED
      BY <1>3, <2>1, <3>1 DEF StaysAhead, Ahead
  <2> QED
    BY <2>2, <2>3
<1> QED
  BY <1>4, <1>5

LEMMA MemberAhead ==
  ASSUME Inv, NEW p \in Proc, Track, req[p].op = "DeleteAll", FindMember(p)
  PROVE  Ends(p) \/ StaysAhead(p)
<1>1. phase[p] = "values"
  BY DEF FindMember, In
<1>2. /\ covered[p] \subseteq Live(tokens, now)
      /\ \A j \in covered[p] : /\ j \in DOMAIN seen[p].entries
                               /\ Snap(p, j) \in State /\ StillOf(p, j)
  BY <1>1 DEF Inv, Ahead
<1>3. ASSUME NEW j \in covered[p]
      PROVE  ~IsExpired(Snap(p, j), now)
  <2>1. ~IsExpired(tokens[j].state, now)
    BY <1>2, <1>3 DEF Live, EntryExpired
  <2> QED
    BY <1>2, <2>1, ConsumedOnceMore DEF StillOf, IsExpired
<1>4. PICK k : \/ k \notin DOMAIN seen[p].entries /\ Walk(p, k, {})
               \/ IsExpired(Snap(p, k), now) /\ Walk(p, k, {})
               \/ Walk(p, k, {k})
  BY DEF FindMember
<1> QED
  BY <1>1, <1>2, <1>3, <1>4, WalkAhead

\* Past the match k, when it is gone or was none of those to delete.
LEMMA NextMatchAhead ==
  ASSUME Inv, NEW p \in Proc, Track, req[p].op = "DeleteAll",
         phase[p] \in {"matches", "match"},
         NEW k, NextMatch(p, k), k \notin covered[p] \cap Stored(tokens')
  PROVE  Ends(p) \/ StaysAhead(p)
<1>1. /\ covered[p] \subseteq OfSubject(tokens, req[p].subject, req[p].kinds)
      /\ covered[p] \subseteq todo[p]
  BY DEF Inv, Ahead
<1>2. Stays(p)
  BY TrackKeeps
<1>3. /\ covered'[p] \subseteq OfSubject(tokens', req[p].subject, req[p].kinds)
      /\ covered'[p] \subseteq Live(tokens', now')
      /\ covered'[p] \subseteq todo[p] \ {k}
  BY <1>1, <1>2, StaysOfSubject DEF Inv, Live
<1>4. CASE todo[p] = {k}
  BY <1>1, <1>4 DEF NextMatch, Ends, Leaves
<1>5. CASE todo[p] # {k}
  <2>1. phase'[p] = "matches" /\ req'[p] = req[p] /\ todo'[p] = todo[p] \ {k}
    BY <1>5 DEF NextMatch, GoOn, Inv, Base, Shaped
  <2> QED
    BY <1>3, <2>1 DEF StaysAhead, Ahead
<1> QED
  BY <1>4, <1>5

LEMMA MatchAhead ==
  ASSUME Inv, NEW p \in Proc, Track, req[p].op = "DeleteAll", ReadMatch(p) \/ DeleteMatch(p)
  PROVE  Ends(p) \/ StaysAhead(p)
<1>1. CASE ReadMatch(p)
  <2>1. phase[p] = "matches" /\ UNCHANGED tokens
    BY <1>1 DEF ReadMatch, In, Unchanged
  <2>2. PICK k \in todo[p] :
          IF k \in OfSubject(tokens, req[p].subject, req[p].kinds)
            THEN GoOn(p, "match") /\ UNCHANGED todo
            ELSE NextMatch(p, k)
    BY <1>1 DEF ReadMatch
  <2>3. /\ covered[p] \subseteq OfSubject(tokens, req[p].subject, req[p].kinds)
        /\ covered[p] \subseteq todo[p]
    BY <2>1 DEF Inv, Ahead
  <2>4. CASE k \in OfSubject(tokens, req[p].subject, req[p].kinds)
    <3>1. phase'[p] = "match" /\ req'[p] = req[p] /\ todo'[p] = todo[p]
      BY <2>2, <2>4 DEF GoOn, Inv, Base, Shaped
    <3>2. Stays(p)
      BY <2>1, TrackKeeps
    <3> QED
      BY <2>3, <3>1, <3>2, StaysOfSubject DEF StaysAhead, Ahead, Inv
  <2>5. CASE k \notin OfSubject(tokens, req[p].subject, req[p].kinds)
    BY <2>1, <2>2, <2>3, <2>5, NextMatchAhead
  <2> QED
    BY <2>4, <2>5
<1>2. CASE DeleteMatch(p)
  <2>1. phase[p] = "match"
    BY <1>2 DEF DeleteMatch, In
  <2>2. PICK k \in found[p] : /\ DeleteSnapshot(p, k)
                              /\ IF StillThat(p, k) THEN NextMatch(p, k) ELSE Return(p, Refused)
    BY <1>2 DEF DeleteMatch
  <2>3. CASE StillThat(p, k)
    <3>1. k \notin Stored(tokens')
      BY <2>2, <2>3 DEF DeleteSnapshot, Drop, Stored
    <3> QED
      BY <2>1, <2>2, <2>3, <3>1, NextMatchAhead
  <2>4. CASE ~StillThat(p, k)
    BY <2>2, <2>4 DEF Ends
  <2> QED
    BY <2>3, <2>4
<1> QED
  BY <1>1, <1>2

\* Of all the steps these are the deletion's.
LEMMA OwnAhead ==
  ASSUME Inv, NEW p \in Proc, Track, req[p].op = "DeleteAll",
         TokenStep(p) \/ SessionStep(p) \/ Refuse(p)
  PROVE  Ends(p) \/ StaysAhead(p)
<1>1. CASE Refuse(p)
  BY <1>1 DEF Refuse, Ends
<1>2. \/ Refuse(p) \/ FindMembers(p) \/ FindValues(p) \/ FindMember(p)
      \/ ReadMatch(p) \/ DeleteMatch(p)
  BY DEF TokenStep, SessionStep, In, ReadToken, SaveTokenState, CompareAndSwapTokenState,
         GetTokenState, ConsumeTokenState, DeleteTokenState, SaveSession, EnsureSession,
         GetSession, DeleteSessionRead, DeleteSession
<1> QED
  BY <1>1, <1>2, MembersAhead, ValuesAhead, MemberAhead, MatchAhead

-----------------------------------------------------------------------------
LEMMA InitInv == Init => Inv
BY InitBase DEF Init, Inv, Ahead

\* A deletion begins with all the tokens of its subject ahead.
LEMMA BeginAhead ==
  ASSUME Inv, NEW p \in Proc, Begin(p), Track
  PROVE  \A q \in Proc : Ahead(q)'
<1>1. PICK c : /\ phase[p] = "idle"
               /\ req' = [req EXCEPT ![p] = c]
               /\ phase' = [phase EXCEPT ![p] = "called"]
               /\ UNCHANGED <<now, tokens, seen, todo, found>>
  BY DEF Begin
<1>2. ASSUME NEW q \in Proc \ {p}
      PROVE  Ahead(q)'
  BY <1>1, <1>2, OtherAhead DEF Inv, Base, Shaped
<1>3. Ahead(p)'
  <2>1. phase'[p] = "called" /\ tokens' = tokens
    BY <1>1 DEF Inv, Base, Shaped
  <2>2. req'[p].op = "DeleteAll" =>
          covered'[p] = OfSubject(tokens, req'[p].subject, req'[p].kinds)
    BY <1>1, <2>1 DEF Track
  <2> QED
    BY <2>1, <2>2 DEF Ahead
<1> QED
  BY <1>2, <1>3

LEMMA StepAhead ==
  ASSUME Inv, NEW p \in Proc, TokenStep(p) \/ SessionStep(p) \/ Refuse(p), Track
  PROVE  \A q \in Proc : Ahead(q)'
<1>1. OthersKept(p)
  BY StepKnown DEF Inv, Base
<1>2. ASSUME NEW q \in Proc \ {p}
      PROVE  Ahead(q)'
  BY <1>1, <1>2, OtherAhead DEF OthersKept
<1>3. CASE req[p].op = "DeleteAll"
  <2>1. Ends(p) => phase'[p] = "idle"
    BY ReturnKeepsOthers DEF Ends, Returns, Inv, Base
  <2> QED
    BY <1>2, <1>3, <2>1, OwnAhead DEF StaysAhead, Ahead
<1>4. CASE req[p].op # "DeleteAll"
  <2>1. phase'[p] = "idle" \/ req'[p] = req[p]
    BY StepMoves, ReturnKeepsOthers, GoOnKeepsOthers DEF GoesOn, Inv, Base
  <2> QED
    BY <1>2, <1>4, <2>1 DEF Ahead
<1> QED
  BY <1>3, <1>4

LEMMA NextInv == Inv /\ [Next]_vars => Inv'
<1> SUFFICES ASSUME Inv, [Next]_vars
             PROVE  \A q \in Proc : Ahead(q)'
  BY NextBase DEF Inv
<1>1. CASE UNCHANGED vars
  BY <1>1 DEF vars, Inv, Ahead, StillOf, Snap
<1>2. CASE Tick /\ Track
  BY <1>2, OtherAhead DEF Tick
<1> QED
  BY <1>1, <1>2, BeginAhead, StepAhead DEF Next

\* For any number of clients and tokens: a DeleteTokenStates that reports success
\* leaves none of the tokens it found its subject with, unless they were saved again
\* or expired meanwhile: each is in the index, then among the members, then among the
\* matches, until it is deleted, and one that changed under it ends the call with an
\* error.
THEOREM SweepComplete == Spec => SuccessSweeps
<1>1. ASSUME Inv, [Next]_vars
      PROVE  [\A p \in Proc :
                phase[p] # "idle" /\ req[p].op = "DeleteAll" /\ phase'[p] = "idle" /\ ~res'[p].err
                  => covered[p] \cap Stored(tokens') = {}]_vars
  <2> SUFFICES ASSUME Next, NEW p \in Proc, phase[p] # "idle", req[p].op = "DeleteAll",
                      phase'[p] = "idle", ~res'[p].err
               PROVE  Leaves(p)
    BY <1>1 DEF Leaves
  <2>1. Track
    BY DEF Next
  <2>2. TokenStep(p) \/ SessionStep(p) \/ Refuse(p)
    <3>1. CASE Tick
      BY <3>1 DEF Tick
    <3>2. ASSUME NEW q \in Proc \ {p}, Begin(q)
          PROVE  FALSE
      BY <1>1, <3>2 DEF Begin, Inv, Base, Shaped
    <3>3. ASSUME NEW q \in Proc \ {p}, TokenStep(q) \/ SessionStep(q) \/ Refuse(q)
          PROVE  FALSE
      BY <1>1, <3>3, StepKnown DEF OthersKept, Inv, Base
    <3>4. ~Begin(p)
      BY DEF Begin
    <3> QED
      BY <3>1, <3>2, <3>3, <3>4 DEF Next
  <2>3. PICK r : Return(p, r) /\ (r = Refused \/ Leaves(p))
    BY <1>1, <2>1, <2>2, OwnAhead DEF Ends, StaysAhead
  <2>4. CASE r = Refused
    BY <1>1, <2>3, <2>4 DEF Return, Refused, Failed, Done, Inv, Base, Shaped
  <2> QED
    BY <2>3, <2>4
<1> QED
  BY <1>1, InitInv, NextInv, PTL DEF Spec, SuccessSweeps
-----------------------------------------------------------------------------
(* Types.  A step changes the keys and what its own client has in hand: each is *)
(* shown typed on its own.                                                     *)

\* What a call has kept of its reads.
Kept(p) ==
  /\ seen[p] \in StoreView \cup {NoEntry}
  /\ In(p, KeyOps, "read") =>
       /\ DOMAIN seen[p].entries \subseteq {req[p].key}
       /\ req[p].op # "Save" => req[p].key \in DOMAIN seen[p].entries
       /\ \A k \in DOMAIN seen[p].entries : ~Passed(seen[p].entries[k].expiresAt, at[p])
       /\ req[p].op \in {"Save", "CAS"} => Acceptable(req[p].state)
       /\ req[p].op = "CAS" => Snap(p, req[p].key) = req[p].expected
  /\ phase[p] = "values" => DOMAIN seen[p].entries \subseteq inUse
  /\ phase[p] = "match" => \A k \in found[p] :
       Snap(p, k).subject = req[p].subject /\ MatchKind(Snap(p, k).kind, req[p].kinds)

Fits(p) == CallTypeOK(p) /\ Kept(p)

Typed == Shaped /\ TypeOK /\ \A p \in Proc : Kept(p)

LEMMA Instants ==
  ASSUME StoreTypeOK
  PROVE  /\ now \in Nat
         /\ \A p \in Proc : CallTypeOK(p) => begun[p] \in 0 .. now /\ at[p] \in 0 .. now
BY StoreAssumption DEF StoreTypeOK, CallTypeOK

\* What an MGET returns.
LEMMA FetchedTyped ==
  ASSUME StoreTypeOK, NEW K
  PROVE  /\ Fetched(K) \in StoreView \ {NoEntry}
         /\ DOMAIN Fetched(K).entries = K \cap Stored(tokens)
         /\ \A k \in K \cap Stored(tokens) : Fetched(K).entries[k] = tokens[k]
<1> DEFINE E == K \cap Stored(tokens)
<1>1. E \in SUBSET Token /\ \A k \in E : tokens[k] \in Entry
  BY DEF Stored, StoreTypeOK
<1>2. [k \in E |-> tokens[k]] \in [E -> Entry]
  BY <1>1
<1>3. Fetched(K) = [entries |-> [k \in E |-> tokens[k]], session |-> NoEntry]
  BY DEF Fetched
<1> HIDE DEF E
<1>4. Fetched(K) \in StoreView
  BY <1>1, <1>2, <1>3 DEF StoreView
<1> QED
  BY <1>3, <1>4, StoreAssumption DEF E

\* What was read of a token is an entry.
LEMMA SeenTyped ==
  ASSUME NEW view \in StoreView, NEW k \in DOMAIN view.entries
  PROVE  k \in Token /\ view.entries[k] \in Entry
<1>1. PICK K \in SUBSET Token : view.entries \in [K -> Entry]
  BY DEF StoreView
<1> QED
  BY <1>1

LEMMA Responses ==
  /\ Done \in Response /\ Failed \in Response /\ Refused \in Response
  /\ \A d \in Data : [Done EXCEPT !.data = d] \in Response
  /\ \A view \in StoreView : \A K \in SUBSET DOMAIN view.entries :
       Reported(K, view.entries) \in Response
<1>1. /\ Done \in Response /\ Failed \in Response /\ Refused \in Response
      /\ \A d \in Data : [Done EXCEPT !.data = d] \in Response
  BY DEF Done, Failed, Refused, Response
<1>2. ASSUME NEW view \in StoreView, NEW K \in SUBSET DOMAIN view.entries
      PROVE  Reported(K, view.entries) \in Response
  <2>1. \A k \in K : k \in Token /\ view.entries[k].state \in State
    BY SeenTyped DEF Entry
  <2>2. {[key |-> k, state |-> view.entries[k].state] : k \in K} \subseteq Snapshot
    BY <2>1 DEF Snapshot
  <2> QED
    BY <1>1, <2>2 DEF Reported, Done, Response
<1> QED
  BY <1>1, <1>2

\* A call that returns leaves nothing in hand.
LEMMA ReturnFits ==
  ASSUME Shaped, StoreTypeOK, NEW p \in Proc, NEW r \in Response, Return(p, r)
  PROVE  Fits(p)'
<1>1. /\ phase'[p] = "idle" /\ req'[p] = Failed /\ begun'[p] = 0 /\ at'[p] = 0
      /\ seen'[p] = NoEntry /\ attempt'[p] = 0 /\ todo'[p] = {} /\ found'[p] = {}
      /\ now' = now
  BY DEF Shaped, Return
<1>2. res'[p] \in Response
  BY DEF Shaped, Return, Response
<1>3. 0 \in 0 .. now /\ 0 \in 0 .. Attempts - 1
  BY Instants, RedisAssumption
<1> QED
  BY <1>1, <1>2, <1>3 DEF Fits, CallTypeOK, Kept, In, Walking

\* A call that goes on keeps its arguments.
LEMMA GoOnKeeps ==
  ASSUME Shaped, NEW p \in Proc, NEW next, GoOn(p, next)
  PROVE  /\ phase'[p] = next /\ req'[p] = req[p] /\ begun'[p] = begun[p] /\ res'[p] = res[p]
         /\ now' = now
         /\ UNCHANGED seen => seen'[p] = seen[p]
         /\ \A x : seen' = [seen EXCEPT ![p] = x] => seen'[p] = x
         /\ \A x : at' = [at EXCEPT ![p] = x] => at'[p] = x
         /\ \A x : attempt' = [attempt EXCEPT ![p] = x] => attempt'[p] = x
         /\ \A x : todo' = [todo EXCEPT ![p] = x] => todo'[p] = x
         /\ \A x : found' = [found EXCEPT ![p] = x] => found'[p] = x
BY DEF Shaped, GoOn
-----------------------------------------------------------------------------
\* The keys and the indexes.

\* An expiry lies ahead of the script that sets it (redisTTL).
LEMMA KeyDeadlineTyped ==
  ASSUME now \in Nat, NEW s \in State, NEW t \in 0 .. now, NEW ttl \in Nat
  PROVE  KeyDeadline(s, t, ttl) \in Deadline /\ ~Passed(KeyDeadline(s, t, ttl), now)
<1> DEFINE d == EffectiveExpiresAt(s, t, ttl)
<1>1. d \in Deadline
  BY DeadlineTyped
<1>2. KeyDeadline(s, t, ttl)
        = IF d = Never THEN Never ELSE IF d > t THEN now + (d - t) ELSE now + 1
  BY DEF KeyDeadline
<1> HIDE DEF d
<1> QED
  BY <1>1, <1>2 DEF Deadline, Never, Passed

LEMMA SavedStore ==
  ASSUME Typed, NEW p \in Proc, In(p, {"Save", "CAS"}, "read"), NEW t \in at[p] .. now,
         SaveScript(p, t), UNCHANGED <<now, inUse, sessions>>
  PROVE  StoreTypeOK'
<1> DEFINE k == req[p].key
           d == KeyDeadline(req[p].state, t, req[p].ttl)
<1>1. req[p] \in Call /\ k \in Token /\ req[p].state \in State /\ req[p].ttl \in Nat
  BY FieldsTyped DEF Typed, TypeOK, CallTypeOK, In
<1>2. k \in inUse
  BY <1>1, FieldsTyped DEF Typed, TypeOK, CallTypeOK, In
<1>3. d \in Deadline /\ ~Passed(d, now)
  <2>1. now \in Nat /\ t \in 0 .. now
    BY Instants DEF Typed, TypeOK
  <2> QED
    BY <1>1, <2>1, KeyDeadlineTyped
<1>4. tokens' = Put(tokens, k, req[p].state, d)
  BY DEF SaveScript
<1> HIDE DEF d
<1>5. /\ tokens' \in [Token -> Entry \cup {NoEntry}]
      /\ \A j \in Token : tokens'[j] = IF j = k THEN [state |-> req[p].state, expiresAt |-> d]
                                       ELSE tokens[j]
  BY <1>1, <1>3, <1>4, MapTyped DEF Put, Typed, TypeOK, StoreTypeOK
<1>6. Stored(tokens') \subseteq inUse
  BY <1>2, <1>5 DEF Stored, Typed, TypeOK, StoreTypeOK
<1>7. \A j \in Stored(tokens') : ~Passed(tokens'[j].expiresAt, now)
  BY <1>3, <1>5 DEF Stored, Typed, TypeOK, StoreTypeOK
<1>8. indexes' \in [Subject \cup {ZeroSubject} -> SUBSET inUse]
  BY <1>2 DEF SaveScript, Typed, TypeOK, StoreTypeOK
<1> QED
  BY <1>5, <1>6, <1>7, <1>8 DEF Typed, TypeOK, StoreTypeOK

\* A key or a member of an index may go.
LEMMA ReducedStore ==
  ASSUME Typed, UNCHANGED <<now, inUse, sessions>>,
         tokens' = tokens \/ \E K : tokens' = Drop(tokens, K),
         indexes' = indexes \/ \E s, k : indexes' = [indexes EXCEPT ![s] = @ \ {k}]
  PROVE  StoreTypeOK'
<1>1. /\ tokens' \in [Token -> Entry \cup {NoEntry}]
      /\ \A j \in Token : tokens'[j] \in {tokens[j], NoEntry}
  BY DEF Drop, Typed, TypeOK, StoreTypeOK
<1>2. indexes' \in [Subject \cup {ZeroSubject} -> SUBSET inUse]
  BY DEF Typed, TypeOK, StoreTypeOK
<1> QED
  BY <1>1, <1>2 DEF Typed, TypeOK, StoreTypeOK, Stored

LEMMA DeletedStore ==
  ASSUME Typed, NEW p, NEW k, DeleteSnapshot(p, k), UNCHANGED <<now, inUse, sessions>>
  PROVE  StoreTypeOK'
<1>1. tokens' = tokens \/ \E K : tokens' = Drop(tokens, K)
  BY DEF DeleteSnapshot
<1>2. indexes' = indexes \/ \E s, j : indexes' = [indexes EXCEPT ![s] = @ \ {j}]
  BY DEF DeleteSnapshot
<1> QED
  BY <1>1, <1>2, ReducedStore

LEMMA ConsumedStore ==
  ASSUME Typed, NEW k \in Stored(tokens), tokens' = Rewrite(tokens, k, MarkConsumed(tokens[k].state)),
         UNCHANGED <<now, inUse, indexes, sessions>>
  PROVE  StoreTypeOK'
<1>1. k \in Token /\ tokens[k] \in Entry
  BY DEF Stored, Typed, TypeOK, StoreTypeOK
<1>2. MarkConsumed(tokens[k].state) \in State
  BY <1>1, ConsumedTyped DEF Entry
<1> DEFINE e == [tokens[k] EXCEPT !.state = MarkConsumed(tokens[k].state)]
<1>3. e \in Entry /\ e.expiresAt = tokens[k].expiresAt
  BY <1>1, <1>2 DEF Entry
<1>4. tokens' = [tokens EXCEPT ![k] = e]
  BY DEF Rewrite
<1> HIDE DEF e
<1>5. /\ tokens' \in [Token -> Entry \cup {NoEntry}]
      /\ \A j \in Token : tokens'[j] = IF j = k THEN e ELSE tokens[j]
  BY <1>1, <1>3, <1>4 DEF Typed, TypeOK, StoreTypeOK
<1> QED
  BY <1>1, <1>3, <1>5 DEF Typed, TypeOK, StoreTypeOK, Stored

LEMMA SessionStored ==
  ASSUME Typed, NEW s, NEW item \in SessionItem \cup {NoEntry},
         item # NoEntry => ~Passed(item.expiresAt, now),
         sessions' = [sessions EXCEPT ![s] = item], UNCHANGED <<now, inUse, tokens, indexes>>
  PROVE  StoreTypeOK'
<1>1. /\ sessions' \in [Subject -> SessionItem \cup {NoEntry}]
      /\ \A x \in Subject : sessions'[x] \in {item, sessions[x]}
  BY DEF Typed, TypeOK, StoreTypeOK
<1>2. \A x \in Subject : sessions'[x] # NoEntry => ~Passed(sessions'[x].expiresAt, now)
  BY <1>1 DEF Typed, TypeOK, StoreTypeOK
<1> QED
  BY <1>1, <1>2 DEF Typed, TypeOK, StoreTypeOK

-----------------------------------------------------------------------------
\* What each call has in hand.

\* A command that reads and writes nothing may still return.
LEMMA NothingStored ==
  ASSUME Typed, Unchanged, UNCHANGED <<now, inUse>>
  PROVE  StoreTypeOK'
BY DEF Unchanged, Typed, TypeOK, StoreTypeOK

LEMMA ReadTokenFits ==
  ASSUME Typed, NEW p \in Proc, ReadToken(p), inUse' = inUse
  PROVE  StoreTypeOK' /\ Fits(p)'
<1> DEFINE k == req[p].key
<1>1. phase[p] = "called" /\ req[p].op \in KeyOps /\ Unchanged
  BY DEF ReadToken, In, KeyOps
<1>2. CASE \E r \in {Done, Failed} : Return(p, r)
  <2>1. PICK r \in {Done, Failed} : Return(p, r)
    BY <1>2
  <2>2. Fits(p)'
    BY <2>1, ReturnFits, Responses DEF Typed, TypeOK
  <2> QED
    BY <1>1, <2>1, <2>2, NothingStored DEF Return
<1>3. CASE ~\E r \in {Done, Failed} : Return(p, r)
  <2>1. /\ Fetch(p, {k}) /\ GoOn(p, "read") /\ UNCHANGED <<attempt, todo, found>>
        /\ req[p].op \in {"Save", "CAS"} => Acceptable(req[p].state)
        /\ req[p].op # "Save" => k \in Stored(tokens)
        /\ req[p].op = "CAS" => tokens[k].state = req[p].expected
    BY <1>1, <1>3 DEF ReadToken, KeyOps
  <2>2. /\ phase'[p] = "read" /\ req'[p] = req[p] /\ begun'[p] = begun[p] /\ res'[p] = res[p]
        /\ seen'[p] = Fetched({k}) /\ at'[p] = now /\ now' = now
    BY <2>1, GoOnKeeps DEF Fetch, Typed
  <2>3. /\ Fetched({k}) \in StoreView \ {NoEntry}
        /\ DOMAIN Fetched({k}).entries = {k} \cap Stored(tokens)
        /\ \A j \in {k} \cap Stored(tokens) : Fetched({k}).entries[j] = tokens[j]
    BY FetchedTyped DEF Typed, TypeOK
  <2>4. StoreTypeOK'
    BY <1>1, <2>2, NothingStored
  <2>5. now \in 0 .. now /\ begun[p] <= now
    BY Instants DEF Typed, TypeOK
  <2>6. CallTypeOK(p)'
    BY <1>1, <2>1, <2>2, <2>3, <2>5 DEF CallTypeOK, Typed, TypeOK, Walking
  <2>7. Kept(p)'
    BY <1>1, <2>1, <2>2, <2>3 DEF Kept, Typed, TypeOK, StoreTypeOK, In, Snap
  <2> QED
    BY <2>4, <2>6, <2>7 DEF Fits
<1> QED
  BY <1>2, <1>3

LEMMA RetryFits ==
  ASSUME Typed, NEW p \in Proc, phase[p] = "read", Retry(p), inUse' = inUse
  PROVE  Fits(p)' /\ now' = now
<1>1. CASE Return(p, Refused)
  BY <1>1, ReturnFits, Responses DEF Typed, TypeOK, Return
<1>2. CASE ~Return(p, Refused)
  <2>1. /\ attempt[p] + 1 < Attempts
        /\ attempt' = [attempt EXCEPT ![p] = attempt[p] + 1]
        /\ GoOn(p, "called")
        /\ UNCHANGED <<seen, at, todo, found>>
    BY <1>2 DEF Retry
  <2>2. /\ phase'[p] = "called" /\ req'[p] = req[p] /\ begun'[p] = begun[p] /\ res'[p] = res[p]
        /\ attempt'[p] = attempt[p] + 1 /\ now' = now
    BY <2>1, GoOnKeeps DEF Typed
  <2>3. attempt[p] + 1 \in 0 .. Attempts - 1
    BY <2>1, RedisAssumption DEF Typed, TypeOK, CallTypeOK
  <2>4. CallTypeOK(p)'
    BY <2>1, <2>2, <2>3 DEF CallTypeOK, Typed, TypeOK, Walking
  <2> QED
    BY <2>1, <2>2, <2>4 DEF Fits, Kept, Typed, In
<1> QED
  BY <1>1, <1>2
\* A save and a compare-and-swap write what they were given.
LEMMA WriteFits ==
  ASSUME Typed, NEW p \in Proc, SaveTokenState(p) \/ CompareAndSwapTokenState(p), inUse' = inUse
  PROVE  StoreTypeOK' /\ Fits(p)'
<1>1. /\ phase[p] = "read" /\ req[p].op \in {"Save", "CAS"} /\ sessions' = sessions
      /\ req[p].op \in {"Save", "CAS"} /\ phase[p] # "idle"
  BY DEF SaveTokenState, CompareAndSwapTokenState, In
<1>2. CASE \E t \in at[p] .. now : SaveScript(p, t) /\ Return(p, Done)
  <2>1. PICK t \in at[p] .. now : SaveScript(p, t) /\ Return(p, Done)
    BY <1>2
  <2>2. Fits(p)' /\ now' = now
    BY <2>1, ReturnFits, Responses DEF Typed, TypeOK, Return
  <2> QED
    BY <1>1, <2>1, <2>2, SavedStore DEF In
<1>3. CASE UNCHANGED <<tokens, indexes>> /\ (Retry(p) \/ Return(p, Failed))
  <2>1. Fits(p)' /\ now' = now
    BY <1>1, <1>3, RetryFits, ReturnFits, Responses DEF Typed, TypeOK, Return
  <2> QED
    BY <1>1, <1>3, <2>1, NothingStored DEF Unchanged
<1>4. CASE SaveTokenState(p)
  BY <1>2, <1>3, <1>4 DEF SaveTokenState
<1>5. CASE CompareAndSwapTokenState(p)
  <2>1. PICK t \in at[p] .. now, u \in at[p] .. now :
          \/ SaveScript(p, u) /\ Return(p, Done)
          \/ UNCHANGED <<tokens, indexes>> /\ Return(p, Failed)
    BY <1>5 DEF CompareAndSwapTokenState
  <2> QED
    BY <1>2, <1>3, <2>1
<1> QED
  BY <1>4, <1>5

\* What a call on one key answers from what it read.
LEMMA KeyResponse ==
  ASSUME Typed, NEW p \in Proc, In(p, {"Get", "Consume", "Delete"}, "read")
  PROVE  Reported({req[p].key}, seen[p].entries) \in Response
<1>1. seen[p] \in StoreView /\ {req[p].key} \in SUBSET DOMAIN seen[p].entries
  BY DEF Typed, TypeOK, CallTypeOK, Kept, In, KeyOps
<1> QED
  BY <1>1, Responses

LEMMA GetFits ==
  ASSUME Typed, NEW p \in Proc, GetTokenState(p), inUse' = inUse
  PROVE  StoreTypeOK' /\ Fits(p)'
<1> DEFINE r == Reported({req[p].key}, seen[p].entries)
<1>1. /\ In(p, {"Get", "Consume", "Delete"}, "read") /\ sessions' = sessions
      /\ \/ DeleteSnapshot(p, req[p].key) /\ Return(p, Done)
         \/ UNCHANGED <<tokens, indexes>> /\ Return(p, r)
  BY DEF GetTokenState, In
<1>2. r \in Response
  BY <1>1, KeyResponse
<1> HIDE DEF r
<1>3. Fits(p)' /\ now' = now
  BY <1>1, <1>2, ReturnFits, Responses DEF Typed, TypeOK, Return
<1> QED
  BY <1>1, <1>3, DeletedStore, NothingStored DEF Unchanged

LEMMA ConsumeFits ==
  ASSUME Typed, NEW p \in Proc, ConsumeTokenState(p), inUse' = inUse
  PROVE  StoreTypeOK' /\ Fits(p)'
<1> DEFINE k == req[p].key
           r == Reported({k}, seen[p].entries)
<1>1. /\ In(p, {"Get", "Consume", "Delete"}, "read") /\ UNCHANGED <<indexes, sessions>>
      /\ \/ UNCHANGED tokens /\ (Return(p, Done) \/ Return(p, r))
         \/ ConsumeScript(p)
  BY DEF ConsumeTokenState, In
<1>2. r \in Response
  BY <1>1, KeyResponse
<1> HIDE DEF r
<1>3. CASE UNCHANGED tokens /\ (Return(p, Done) \/ Return(p, r) \/ Retry(p))
  <2>1. Fits(p)' /\ now' = now
    BY <1>1, <1>2, <1>3, RetryFits, ReturnFits, Responses DEF Typed, TypeOK, Return, In
  <2> QED
    BY <1>1, <1>3, <2>1, NothingStored DEF Unchanged
<1>4. CASE /\ StillThat(p, k) /\ tokens' = Rewrite(tokens, k, MarkConsumed(Snap(p, k)))
           /\ Return(p, r)
  <2>1. k \in DOMAIN seen[p].entries
    BY <1>1 DEF Typed, Kept, In, KeyOps
  <2>2. k \in Stored(tokens) /\ Snap(p, k) = tokens[k].state
    BY <1>4, <2>1 DEF StillThat
  <2>3. Fits(p)' /\ now' = now
    BY <1>2, <1>4, ReturnFits DEF Typed, TypeOK, Return
  <2> QED
    BY <1>1, <1>4, <2>2, <2>3, ConsumedStore
<1> QED
  BY <1>1, <1>3, <1>4 DEF ConsumeScript, r

LEMMA DeleteFits ==
  ASSUME Typed, NEW p \in Proc, DeleteTokenState(p), inUse' = inUse
  PROVE  StoreTypeOK' /\ Fits(p)'
<1>1. PICK r : r = IF StillThat(p, req[p].key) THEN Done ELSE Refused
  OBVIOUS
<1>2. DeleteSnapshot(p, req[p].key) /\ Return(p, r) /\ sessions' = sessions
  BY <1>1 DEF DeleteTokenState, Return
<1>3. Fits(p)' /\ now' = now
  BY <1>1, <1>2, ReturnFits, Responses DEF Typed, TypeOK, Return
<1> QED
  BY <1>2, <1>3, DeletedStore

LEMMA MembersFit ==
  ASSUME Typed, NEW p \in Proc, FindMembers(p) \/ FindValues(p), inUse' = inUse
  PROVE  StoreTypeOK' /\ Fits(p)'
<1>1. /\ phase[p] \in {"called", "members"} /\ req[p].op \in {"Find", "DeleteAll"} /\ Unchanged
      /\ req[p] \in Call
  BY DEF FindMembers, FindValues, In, Typed, TypeOK, CallTypeOK
<1>2. CASE Return(p, Done)
  <2>1. Fits(p)'
    BY <1>2, ReturnFits, Responses DEF Typed, TypeOK
  <2> QED
    BY <1>1, <1>2, <2>1, NothingStored DEF Return
<1>3. CASE FindMembers(p) /\ ~Return(p, Done)
  <2> DEFINE members == indexes[req[p].subject]
  <2>1. /\ phase[p] = "called" /\ members # {}
        /\ todo' = [todo EXCEPT ![p] = members]
        /\ GoOn(p, "members") /\ UNCHANGED <<seen, at, attempt, found>>
    BY <1>3 DEF FindMembers, In
  <2>2. /\ phase'[p] = "members" /\ req'[p] = req[p] /\ begun'[p] = begun[p] /\ res'[p] = res[p]
        /\ todo'[p] = members /\ now' = now
    BY <2>1, GoOnKeeps DEF Typed
  <2>3. members \in SUBSET inUse
    BY <1>1, FieldsTyped DEF Typed, TypeOK, StoreTypeOK
  <2> HIDE DEF members
  <2>4. CallTypeOK(p)'
    BY <1>1, <2>1, <2>2, <2>3 DEF CallTypeOK, Typed, TypeOK, Walking
  <2> QED
    BY <1>1, <2>1, <2>2, <2>4, NothingStored DEF Fits, Kept, Typed, In
<1>4. CASE FindValues(p)
  <2>1. /\ phase[p] = "members" /\ Fetch(p, todo[p]) /\ GoOn(p, "values")
        /\ UNCHANGED <<attempt, todo, found>>
    BY <1>4 DEF FindValues, In
  <2>2. /\ phase'[p] = "values" /\ req'[p] = req[p] /\ begun'[p] = begun[p] /\ res'[p] = res[p]
        /\ seen'[p] = Fetched(todo[p]) /\ at'[p] = now /\ now' = now
    BY <2>1, GoOnKeeps DEF Fetch, Typed
  <2>3. /\ Fetched(todo[p]) \in StoreView \ {NoEntry}
        /\ DOMAIN Fetched(todo[p]).entries \subseteq inUse
    BY FetchedTyped DEF Typed, TypeOK, StoreTypeOK
  <2>4. now \in 0 .. now /\ begun[p] <= now
    BY Instants DEF Typed, TypeOK
  <2>5. CallTypeOK(p)'
    BY <1>1, <2>1, <2>2, <2>3, <2>4 DEF CallTypeOK, Typed, TypeOK, Walking
  <2> QED
    BY <1>1, <2>2, <2>3, <2>5, NothingStored DEF Fits, Kept, In
<1> QED
  BY <1>2, <1>3, <1>4

\* The walk keeps the members it has found, and ends with those that match.
LEMMA WalkFits ==
  ASSUME Typed, NEW p \in Proc, phase[p] = "values", req[p].op \in {"Find", "DeleteAll"},
         NEW k \in todo[p], NEW kept \in SUBSET ({k} \cap DOMAIN seen[p].entries),
         Walk(p, k, kept), inUse' = inUse
  PROVE  Fits(p)' /\ now' = now
<1> DEFINE rest == todo[p] \ {k}
           all == found[p] \cup kept
           matching == Matching(p, all)
<1>1. /\ seen[p] \in StoreView \ {NoEntry} /\ all \subseteq DOMAIN seen[p].entries
      /\ all \in SUBSET inUse /\ rest \in SUBSET inUse
      /\ all \cap rest = {} /\ matching \subseteq all
  BY DEF Typed, TypeOK, CallTypeOK, Kept, Matching
<1> HIDE DEF matching
<1>2. CASE rest # {}
  <2>1. /\ todo' = [todo EXCEPT ![p] = rest] /\ found' = [found EXCEPT ![p] = all]
        /\ GoOn(p, "values") /\ UNCHANGED <<seen, at, attempt>>
    BY <1>2 DEF Walk
  <2>2. /\ phase'[p] = "values" /\ req'[p] = req[p] /\ begun'[p] = begun[p] /\ res'[p] = res[p]
        /\ todo'[p] = rest /\ found'[p] = all /\ now' = now
    BY <2>1, GoOnKeeps DEF Typed
  <2> HIDE DEF rest, all
  <2>3. CallTypeOK(p)'
    BY <1>1, <1>2, <2>1, <2>2 DEF CallTypeOK, Typed, TypeOK, Walking
  <2> QED
    BY <2>1, <2>2, <2>3 DEF Fits, Kept, Typed, In
<1>3. CASE rest = {} /\ \E r \in {Done, Reported(matching, seen[p].entries)} : Return(p, r)
  <2>1. Reported(matching, seen[p].entries) \in Response
    <3> HIDE DEF all
    <3> QED
      BY <1>1, Responses
  <2> QED
    BY <1>3, <2>1, ReturnFits, Responses DEF Typed, TypeOK, Return
<1>4. CASE ~(rest = {} /\ \E r \in {Done, Reported(matching, seen[p].entries)} : Return(p, r))
           /\ rest = {}
  <2>1. /\ matching # {}
        /\ todo' = [todo EXCEPT ![p] = matching] /\ found' = [found EXCEPT ![p] = {}]
        /\ GoOn(p, "matches") /\ UNCHANGED <<seen, at, attempt>>
    BY <1>4 DEF Walk, matching
  <2>2. /\ phase'[p] = "matches" /\ req'[p] = req[p] /\ begun'[p] = begun[p] /\ res'[p] = res[p]
        /\ todo'[p] = matching /\ found'[p] = {} /\ now' = now
    BY <2>1, GoOnKeeps DEF Typed
  <2> HIDE DEF rest, all
  <2>3. CallTypeOK(p)'
    BY <1>1, <2>1, <2>2 DEF CallTypeOK, Typed, TypeOK, Walking
  <2> QED
    BY <2>1, <2>2, <2>3 DEF Fits, Kept, Typed, In
<1> QED
  BY <1>2, <1>3, <1>4

LEMMA MemberFits ==
  ASSUME Typed, NEW p \in Proc, FindMember(p), inUse' = inUse
  PROVE  StoreTypeOK' /\ Fits(p)'
<1>1. /\ phase[p] = "values" /\ req[p].op \in {"Find", "DeleteAll"} /\ sessions' = sessions
  BY DEF FindMember, In
<1>2. PICK k \in todo[p] :
        \/ /\ k \notin DOMAIN seen[p].entries
           /\ Prune(p, k) /\ UNCHANGED tokens /\ Walk(p, k, {})
        \/ /\ k \in DOMAIN seen[p].entries
           /\ DeleteSnapshot(p, k) /\ Walk(p, k, {})
        \/ /\ k \in DOMAIN seen[p].entries
           /\ UNCHANGED <<tokens, indexes>> /\ Walk(p, k, {k})
  BY DEF FindMember
<1>3. Fits(p)' /\ now' = now
  <2>1. \E kept \in SUBSET ({k} \cap DOMAIN seen[p].entries) : Walk(p, k, kept)
    BY <1>2
  <2> QED
    BY <1>1, <2>1, WalkFits
<1>4. CASE Prune(p, k) /\ UNCHANGED tokens
  <2>1. indexes' = indexes \/ \E s, j : indexes' = [indexes EXCEPT ![s] = @ \ {j}]
    BY <1>4 DEF Prune
  <2> QED
    BY <1>1, <1>3, <1>4, <2>1, ReducedStore
<1>5. CASE DeleteSnapshot(p, k) \/ UNCHANGED <<tokens, indexes>>
  BY <1>1, <1>3, <1>5, DeletedStore, NothingStored DEF Unchanged
<1> QED
  BY <1>2, <1>3, <1>4, <1>5
LEMMA NextMatchFits ==
  ASSUME Typed, NEW p \in Proc, phase[p] \in {"matches", "match"}, NEW k, NextMatch(p, k),
         inUse' = inUse
  PROVE  Fits(p)' /\ now' = now
<1>1. /\ req[p].op \in {"Find", "DeleteAll"} /\ todo[p] # {} /\ todo[p] \ {k} \in SUBSET inUse
  BY DEF Typed, TypeOK, CallTypeOK, Walking
<1>2. CASE Return(p, Done)
  BY <1>2, ReturnFits, Responses DEF Typed, TypeOK, Return
<1>3. CASE ~Return(p, Done)
  <2>1. /\ todo[p] # {k}
        /\ todo' = [todo EXCEPT ![p] = todo[p] \ {k}] /\ found' = [found EXCEPT ![p] = {}]
        /\ GoOn(p, "matches") /\ UNCHANGED <<seen, at, attempt>>
    BY <1>3 DEF NextMatch
  <2>2. /\ phase'[p] = "matches" /\ req'[p] = req[p] /\ begun'[p] = begun[p] /\ res'[p] = res[p]
        /\ todo'[p] = todo[p] \ {k} /\ found'[p] = {} /\ now' = now
    BY <2>1, GoOnKeeps DEF Typed
  <2>3. todo[p] \ {k} # {}
    BY <1>1, <2>1
  <2>4. CallTypeOK(p)'
    BY <1>1, <2>1, <2>2, <2>3 DEF CallTypeOK, Typed, TypeOK, Walking
  <2> QED
    BY <2>1, <2>2, <2>4 DEF Fits, Kept, Typed, In
<1> QED
  BY <1>2, <1>3

LEMMA MatchFits ==
  ASSUME Typed, NEW p \in Proc, ReadMatch(p) \/ DeleteMatch(p), inUse' = inUse
  PROVE  StoreTypeOK' /\ Fits(p)'
<1>1. CASE DeleteMatch(p)
  <2>1. phase[p] = "match" /\ sessions' = sessions
    BY <1>1 DEF DeleteMatch, In
  <2>2. PICK k : DeleteSnapshot(p, k) /\ (NextMatch(p, k) \/ Return(p, Refused))
    BY <1>1 DEF DeleteMatch
  <2>3. Fits(p)' /\ now' = now
    BY <2>1, <2>2, NextMatchFits, ReturnFits, Responses DEF Typed, TypeOK, Return
  <2> QED
    BY <2>1, <2>2, <2>3, DeletedStore
<1>2. CASE ReadMatch(p)
  <2>1. phase[p] = "matches" /\ req[p].op = "DeleteAll" /\ Unchanged
    BY <1>2 DEF ReadMatch, In
  <2>2. PICK k \in todo[p] :
          \/ NextMatch(p, k)
          \/ /\ k \in OfSubject(tokens, req[p].subject, req[p].kinds)
             /\ Fetch(p, {k})
             /\ found' = [found EXCEPT ![p] = {k}]
             /\ GoOn(p, "match")
             /\ UNCHANGED <<attempt, todo>>
    BY <1>2 DEF ReadMatch
  <2>3. CASE NextMatch(p, k)
    BY <2>1, <2>3, NextMatchFits, NothingStored
  <2>4. CASE ~NextMatch(p, k)
    <3>1. /\ phase'[p] = "match" /\ req'[p] = req[p] /\ begun'[p] = begun[p] /\ res'[p] = res[p]
          /\ seen'[p] = Fetched({k}) /\ at'[p] = now /\ now' = now /\ found'[p] = {k}
          /\ UNCHANGED <<attempt, todo>>
      BY <2>2, <2>4, GoOnKeeps DEF Fetch, Typed
    <3>2. /\ k \in Stored(tokens) /\ tokens[k].state.subject = req[p].subject
          /\ MatchKind(tokens[k].state.kind, req[p].kinds)
      BY <2>2, <2>4 DEF OfSubject
    <3>3. /\ Fetched({k}) \in StoreView \ {NoEntry}
          /\ DOMAIN Fetched({k}).entries = {k}
          /\ Fetched({k}).entries[k] = tokens[k]
      BY <3>2, FetchedTyped DEF Typed, TypeOK
    <3>4. k \in inUse /\ now \in 0 .. now /\ begun[p] <= now /\ todo[p] # {}
      <4>1. now \in 0 .. now /\ begun[p] <= now
        BY Instants DEF Typed, TypeOK
      <4>2. k \in inUse /\ todo[p] # {}
        BY <2>1, <3>2 DEF Typed, TypeOK, StoreTypeOK, CallTypeOK, Walking
      <4> QED
        BY <4>1, <4>2
    <3>5. CallTypeOK(p)'
      <4>1. {k} \in SUBSET inUse /\ {k} \subseteq DOMAIN Fetched({k}).entries
        BY <3>3, <3>4
      <4>2. found'[p] \in SUBSET inUse /\ found'[p] \subseteq DOMAIN seen'[p].entries
        BY <3>1, <4>1
      <4>3. /\ {begun'[p], at'[p]} \subseteq 0 .. now' /\ begun'[p] <= at'[p]
            /\ seen'[p] # NoEntry
        BY <3>1, <3>3, <3>4 DEF Typed, TypeOK, CallTypeOK
      <4> QED
        BY <2>1, <3>1, <3>4, <4>2, <4>3 DEF CallTypeOK, Typed, TypeOK, Walking
    <3>6. Kept(p)'
      BY <3>1, <3>2, <3>3 DEF Kept, In, Snap
    <3> QED
      BY <2>1, <3>1, <3>5, <3>6, NothingStored DEF Fits
  <2> QED
    BY <2>3, <2>4
<1> QED
  BY <1>1, <1>2

LEMMA SessionFits ==
  ASSUME Typed, NEW p \in Proc, SessionStep(p), inUse' = inUse
  PROVE  StoreTypeOK' /\ Fits(p)'
<1> DEFINE s == req[p].subject
<1>1. /\ req[p] \in Call /\ s \in Subject /\ phase[p] \in {"called", "read"}
      /\ UNCHANGED <<tokens, indexes>>
  <2>1. /\ phase[p] \in {"called", "read"} /\ UNCHANGED <<tokens, indexes>>
        /\ req[p].op \in {"SaveSession", "EnsureSession", "GetSession", "DeleteSession"}
    BY DEF SessionStep, SaveSession, EnsureSession, WriteSession, GetSession, DeleteSessionRead,
           DeleteSession, In, Unchanged
  <2> QED
    BY <2>1, FieldsTyped DEF Typed, TypeOK, CallTypeOK
<1>2. sessions \in [Subject -> SessionItem \cup {NoEntry}] /\ NewData \in Data /\ now \in Nat
  BY StoreAssumption, Instants DEF Typed, TypeOK, StoreTypeOK
<1>3. ASSUME req[p].op \in {"SaveSession", "EnsureSession"}, NEW d \in Data, WriteSession(p, d)
      PROVE  StoreTypeOK' /\ Fits(p)'
  <2> DEFINE item == [data |-> d, expiresAt |-> DeadlineAfter(now, req[p].ttl)]
  <2>1. req[p].ttl \in Nat
    BY <1>1, <1>3, FieldsTyped
  <2>2. item \in SessionItem /\ ~Passed(item.expiresAt, now)
    <3>1. DeadlineAfter(now, req[p].ttl) \in Deadline
      BY <1>2, <2>1, DeadlineTyped
    <3>2. ~Passed(DeadlineAfter(now, req[p].ttl), now)
      BY <1>2, <2>1 DEF DeadlineAfter, Passed, Never
    <3> QED
      BY <3>1, <3>2 DEF SessionItem
  <2>3. sessions' = [sessions EXCEPT ![s] = item] /\ Return(p, Done)
    BY <1>3 DEF WriteSession
  <2> HIDE DEF item
  <2>4. Fits(p)' /\ now' = now
    BY <2>3, ReturnFits, Responses DEF Typed, TypeOK, Return
  <2> QED
    BY <1>1, <2>2, <2>3, <2>4, SessionStored
<1>4. CASE SaveSession(p)
  BY <1>1, <1>3, <1>4, FieldsTyped DEF SaveSession, In
<1>5. CASE EnsureSession(p)
  <2>1. sessions[s] # NoEntry => sessions[s].data \in Data
    BY <1>1, <1>2 DEF SessionItem
  <2>2. \E d \in Data : WriteSession(p, d)
    BY <1>2, <1>5, <2>1 DEF EnsureSession
  <2> QED
    BY <1>3, <1>5, <2>2 DEF EnsureSession, In
<1>6. CASE GetSession(p)
  <2>1. sessions[s] # NoEntry => sessions[s].data \in Data
    BY <1>1, <1>2 DEF SessionItem
  <2>2. PICK r : r = IF sessions[s] = NoEntry THEN Done ELSE [Done EXCEPT !.data = sessions[s].data]
    OBVIOUS
  <2>3. Return(p, r) /\ Unchanged
    BY <1>6, <2>2 DEF GetSession, Return
  <2>4. Fits(p)'
    BY <2>1, <2>2, <2>3, ReturnFits, Responses DEF Typed, TypeOK
  <2> QED
    BY <2>3, <2>4, NothingStored DEF Return
<1>7. CASE DeleteSession(p)
  <2>1. PICK item \in {sessions[s], NoEntry} : sessions' = [sessions EXCEPT ![s] = item]
    BY <1>7 DEF DeleteSession
  <2>2. Return(p, Done)
    BY <1>7 DEF DeleteSession
  <2>3. Fits(p)' /\ now' = now
    BY <2>2, ReturnFits, Responses DEF Typed, TypeOK, Return
  <2>4. item # NoEntry => ~Passed(item.expiresAt, now)
    BY <1>1, <2>1 DEF Typed, TypeOK, StoreTypeOK
  <2> QED
    BY <1>1, <1>2, <2>1, <2>3, <2>4, SessionStored
<1>8. CASE DeleteSessionRead(p)
  <2>1. phase[p] = "called" /\ req[p].op = "DeleteSession" /\ Unchanged
    BY <1>8 DEF DeleteSessionRead, In
  <2>2. CASE Return(p, Done)
    <3>1. Fits(p)'
      BY <2>2, ReturnFits, Responses DEF Typed, TypeOK
    <3> QED
      BY <2>1, <2>2, <3>1, NothingStored DEF Return
  <2>3. CASE ~Return(p, Done)
    <3> DEFINE view == View(req[p], tokens, sessions)
    <3>1. /\ seen' = [seen EXCEPT ![p] = view] /\ at' = [at EXCEPT ![p] = now]
          /\ GoOn(p, "read") /\ UNCHANGED <<attempt, todo, found>>
      BY <1>8, <2>3 DEF DeleteSessionRead
    <3>2. view \in StoreView \ {NoEntry}
      BY <1>1, ViewTyped DEF Typed, TypeOK, StoreTypeOK
    <3> HIDE DEF view
    <3>3. /\ phase'[p] = "read" /\ req'[p] = req[p] /\ begun'[p] = begun[p] /\ res'[p] = res[p]
          /\ seen'[p] = view /\ at'[p] = now /\ now' = now
      BY <3>1, GoOnKeeps DEF Typed
    <3>4. now \in 0 .. now /\ begun[p] <= now
      BY <2>1, Instants DEF Typed, TypeOK
    <3>5. CallTypeOK(p)'
      BY <2>1, <3>1, <3>2, <3>3, <3>4 DEF CallTypeOK, Typed, TypeOK, Walking
    <3> QED
      BY <2>1, <3>2, <3>3, <3>5, NothingStored DEF Fits, Kept, In, KeyOps
  <2> QED
    BY <2>2, <2>3
<1> QED
  BY <1>4, <1>5, <1>6, <1>7, <1>8 DEF SessionStep

-----------------------------------------------------------------------------
\* Every step keeps the types.

\* What a deletion has to delete is in use.
LEMMA CoveredTyped ==
  ASSUME TypeOK, Track, inUse' = inUse, NEW p \in Proc
  PROVE  covered'[p] \subseteq inUse'
<1>1. /\ \A s, kinds : OfSubject(tokens, s, kinds) \subseteq inUse
      /\ covered[p] \subseteq inUse
  BY DEF TypeOK, StoreTypeOK, OfSubject
<1>2. covered'[p] =
        IF ~(phase'[p] # "idle" /\ req'[p].op = "DeleteAll") THEN {}
        ELSE IF phase[p] = "idle" THEN OfSubject(tokens, req'[p].subject, req'[p].kinds)
        ELSE {k \in covered[p] \cap Live(tokens', now') :
                tokens'[k].state \in {tokens[k].state, MarkConsumed(tokens[k].state)}}
  BY DEF Track
<1>3. {k \in covered[p] \cap Live(tokens', now') :
         tokens'[k].state \in {tokens[k].state, MarkConsumed(tokens[k].state)}} \subseteq inUse
  BY <1>1
<1> QED
  BY <1>1, <1>2, <1>3

LEMMA StepFits ==
  ASSUME Typed, NEW p \in Proc, TokenStep(p) \/ SessionStep(p) \/ Refuse(p), inUse' = inUse
  PROVE  StoreTypeOK' /\ Fits(p)' /\ now' = now
<1>1. now' = now
  BY StepMoves DEF Typed, GoesOn, Returns, GoOn, Return
<1>2. CASE Refuse(p)
  <2>1. Fits(p)'
    BY <1>2, ReturnFits, Responses DEF Refuse, Typed, TypeOK
  <2> QED
    BY <1>1, <1>2, <2>1, NothingStored DEF Refuse
<1> QED
  BY <1>1, <1>2, ReadTokenFits, WriteFits, GetFits, ConsumeFits, DeleteFits, MembersFit,
     MemberFits, MatchFits, SessionFits DEF TokenStep

LEMMA BeginFits ==
  ASSUME Typed, NEW p \in Proc, Begin(p), inUse' = inUse
  PROVE  /\ StoreTypeOK' /\ now' = now
         /\ \A q \in Proc : Fits(q)'
<1>1. PICK c \in NextCalls(res[p]) :
        /\ "key" \in DOMAIN c => c.key \in inUse
        /\ req' = [req EXCEPT ![p] = c]
        /\ phase' = [phase EXCEPT ![p] = "called"]
        /\ begun' = [begun EXCEPT ![p] = now]
  BY DEF Begin
<1>2. /\ phase[p] = "idle"
      /\ UNCHANGED <<now, tokens, indexes, sessions, seen, at, attempt, todo, found, res>>
  BY DEF Begin
<1>3. c \in Call
  BY CallsTyped DEF Typed, TypeOK, CallTypeOK
<1>4. phase'[p] = "called" /\ req'[p] = c /\ begun'[p] = now /\ now \in 0 .. now
  BY <1>1, Instants DEF Typed, Shaped, TypeOK
<1>5. Fits(p)'
  BY <1>1, <1>2, <1>3, <1>4 DEF Fits, CallTypeOK, Kept, In, Walking, Typed, TypeOK
<1>6. ASSUME NEW q \in Proc, q # p
      PROVE  Fits(q)'
  <2>1. phase'[q] = phase[q] /\ req'[q] = req[q] /\ begun'[q] = begun[q]
    BY <1>1, <1>6 DEF Typed, Shaped
  <2> QED
    BY <1>2, <2>1 DEF Fits, CallTypeOK, Kept, In, Snap, Typed, TypeOK
<1>7. StoreTypeOK'
  BY <1>2, NothingStored DEF Unchanged
<1> QED
  BY <1>2, <1>5, <1>6, <1>7
LEMMA NextTyped == Base /\ Typed /\ [Next]_vars => Typed'
<1> SUFFICES ASSUME Base, Typed, [Next]_vars
             PROVE  Typed'
  OBVIOUS
<1>1. Shaped'
  BY NextBase DEF Base
<1>2. CASE UNCHANGED vars
  BY <1>1, <1>2 DEF vars, Typed, TypeOK, StoreTypeOK, CallTypeOK, Kept, In, Snap
<1>3. CASE Next
  <2>1. Track /\ inUse' = inUse
    BY <1>3 DEF Next
  <2>2. \A p \in Proc : covered'[p] \subseteq inUse'
    BY <2>1, CoveredTyped DEF Typed
  <2>3. StoreTypeOK' /\ \A q \in Proc : Fits(q)'
    <3>1. CASE Tick
      <4>1. /\ now' \in 0 .. MaxTime /\ now' = now + 1 /\ now \in Nat
            /\ UNCHANGED <<phase, req, begun, seen, at, attempt, todo, found, res>>
        BY <3>1, StoreAssumption, Instants DEF Tick, Typed, TypeOK, StoreTypeOK
      <4>2. /\ tokens' \in [Token -> Entry \cup {NoEntry}]
            /\ Stored(tokens') \subseteq Stored(tokens)
            /\ \A k \in Stored(tokens') : ~Passed(tokens'[k].expiresAt, now')
        BY <3>1 DEF Tick, Drop, Stored, Typed, TypeOK, StoreTypeOK
      <4>3. /\ sessions' \in [Subject -> SessionItem \cup {NoEntry}]
            /\ \A s \in Subject : sessions'[s] # NoEntry => ~Passed(sessions'[s].expiresAt, now')
        BY <3>1 DEF Tick, Typed, TypeOK, StoreTypeOK
      <4>4. StoreTypeOK'
        BY <2>1, <3>1, <4>1, <4>2, <4>3 DEF Tick, Typed, TypeOK, StoreTypeOK
      <4>5. ASSUME NEW q \in Proc
            PROVE  Fits(q)'
        <5>1. {begun[q], at[q]} \subseteq 0 .. now'
          BY <4>1, Instants DEF Typed, TypeOK
        <5> QED
          BY <2>1, <4>1, <5>1 DEF Fits, CallTypeOK, Kept, In, Snap, Typed, TypeOK
      <4> QED
        BY <4>4, <4>5
    <3>2. ASSUME NEW p \in Proc, Begin(p)
          PROVE  StoreTypeOK' /\ \A q \in Proc : Fits(q)'
      BY <2>1, <3>2, BeginFits
    <3>3. ASSUME NEW p \in Proc, TokenStep(p) \/ SessionStep(p) \/ Refuse(p)
          PROVE  StoreTypeOK' /\ \A q \in Proc : Fits(q)'
      <4>1. StoreTypeOK' /\ Fits(p)' /\ now' = now
        BY <2>1, <3>3, StepFits
      <4>2. OthersKept(p)
        BY <3>3, StepKnown DEF Typed
      <4>3. ASSUME NEW q \in Proc, q # p
            PROVE  Fits(q)'
        BY <2>1, <4>1, <4>2, <4>3 DEF OthersKept, Fits, CallTypeOK, Kept, In, Snap, Typed, TypeOK
      <4> QED
        BY <4>1, <4>3
    <3> QED
      BY <1>3, <3>1, <3>2, <3>3 DEF Next
  <2> QED
    BY <1>1, <2>1, <2>2, <2>3 DEF Fits, Typed, TypeOK
<1> QED
  BY <1>2, <1>3

LEMMA InitTyped == Init => Typed
<1> SUFFICES ASSUME Init
             PROVE  Typed
  OBVIOUS
<1>1. Shaped
  BY InitBase DEF Base
<1>2. StoreTypeOK
  BY StoreAssumption DEF Init, StoreTypeOK, Stored
<1>3. ASSUME NEW p \in Proc
      PROVE  CallTypeOK(p) /\ Kept(p) /\ covered[p] \subseteq inUse
  BY Responses, RedisAssumption DEF Init, CallTypeOK, Kept, In, Walking
<1> QED
  BY <1>1, <1>2, <1>3 DEF Typed, TypeOK, Init

\* However clients overlap, the keys and indexes of store.go and the locals of its
\* methods keep their types, no key outlives its expiry, and a script runs only with
\* the snapshot it compares.
THEOREM TypeCorrect == Spec => []TypeOK
<1>1. Typed => TypeOK
  BY DEF Typed
<1> QED
  BY <1>1, InitBase, NextBase, InitTyped, NextTyped, PTL DEF Spec
-----------------------------------------------------------------------------
(* The refinement of AtomicStore, for one token in use, and for sessions.  An  *)
(* MGET is an observation; the script that writes is the instant at which its  *)
(* call takes effect; a script that finds the key changed does nothing, or     *)
(* ends a call that is refused.  What is judged in Go is reported from what    *)
(* was read, by a clock reading at which it holds.                            *)

\* The vocabulary of the contract is that of the store.
LEMMA SameStates ==
  /\ \A s, t : Contract!IsExpired(s, t) = IsExpired(s, t)
  /\ \A d, t : Contract!Passed(d, t) = Passed(d, t)
  /\ \A t, ttl : Contract!DeadlineAfter(t, ttl) = DeadlineAfter(t, ttl)
  /\ \A s, t, ttl : Contract!EffectiveExpiresAt(s, t, ttl) = EffectiveExpiresAt(s, t, ttl)
  /\ \A s, kinds, t : Contract!Consumable(s, kinds, t) = Consumable(s, kinds, t)
  /\ \A s : Contract!Acceptable(s) = Acceptable(s)
BY DEF Contract!IsExpired, IsExpired, Contract!Passed, Passed, Contract!DeadlineAfter,
       DeadlineAfter, Contract!EffectiveExpiresAt, EffectiveExpiresAt, Contract!Earlier,
       Earlier, Contract!Never, Never, Contract!Consumable, Consumable,
       Contract!IsActive, IsActive, Contract!MatchKind, MatchKind, Contract!Acceptable,
       Acceptable

LEMMA SameMaps ==
  /\ \A map : Contract!Stored(map) = Stored(map)
  /\ \A map, t : Contract!Live(map, t) = Live(map, t)
  /\ \A e, t : Contract!EntryExpired(e, t) = EntryExpired(e, t)
  /\ \A map, k, s, d : Contract!Put(map, k, s, d) = Put(map, k, s, d)
  /\ \A map, K : Contract!Drop(map, K) = Drop(map, K)
  /\ \A map, k, s, t : Contract!Matches(map, k, s, t) = Matches(map, k, s, t)
  /\ \A map, k, kinds, t : Contract!Consume(map, k, kinds, t) = Consume(map, k, kinds, t)
  /\ \A map, s, kinds : Contract!OfSubject(map, s, kinds) = OfSubject(map, s, kinds)
<1>1. /\ \A map : Contract!Stored(map) = Stored(map)
      /\ \A e, t : Contract!EntryExpired(e, t) = EntryExpired(e, t)
  BY DEF Contract!Stored, Stored, Contract!EntryExpired, EntryExpired, Contract!IsExpired,
         IsExpired, Contract!Passed, Passed, Contract!Never, Never
<1>2. \A map, t : Contract!Live(map, t) = Live(map, t)
  BY <1>1 DEF Contract!Live, Live
<1>3. \A map, k, s, t : Contract!Matches(map, k, s, t) = Matches(map, k, s, t)
  BY <1>2 DEF Contract!Matches, Matches
<1>4. \A map, k, kinds, t : Contract!Consume(map, k, kinds, t) = Consume(map, k, kinds, t)
  BY SameStates DEF Contract!Consume, Consume, Contract!Rewrite, Rewrite,
         Contract!MarkConsumed, MarkConsumed
<1>5. \A map, s, kinds : Contract!OfSubject(map, s, kinds) = OfSubject(map, s, kinds)
  BY <1>1 DEF Contract!OfSubject, OfSubject, Contract!MatchKind, MatchKind
<1> QED
  BY <1>1, <1>2, <1>3, <1>4, <1>5 DEF Contract!Put, Put, Contract!Drop, Drop

LEMMA SameCalls ==
  /\ Contract!Done = Done /\ Contract!Failed = Failed /\ Contract!Refused = Refused
  /\ \A K, entries : Contract!Reported(K, entries) = Reported(K, entries)
  /\ \A c, map, items : Contract!View(c, map, items) = View(c, map, items)
  /\ \A last : Contract!NextCalls(last) = NextCalls(last)
<1>1. /\ Contract!Done = Done /\ Contract!Failed = Failed /\ Contract!Refused = Refused
      /\ \A K, entries : Contract!Reported(K, entries) = Reported(K, entries)
  BY DEF Contract!Done, Done, Contract!Failed, Failed, Contract!Refused, Refused,
         Contract!Reported, Reported
<1>2. \A c, map, items : Contract!View(c, map, items) = View(c, map, items)
  BY SameMaps DEF Contract!View, View
<1>3. \A last : Contract!NextCalls(last) = NextCalls(last)
  BY DEF Contract!NextCalls, NextCalls, Contract!SessionCall, SessionCall,
         Contract!MarkConsumed, MarkConsumed
<1> QED
  BY <1>1, <1>2, <1>3

-----------------------------------------------------------------------------
\* The map as the contract counts deadlines.
LEMMA LogicalEntry ==
  ASSUME NEW e \in Entry
  PROVE  /\ Logical(e) \in Entry /\ Logical(e) # NoEntry
         /\ Logical(e).state = e.state
         /\ Logical(e) = [state |-> e.state, expiresAt |-> Earlier(e.expiresAt, e.state.expiresAt)]
         /\ \A t \in Nat : EntryExpired(Logical(e), t) <=> EntryExpired(e, t)
<1> DEFINE d == Earlier(e.expiresAt, e.state.expiresAt)
<1>1. e.expiresAt \in Deadline /\ e.state.expiresAt \in Deadline /\ e.state \in State
  BY DEF Entry, State
<1>2. d \in Deadline
  BY <1>1 DEF Earlier
<1>3. \A t \in Nat : Passed(d, t) <=> Passed(e.expiresAt, t) \/ Passed(e.state.expiresAt, t)
  BY <1>1 DEF Earlier, Passed, Deadline, Never
<1>4. Logical(e) = [state |-> e.state, expiresAt |-> d]
  BY DEF Logical, Entry
<1> HIDE DEF d
<1>5. Logical(e) \in Entry
  BY <1>1, <1>2, <1>4 DEF Entry
<1> QED
  BY <1>3, <1>4, <1>5, StoreAssumption DEF EntryExpired, IsExpired, d

LEMMA LogicalTyped ==
  ASSUME NEW map \in [Token -> Entry \cup {NoEntry}]
  PROVE  /\ LogicalMap(map) \in [Token -> Entry \cup {NoEntry}]
         /\ Stored(LogicalMap(map)) = Stored(map)
         /\ \A k \in Stored(map) : /\ LogicalMap(map)[k] = Logical(map[k])
                                   /\ LogicalMap(map)[k].state = map[k].state
         /\ \A t \in Nat : Live(LogicalMap(map), t) = Live(map, t)
         /\ \A s, kinds : OfSubject(LogicalMap(map), s, kinds) = OfSubject(map, s, kinds)
<1>1. \A k \in Token : LogicalMap(map)[k] = IF map[k] = NoEntry THEN NoEntry ELSE Logical(map[k])
  BY DEF LogicalMap
<1>2. \A k \in Token : map[k] # NoEntry =>
        /\ LogicalMap(map)[k] \in Entry /\ LogicalMap(map)[k] # NoEntry
        /\ LogicalMap(map)[k].state = map[k].state
        /\ \A t \in Nat : EntryExpired(LogicalMap(map)[k], t) <=> EntryExpired(map[k], t)
  BY <1>1, LogicalEntry
<1>3. LogicalMap(map) \in [Token -> Entry \cup {NoEntry}]
  <2>1. \A k \in Token : LogicalMap(map)[k] \in Entry \cup {NoEntry}
    BY <1>1, <1>2
  <2> QED
    BY <2>1 DEF LogicalMap
<1>4. Stored(LogicalMap(map)) = Stored(map)
  BY <1>1, <1>2 DEF Stored
<1>5. \A t \in Nat : Live(LogicalMap(map), t) = Live(map, t)
  BY <1>2, <1>4 DEF Live, Stored
<1>6. \A s, kinds : OfSubject(LogicalMap(map), s, kinds) = OfSubject(map, s, kinds)
  BY <1>2, <1>4 DEF OfSubject, Stored
<1> QED
  BY <1>1, <1>2, <1>3, <1>4, <1>5, <1>6 DEF Stored

\* What a script does to the keys it does to that map.
LEMMA LogicalDrop ==
  ASSUME NEW map, NEW K
  PROVE  LogicalMap(Drop(map, K)) = Drop(LogicalMap(map), K)
<1>1. \A k \in Token : LogicalMap(Drop(map, K))[k] = Drop(LogicalMap(map), K)[k]
  BY DEF LogicalMap, Drop
<1> QED
  BY <1>1 DEF LogicalMap, Drop

LEMMA LogicalPut ==
  ASSUME NEW map \in [Token -> Entry \cup {NoEntry}], NEW k \in Token, NEW s \in State,
         NEW d \in Deadline
  PROVE  LogicalMap(Put(map, k, s, d)) = Put(LogicalMap(map), k, s, Earlier(d, s.expiresAt))
<1> DEFINE e == [state |-> s, expiresAt |-> d]
           f == [state |-> s, expiresAt |-> Earlier(d, s.expiresAt)]
<1>1. e \in Entry /\ Logical(e) = f /\ e # NoEntry
  <2>1. e \in Entry
    BY DEF Entry
  <2>2. Logical(e) = [state |-> e.state, expiresAt |-> Earlier(e.expiresAt, e.state.expiresAt)]
    BY <2>1, LogicalEntry
  <2> QED
    BY <2>1, <2>2, StoreAssumption
<1>2. Put(map, k, s, d) = [map EXCEPT ![k] = e]
      /\ Put(LogicalMap(map), k, s, Earlier(d, s.expiresAt)) = [LogicalMap(map) EXCEPT ![k] = f]
  BY DEF Put
<1> HIDE DEF e, f
<1>3. LogicalMap([map EXCEPT ![k] = e]) = [LogicalMap(map) EXCEPT ![k] = f]
  BY <1>1 DEF LogicalMap
<1> QED
  BY <1>2, <1>3

LEMMA LogicalRewrite ==
  ASSUME NEW map \in [Token -> Entry \cup {NoEntry}], NEW k \in Stored(map)
  PROVE  LogicalMap(Rewrite(map, k, MarkConsumed(map[k].state)))
           = Rewrite(LogicalMap(map), k, MarkConsumed(map[k].state))
<1> DEFINE s == MarkConsumed(map[k].state)
           e == [map[k] EXCEPT !.state = s]
           f == [LogicalMap(map)[k] EXCEPT !.state = s]
<1>1. k \in Token /\ map[k] \in Entry /\ map[k] # NoEntry
  BY DEF Stored
<1>2. s \in State /\ s.expiresAt = map[k].state.expiresAt
  BY <1>1, ConsumedTyped DEF Entry, State, MarkConsumed
<1>3. e = [state |-> s, expiresAt |-> map[k].expiresAt] /\ e \in Entry
  BY <1>1, <1>2 DEF Entry
<1>4. LogicalMap(map)[k] = [state |-> map[k].state,
                            expiresAt |-> Earlier(map[k].expiresAt, map[k].state.expiresAt)]
  BY <1>1, LogicalEntry DEF LogicalMap
<1>5. f = [state |-> s, expiresAt |-> Earlier(map[k].expiresAt, map[k].state.expiresAt)]
  BY <1>4
<1>6. Logical(e) = f /\ e # NoEntry
  BY <1>2, <1>3, <1>5, LogicalEntry, StoreAssumption
<1>7. Rewrite(map, k, s) = [map EXCEPT ![k] = e]
      /\ Rewrite(LogicalMap(map), k, s) = [LogicalMap(map) EXCEPT ![k] = f]
  BY DEF Rewrite
<1> HIDE DEF e, f
<1>8. LogicalMap([map EXCEPT ![k] = e]) = [LogicalMap(map) EXCEPT ![k] = f]
  BY <1>1, <1>6 DEF LogicalMap
<1> QED
  BY <1>7, <1>8

\* What a key's expiry and the state's deadline come to is the deadline of the contract,
\* counted from the script (redisTTL).
LEMMA KeyDeadlineCounts ==
  ASSUME now \in Nat, NEW s \in State, NEW t \in 0 .. now, NEW ttl \in Nat
  PROVE  Earlier(KeyDeadline(s, t, ttl), s.expiresAt) = EffectiveExpiresAt(s, now, ttl)
<1>1. s.expiresAt \in Nat \cup {Never}
  BY DEF State, Deadline
<1> QED
  BY <1>1 DEF KeyDeadline, EffectiveExpiresAt, Earlier, DeadlineAfter, Never
-----------------------------------------------------------------------------
\* With one token in use the contract is shown the keys as it counts deadlines.
LEMMA StillOne ==
  ASSUME ~Several, inUse' = inUse
  PROVE  ~Several'
BY DEF Several

LEMMA Alone ==
  ASSUME ~Several, NEW j \in inUse, NEW k \in inUse
  PROVE  j = k
BY DEF Several

\* What a call has observed.
LEMMA VisibleTyped ==
  ASSUME NEW c, NEW view \in StoreView
  PROVE  /\ Visible(c, view) \in StoreView \ {NoEntry}
         /\ Visible(c, view).session = view.session
         /\ DOMAIN Visible(c, view).entries
              = {k \in DOMAIN view.entries : c.op \in {"Find", "DeleteAll"} =>
                   /\ view.entries[k].state.subject = c.subject
                   /\ MatchKind(view.entries[k].state.kind, c.kinds)}
         /\ \A k \in DOMAIN Visible(c, view).entries :
              /\ k \in DOMAIN view.entries
              /\ Visible(c, view).entries[k] = Logical(view.entries[k])
              /\ Visible(c, view).entries[k].state = view.entries[k].state
         /\ \A f : f = [k \in DOMAIN Visible(c, view).entries |-> Logical(view.entries[k])] =>
              Visible(c, view) = [entries |-> f, session |-> view.session]
<1> DEFINE K == {k \in DOMAIN view.entries : c.op \in {"Find", "DeleteAll"} =>
                   /\ view.entries[k].state.subject = c.subject
                   /\ MatchKind(view.entries[k].state.kind, c.kinds)}
           f == [k \in K |-> Logical(view.entries[k])]
<1>1. /\ K \in SUBSET Token /\ K \subseteq DOMAIN view.entries
      /\ \A k \in K : /\ Logical(view.entries[k]) \in Entry
                      /\ Logical(view.entries[k]).state = view.entries[k].state
  BY SeenTyped, LogicalEntry
<1>2. view = [entries |-> view.entries, session |-> view.session]
      /\ view.session \in SessionItem \cup {NoEntry}
  BY DEF StoreView
<1>3. Visible(c, view) = [entries |-> f, session |-> view.session]
  BY <1>2 DEF Visible
<1>4. f \in [K -> Entry]
  BY <1>1
<1>5. Visible(c, view) \in StoreView \ {NoEntry}
  <2> HIDE DEF f, K
  <2>1. Visible(c, view) \in StoreView
    BY <1>1, <1>2, <1>3, <1>4 DEF StoreView
  <2> QED
    BY <2>1, StoreAssumption
<1>6. DOMAIN Visible(c, view).entries = K /\ Visible(c, view).session = view.session
  BY <1>3
<1>7. \A k \in K : Visible(c, view).entries[k] = Logical(view.entries[k])
  <2> HIDE DEF K
  <2> QED
    BY <1>3
<1>8. \A g : g = [k \in DOMAIN Visible(c, view).entries |-> Logical(view.entries[k])] =>
        Visible(c, view) = [entries |-> g, session |-> view.session]
  <2> HIDE DEF K
  <2> QED
    BY <1>3, <1>6
<1> QED
  BY <1>1, <1>5, <1>6, <1>7, <1>8

\* A reply is what the contract says the call observes: it is of the key of the call, or
\* of the only token there is.
LEMMA FetchedView ==
  ASSUME Typed, NEW c \in Call, NEW K,
         \/ c.op \in KeyOps /\ K = {c.key}
         \/ c.op \in {"Find", "DeleteAll"} /\ Stored(tokens) \subseteq K
  PROVE  Visible(c, Fetched(K)) = View(c, LogicalMap(tokens), sessions)
<1> DEFINE view == Fetched(K)
           map == LogicalMap(tokens)
           D == DOMAIN Visible(c, view).entries
           R == IF c.op \in {"Find", "DeleteAll"} THEN OfSubject(map, c.subject, c.kinds)
                ELSE Stored(map) \cap (IF "key" \in DOMAIN c THEN {c.key} ELSE {})
<1>1. tokens \in [Token -> Entry \cup {NoEntry}]
  BY DEF Typed, TypeOK, StoreTypeOK
<1>2. /\ view \in StoreView /\ view.session = NoEntry
      /\ DOMAIN view.entries = K \cap Stored(tokens)
      /\ \A k \in K \cap Stored(tokens) : view.entries[k] = tokens[k]
  BY FetchedTyped DEF Typed, TypeOK, Fetched
<1>3. /\ Stored(map) = Stored(tokens)
      /\ OfSubject(map, c.subject, c.kinds) = OfSubject(tokens, c.subject, c.kinds)
      /\ \A k \in Stored(tokens) : map[k] = Logical(tokens[k])
  BY <1>1, LogicalTyped
<1>4. D = R
  <2>1. CASE c.op \in KeyOps /\ K = {c.key}
    <3>1. "key" \in DOMAIN c
      BY <2>1, FieldsTyped DEF KeyOps
    <3>2. D = {c.key} \cap Stored(tokens)
      <4>1. D = {k \in DOMAIN view.entries : c.op \in {"Find", "DeleteAll"} =>
                   /\ view.entries[k].state.subject = c.subject
                   /\ MatchKind(view.entries[k].state.kind, c.kinds)}
        BY <1>2, VisibleTyped
      <4>2. c.op \notin {"Find", "DeleteAll"}
        BY <2>1 DEF KeyOps
      <4> HIDE DEF D, view
      <4> QED
        BY <1>2, <2>1, <4>1, <4>2
    <3>3. R = Stored(tokens) \cap {c.key}
      BY <1>3, <2>1, <3>1 DEF KeyOps
    <3> QED
      BY <3>2, <3>3
  <2>2. CASE c.op \in {"Find", "DeleteAll"} /\ Stored(tokens) \subseteq K
    <3>1. D = {k \in K \cap Stored(tokens) :
                 view.entries[k].state.subject = c.subject
                 /\ MatchKind(view.entries[k].state.kind, c.kinds)}
      BY <1>2, <2>2, VisibleTyped
    <3>2. R = OfSubject(tokens, c.subject, c.kinds)
      BY <1>3, <2>2
    <3> HIDE DEF D, R, view
    <3> QED
      BY <1>2, <2>2, <3>1, <3>2 DEF OfSubject
  <2> QED
    BY <2>1, <2>2
<1>5. \A k \in D : Logical(view.entries[k]) = map[k]
  BY <1>2, <1>3, VisibleTyped
<1>6. Visible(c, view) = [entries |-> [k \in D |-> Logical(view.entries[k])],
                          session |-> NoEntry]
  <2> DEFINE f == [k \in D |-> Logical(view.entries[k])]
  <2>1. \A g : g = [k \in D |-> Logical(view.entries[k])] =>
          Visible(c, view) = [entries |-> g, session |-> view.session]
    BY <1>2, VisibleTyped
  <2>2. f = [k \in D |-> Logical(view.entries[k])]
    OBVIOUS
  <2> HIDE DEF f, D, view
  <2>3. Visible(c, view) = [entries |-> f, session |-> NoEntry]
    BY <1>2, <2>1, <2>2
  <2> QED
    BY <2>3 DEF f
<1>7. c.op \notin {"GetSession", "DeleteSession"}
  BY DEF KeyOps
<1>8. View(c, map, sessions) = [entries |-> [k \in R |-> map[k]], session |-> NoEntry]
  BY <1>7 DEF View
<1> HIDE DEF D, R, view, map
<1>9. [k \in D |-> Logical(view.entries[k])] = [k \in R |-> map[k]]
  BY <1>4, <1>5
<1> QED
  BY <1>6, <1>8, <1>9 DEF view, map
\* A step of a behaviour in which one token is in use.
Single == Typed /\ ~Several /\ inUse' = inUse

LEMMA ShownAsIs ==
  ASSUME Single
  PROVE  /\ Shown(now, 0) = now /\ Shown(now, 0)' = now'
         /\ Shown(LogicalMap(tokens), [k \in Token |-> NoEntry]) = LogicalMap(tokens)
         /\ Shown(LogicalMap(tokens), [k \in Token |-> NoEntry])' = LogicalMap(tokens')
         /\ Shown(sessions, [s \in Subject |-> NoEntry]) = sessions
         /\ Shown(sessions, [s \in Subject |-> NoEntry])' = sessions'
         /\ Shown(Underway, [q \in Proc |-> "idle"]) = Underway
         /\ Shown(Underway, [q \in Proc |-> "idle"])' = Underway'
         /\ Shown(req, [q \in Proc |-> Failed]) = req
         /\ Shown(req, [q \in Proc |-> Failed])' = req'
         /\ Shown(begun, [q \in Proc |-> 0]) = begun
         /\ Shown(begun, [q \in Proc |-> 0])' = begun'
         /\ Shown(Views, [q \in Proc |-> NoEntry]) = Views
         /\ Shown(Views, [q \in Proc |-> NoEntry])' = Views'
         /\ Shown(res, [q \in Proc |-> Done]) = res
         /\ Shown(res, [q \in Proc |-> Done])' = res'
<1>1. ~Several /\ ~Several'
  BY StillOne DEF Single
<1> QED
  BY <1>1 DEF Shown

\* A step of one client changes only what the contract is shown of that client.
LEMMA OthersShown ==
  ASSUME NEW p \in Proc, OthersKept(p)
  PROVE  /\ \A x : /\ (IF phase'[p] = "idle" THEN "idle" ELSE "called") = x
                   => Underway' = [Underway EXCEPT ![p] = x]
         /\ \A x : /\ (IF seen'[p] = NoEntry THEN NoEntry ELSE Visible(req'[p], seen'[p])) = x
                   => Views' = [Views EXCEPT ![p] = x]
<1>1. \A q \in Proc \ {p} : Underway'[q] = Underway[q] /\ Views'[q] = Views[q]
  BY DEF OthersKept, Underway, Views
<1>2. /\ Underway'[p] = IF phase'[p] = "idle" THEN "idle" ELSE "called"
      /\ Views'[p] = IF seen'[p] = NoEntry THEN NoEntry ELSE Visible(req'[p], seen'[p])
  BY DEF Underway, Views
<1>3. /\ Underway' = [q \in Proc |-> Underway'[q]] /\ Underway = [q \in Proc |-> Underway[q]]
      /\ Views' = [q \in Proc |-> Views'[q]] /\ Views = [q \in Proc |-> Views[q]]
  BY DEF Underway, Views
<1> QED
  BY <1>1, <1>2, <1>3

\* A call that goes on and has read nothing new shows nothing of it.
LEMMA Stutters ==
  ASSUME Single, NEW p \in Proc, phase[p] # "idle", NEW next, next # "idle", GoOn(p, next),
         Locals(p), UNCHANGED <<tokens, sessions, seen>>
  PROVE  UNCHANGED Contract!vars
<1>1. OthersKept(p) /\ phase'[p] = next /\ req' = req
  BY GoOnKeepsOthers DEF Single, Typed, GoOn
<1>2. Underway' = Underway
  BY <1>1, OthersShown DEF Underway
<1>3. Views' = Views
  BY <1>1 DEF Views
<1> QED
  BY <1>2, <1>3, ShownAsIs DEF GoOn, Contract!vars

LEMMA Answers ==
  ASSUME Single, NEW p \in Proc, NEW r, Return(p, r)
  PROVE  Contract!Answer(p, r)
<1>1. OthersKept(p) /\ phase'[p] = "idle"
  BY ReturnKeepsOthers DEF Single, Typed, Returns
<1>2. seen'[p] = NoEntry
  BY DEF Return, Single, Typed, Shaped
<1>3. Underway' = [Underway EXCEPT ![p] = "idle"] /\ Views' = [Views EXCEPT ![p] = NoEntry]
  BY <1>1, <1>2, OthersShown
<1>4. /\ req' = [req EXCEPT ![p] = Failed] /\ begun' = [begun EXCEPT ![p] = 0]
      /\ res' = [res EXCEPT ![p] = r] /\ now' = now
  BY DEF Return, Single
<1> QED
  BY <1>3, <1>4, ShownAsIs, SameCalls DEF Contract!Answer

-----------------------------------------------------------------------------
\* Only what has expired goes.
LEMMA Evicts ==
  ASSUME Single, NEW t \in Nat,
         NEW K, \A k \in K : k \in Stored(tokens) => EntryExpired(tokens[k], t),
         tokens' = Drop(tokens, K),
         NEW S, \A s \in S \cap Subject : sessions[s] = NoEntry \/ Passed(sessions[s].expiresAt, t),
         sessions' = [s \in Subject |-> IF s \in S THEN NoEntry ELSE sessions[s]]
  PROVE  Contract!EvictSome(t)
<1> DEFINE E == K \cap Stored(tokens)
           F == S \cap Subject
           map == LogicalMap(tokens)
           without(X) == [s \in Subject |-> IF s \in X THEN NoEntry ELSE sessions[s]]
<1>1. tokens \in [Token -> Entry \cup {NoEntry}]
  BY DEF Single, Typed, TypeOK, StoreTypeOK
<1>2. LogicalMap(tokens') = Drop(map, E)
  <2>1. \A k \in Token : (IF k \in K THEN NoEntry ELSE map[k]) = IF k \in E THEN NoEntry ELSE map[k]
    BY DEF Stored, LogicalMap
  <2>2. LogicalMap(tokens') = Drop(map, K)
    BY LogicalDrop
  <2> HIDE DEF E, map
  <2> QED
    BY <2>1, <2>2 DEF Drop
<1>3. E \in SUBSET (Stored(map) \ Live(map, t))
  BY <1>1, LogicalTyped DEF Live
<1>4. sessions' = without(F)
  <2>1. \A s \in Subject : s \in S <=> s \in F
    OBVIOUS
  <2> HIDE DEF F
  <2> QED
    BY <2>1
<1>5. F \in SUBSET {s \in Subject : ~(sessions[s] # NoEntry /\ ~Passed(sessions[s].expiresAt, t))}
  OBVIOUS
<1>6. \E X \in SUBSET (Stored(map) \ Live(map, t)) : LogicalMap(tokens') = Drop(map, X)
  <2> HIDE DEF E, map
  <2> QED
    BY <1>2, <1>3
<1>7. \E X \in SUBSET {s \in Subject : ~(sessions[s] # NoEntry /\ ~Passed(sessions[s].expiresAt, t))} :
         sessions' = without(X)
  <2> HIDE DEF F, without
  <2> QED
    BY <1>4, <1>5
<1>8. \E X \in SUBSET (Contract!Stored(map) \ Contract!Live(map, t)) :
         LogicalMap(tokens') = Contract!Drop(map, X)
  <2> HIDE DEF map
  <2> QED
    BY <1>6, SameMaps
<1>9. \A s \in Subject : Contract!SessionLive(s, t)
                        <=> sessions[s] # NoEntry /\ ~Passed(sessions[s].expiresAt, t)
  BY ShownAsIs, SameStates DEF Contract!SessionLive
<1>10. {s \in Subject : ~Contract!SessionLive(s, t)}
         = {s \in Subject : ~(sessions[s] # NoEntry /\ ~Passed(sessions[s].expiresAt, t))}
  BY <1>9
<1>11. \E X \in SUBSET {s \in Subject : ~Contract!SessionLive(s, t)} : sessions' = without(X)
  <2> HIDE DEF without
  <2> QED
    BY <1>7, <1>10
<1> QED
  BY <1>8, <1>11, ShownAsIs DEF Contract!EvictSome

LEMMA KeysEvicted ==
  ASSUME Single, NEW t \in Nat,
         NEW K, \A k \in K : k \in Stored(tokens) => EntryExpired(tokens[k], t),
         tokens' = Drop(tokens, K), UNCHANGED sessions
  PROVE  Contract!EvictSome(t)
<1> DEFINE S == {}
<1>1. /\ sessions' = [s \in Subject |-> IF s \in S THEN NoEntry ELSE sessions[s]]
      /\ \A s \in S \cap Subject : sessions[s] = NoEntry \/ Passed(sessions[s].expiresAt, t)
  BY DEF Single, Typed, TypeOK, StoreTypeOK
<1> HIDE DEF S
<1> QED
  BY <1>1, Evicts

\* The map and the sessions are left as they are.
LEMMA NothingEvicted ==
  ASSUME Single, UNCHANGED <<tokens, sessions>>, NEW t \in Nat
  PROVE  Contract!EvictSome(t)
<1>1. tokens' = Drop(tokens, {})
  BY DEF Drop, Single, Typed, TypeOK, StoreTypeOK
<1> QED
  BY <1>1, KeysEvicted

\* The clock readings of a call are among the contract's.
LEMMA Readings ==
  ASSUME Typed, NEW p \in Proc, phase[p] # "idle"
  PROVE  /\ begun[p] \in Nat /\ now \in Nat
         /\ begun[p] \in begun[p] .. now /\ now \in begun[p] .. now
         /\ phase[p] \in {"read", "values", "matches", "match"} =>
              /\ at[p] \in Nat /\ at[p] \in begun[p] .. now
              /\ at[p] .. now \subseteq begun[p] .. now
              /\ seen[p] \in StoreView \ {NoEntry}
<1>1. now \in Nat /\ begun[p] \in 0 .. now /\ at[p] \in 0 .. now
  BY Instants DEF Typed, TypeOK
<1>2. phase[p] \in {"read", "values", "matches", "match"} =>
        begun[p] <= at[p] /\ seen[p] \in StoreView \ {NoEntry}
  BY DEF Typed, TypeOK, CallTypeOK, Kept
<1> QED
  BY <1>1, <1>2
-----------------------------------------------------------------------------
\* The three kinds of steps of the contract.

\* An MGET of the key, or of all there is.
LEMMA Observes ==
  ASSUME Single, NEW p \in Proc, phase[p] # "idle", NEW next, next # "idle", GoOn(p, next),
         Locals(p), UNCHANGED <<tokens, sessions>>, NEW view \in StoreView \ {NoEntry},
         seen' = [seen EXCEPT ![p] = view],
         Visible(req[p], view) = View(req[p], LogicalMap(tokens), sessions)
  PROVE  Contract!Next
<1>1. OthersKept(p) /\ phase'[p] = next /\ req' = req
  BY GoOnKeepsOthers DEF Single, Typed, GoOn
<1>2. Underway' = Underway /\ Underway[p] = "called"
  BY <1>1, OthersShown DEF Underway
<1>3. seen'[p] = view /\ view # NoEntry
  BY DEF Single, Typed, Shaped
<1>4. Views' = [Views EXCEPT ![p] = View(req[p], LogicalMap(tokens), sessions)]
  BY <1>1, <1>3, OthersShown
<1>5. Contract!Observe(p)
  BY <1>2, <1>4, ShownAsIs, SameCalls DEF GoOn, Contract!Observe
<1> QED
  BY <1>5 DEF Contract!Next

\* A call that answers from the keys as they are, or as it has read them.
LEMMA Reports ==
  ASSUME Single, NEW p \in Proc, phase[p] # "idle", NEW r, Return(p, r),
         Contract!EvictSome(now), NEW t \in begun[p] .. now, NEW view,
         \/ view = View(req[p], LogicalMap(tokens), sessions)
         \/ /\ seen[p] \in StoreView \ {NoEntry}
            /\ view = Visible(req[p], seen[p])
            /\ view # NoEntry,
         r \in Contract!ReadAnswers(req[p], view, t)
  PROVE  Contract!Next
<1>1. Contract!Answer(p, r) /\ Underway[p] = "called"
  BY Answers DEF Underway
<1>2. view \in ({Views[p]} \ {NoEntry}) \cup {Contract!View(req[p], LogicalMap(tokens), sessions)}
  BY SameCalls DEF Views
<1>3. Contract!Report(p)
  BY <1>1, <1>2, ShownAsIs DEF Contract!Report
<1> QED
  BY <1>3 DEF Contract!Next

\* A script in which a call takes effect.
LEMMA Performs ==
  ASSUME Single, NEW p \in Proc, phase[p] # "idle",
         NEW t \in begun[p] .. now, NEW u \in begun[p] .. now,
         \/ Contract!Save(p, req[p], t)
         \/ Contract!CompareAndSwap(p, req[p], t, u)
         \/ Contract!ConsumeState(p, req[p], t)
         \/ Contract!Delete(p, req[p])
         \/ Contract!DeleteAll(p, req[p])
         \/ Contract!SaveSession(p, req[p], t)
         \/ Contract!EnsureSession(p, req[p], t)
         \/ Contract!DeleteSession(p, req[p])
  PROVE  Contract!Next
<1>1. Underway[p] = "called"
  BY DEF Underway
<1>2. Contract!Perform(p)
  BY <1>1, ShownAsIs DEF Contract!Perform
<1> QED
  BY <1>2 DEF Contract!Next

\* What a call that reads may answer from what it observed.
LEMMA Reportable ==
  ASSUME NEW c, NEW view, NEW t, NEW R,
         LET live == {k \in DOMAIN view.entries : ~EntryExpired(view.entries[k], t)} IN
           \/ c.op = "Get" /\ R = live
           \/ c.op = "Find" /\ live \subseteq R /\ R \subseteq DOMAIN view.entries
           \/ /\ c.op = "Consume"
              /\ live \subseteq R
              /\ R \subseteq live \cup {k \in DOMAIN view.entries : IsExpired(view.entries[k].state, t)}
              /\ \A k \in live : ~Consumable(view.entries[k].state, c.kinds, t)
           \/ c.op \in {"Delete", "DeleteAll"} /\ live = {} /\ R = {}
  PROVE  Reported(R, view.entries) \in Contract!ReadAnswers(c, view, t)
<1> DEFINE live == {k \in DOMAIN view.entries : ~Contract!EntryExpired(view.entries[k], t)}
           With(K) == {Contract!Reported(live \cup L, view.entries) : L \in SUBSET K}
<1>1. live = {k \in DOMAIN view.entries : ~EntryExpired(view.entries[k], t)}
  BY SameMaps
<1>2. Reported(R, view.entries) = Contract!Reported(R, view.entries)
  BY SameCalls
<1>3. \A K : live \subseteq R /\ R \subseteq live \cup K
               => Contract!Reported(R, view.entries) \in With(K)
  <2> HIDE DEF live
  <2> SUFFICES ASSUME NEW K, live \subseteq R /\ R \subseteq live \cup K
               PROVE  Contract!Reported(R, view.entries) \in With(K)
    OBVIOUS
  <2>1. live \cup (R \cap K) = R /\ R \cap K \in SUBSET K
    OBVIOUS
  <2> QED
    BY <2>1
<1>4. CASE c.op = "Get"
  <2>1. Contract!ReadAnswers(c, view, t) = With({})
    BY <1>4 DEF Contract!ReadAnswers
  <2>2. live \subseteq R /\ R \subseteq live \cup {}
    BY <1>1, <1>4
  <2> HIDE DEF live, With
  <2> QED
    BY <1>2, <1>3, <2>1, <2>2
<1>5. CASE c.op = "Find"
  <2>1. Contract!ReadAnswers(c, view, t) = With(DOMAIN view.entries)
    BY <1>5 DEF Contract!ReadAnswers
  <2>2. live \subseteq R /\ R \subseteq live \cup DOMAIN view.entries
    BY <1>1, <1>5
  <2> HIDE DEF live, With
  <2> QED
    BY <1>2, <1>3, <2>1, <2>2
<1>6. CASE c.op = "Consume"
  <2> DEFINE gone == {k \in DOMAIN view.entries : Contract!IsExpired(view.entries[k].state, t)}
  <2>1. /\ live \subseteq R /\ R \subseteq live \cup gone
        /\ \A k \in live : ~Consumable(view.entries[k].state, c.kinds, t)
    BY <1>1, <1>6, SameStates
  <2>2. ~\E k \in live : Contract!Consumable(view.entries[k].state, c.kinds, t)
    BY <2>1, SameStates
  <2>3. Contract!ReadAnswers(c, view, t) = With(gone)
    BY <1>6, <2>2 DEF Contract!ReadAnswers
  <2> HIDE DEF live, With, gone
  <2> QED
    BY <1>2, <1>3, <2>1, <2>3
<1>7. CASE c.op \in {"Delete", "DeleteAll"}
  <2>1. live = {} /\ R = {}
    BY <1>1, <1>7
  <2>2. Contract!ReadAnswers(c, view, t) = {Contract!Done}
    BY <1>7, <2>1 DEF Contract!ReadAnswers
  <2> QED
    BY <2>1, <2>2, NothingReported, SameCalls
<1> QED
  BY <1>4, <1>5, <1>6, <1>7

\* A session is reported as it was read: missing, expired or its data; a deletion of a
\* session that is not the one read has nothing to delete.
LEMMA SessionReportable ==
  ASSUME Single, NEW c, NEW view, NEW t, NEW r,
         \/ /\ c.op = "GetSession"
            /\ r = IF view.session = NoEntry \/ Passed(view.session.expiresAt, t) THEN Done
                   ELSE [Done EXCEPT !.data = view.session.data]
         \/ /\ c.op = "DeleteSession" /\ r = Done
            /\ \/ view.session = NoEntry \/ sessions[c.subject] = NoEntry
               \/ sessions[c.subject].data # view.session.data
  PROVE  r \in Contract!ReadAnswers(c, view, t)
<1>1. CASE c.op = "GetSession"
  <2>1. Contract!ReadAnswers(c, view, t)
          = IF view.session = NoEntry THEN {Contract!Done}
            ELSE IF Contract!Passed(view.session.expiresAt, t) THEN {Contract!Done}
            ELSE {[Contract!Done EXCEPT !.data = view.session.data]}
    BY <1>1 DEF Contract!ReadAnswers
  <2> QED
    BY <1>1, <2>1, SameCalls, SameStates
<1>2. CASE c.op = "DeleteSession"
  <2>1. Contract!ReadAnswers(c, view, t)
          = IF view.session = NoEntry \/ sessions[c.subject] = NoEntry THEN {Contract!Done}
            ELSE IF sessions[c.subject].data # view.session.data THEN {Contract!Done} ELSE {}
    BY <1>2, ShownAsIs DEF Contract!ReadAnswers
  <2> QED
    BY <1>2, <2>1, SameCalls
<1> QED
  BY <1>1, <1>2
-----------------------------------------------------------------------------
\* Time passes and the keys whose instant has come go; calls arrive alike; a refusal
\* changes nothing.
LEMMA TickMaps ==
  ASSUME Single, Tick
  PROVE  Contract!Next
<1> DEFINE K == {k \in Stored(tokens) : Passed(tokens[k].expiresAt, now')}
           S == {s \in Subject : sessions[s] # NoEntry /\ Passed(sessions[s].expiresAt, now')}
<1>1. now' \in Nat
  BY Instants DEF Tick, Single, Typed, TypeOK
<1>2. tokens' = Drop(tokens, K) /\ \A k \in K : EntryExpired(tokens[k], now')
  BY DEF Tick, EntryExpired
<1>3. sessions' = [s \in Subject |-> IF s \in S THEN NoEntry ELSE sessions[s]]
  <2>1. \A s \in Subject : sessions'[s] = IF s \in S THEN NoEntry ELSE sessions[s]
    BY DEF Tick
  <2>2. sessions' = [s \in Subject |-> sessions'[s]]
    BY DEF Tick
  <2> HIDE DEF S
  <2> QED
    BY <2>1, <2>2
<1>4. \A s \in S \cap Subject : sessions[s] = NoEntry \/ Passed(sessions[s].expiresAt, now')
  OBVIOUS
<1>5. Contract!EvictSome(now')
  <2>1. PICK t \in Nat : t = now'
    BY <1>1
  <2>2. Contract!EvictSome(t)
    <3> HIDE DEF K, S
    <3> QED
      BY <1>2, <1>3, <1>4, <2>1, Evicts
  <2> QED
    BY <2>1, <2>2 DEF Contract!EvictSome
<1>6. Underway' = Underway /\ Views' = Views
  BY DEF Tick, Underway, Views
<1>7. Contract!Tick
  BY <1>5, <1>6, ShownAsIs DEF Tick, Contract!Tick
<1> QED
  BY <1>7 DEF Contract!Next

LEMMA BeginMaps ==
  ASSUME Single, NEW p \in Proc, Begin(p)
  PROVE  Contract!Next
<1>1. PICK c \in NextCalls(res[p]) :
        /\ req' = [req EXCEPT ![p] = c]
        /\ phase' = [phase EXCEPT ![p] = "called"]
        /\ begun' = [begun EXCEPT ![p] = now]
  BY DEF Begin
<1>2. phase[p] = "idle" /\ UNCHANGED <<now, tokens, sessions, seen, at, attempt, todo, found, res>>
  BY DEF Begin
<1>3. OthersKept(p) /\ phase'[p] = "called"
  BY <1>1, <1>2 DEF OthersKept, Single, Typed, Shaped
<1>4. Underway' = [Underway EXCEPT ![p] = "called"] /\ Underway[p] = "idle"
  BY <1>2, <1>3, OthersShown DEF Underway
<1>5. Views' = Views
  <2>1. seen[p] = NoEntry
    BY <1>2 DEF Single, Typed, TypeOK, CallTypeOK
  <2>2. \A q \in Proc : Views'[q] = Views[q]
    BY <1>2, <1>3, <2>1 DEF Views, OthersKept
  <2> QED
    BY <2>2 DEF Views
<1>6. c \in Contract!NextCalls(res[p])
  BY SameCalls
<1>7. Contract!Begin(p)
  BY <1>1, <1>2, <1>4, <1>5, <1>6, ShownAsIs DEF Contract!Begin
<1> QED
  BY <1>7 DEF Contract!Next

LEMMA RefuseMaps ==
  ASSUME Single, NEW p \in Proc, phase[p] # "idle", Return(p, Refused),
         UNCHANGED <<tokens, sessions>>
  PROVE  Contract!Next
<1>1. Contract!Answer(p, Refused) /\ Contract!Refused = Refused /\ Underway[p] = "called"
  BY Answers, SameCalls DEF Underway
<1>2. Contract!Refuse(p)
  BY <1>1, ShownAsIs DEF Contract!Refuse
<1> QED
  BY <1>2 DEF Contract!Next

\* A script that found the key changed: read again, or give up.
LEMMA RetryMaps ==
  ASSUME Single, NEW p \in Proc, phase[p] # "idle", Retry(p), UNCHANGED <<tokens, sessions>>
  PROVE  Contract!Next \/ UNCHANGED Contract!vars
<1>1. CASE Return(p, Refused)
  BY <1>1, RefuseMaps
<1>2. CASE GoOn(p, "called") /\ UNCHANGED <<seen, at, todo, found>>
           /\ attempt' = [attempt EXCEPT ![p] = @ + 1]
  <2>1. Locals(p)
    BY <1>2 DEF Locals
  <2> QED
    BY <1>2, <2>1, Stutters
<1> QED
  BY <1>1, <1>2 DEF Retry

-----------------------------------------------------------------------------
\* The operations on one token.

\* What a call on one token has read, when its script runs.
LEMMA SnapTyped ==
  ASSUME Typed, NEW p \in Proc, In(p, KeyOps, "read")
  PROVE  /\ req[p] \in Call /\ req[p].key \in Token
         /\ DOMAIN seen[p].entries \subseteq {req[p].key}
         /\ req[p].op # "Save" => DOMAIN seen[p].entries = {req[p].key}
         /\ \A k \in DOMAIN seen[p].entries :
              /\ k = req[p].key
              /\ seen[p].entries[k] \in Entry
              /\ Snap(p, k) \in State
              /\ ~Passed(seen[p].entries[k].expiresAt, at[p])
         /\ /\ Visible(req[p], seen[p]).session = seen[p].session
            /\ Visible(req[p], seen[p]) # NoEntry
            /\ DOMAIN Visible(req[p], seen[p]).entries = DOMAIN seen[p].entries
            /\ \A k \in DOMAIN seen[p].entries :
                 /\ Visible(req[p], seen[p]).entries[k].state = Snap(p, k)
                 /\ \A t \in Nat : EntryExpired(Visible(req[p], seen[p]).entries[k], t)
                      <=> EntryExpired(seen[p].entries[k], t)
<1>1. req[p] \in Call /\ req[p].key \in Token /\ req[p].op \notin {"Find", "DeleteAll"}
  BY FieldsTyped DEF Typed, TypeOK, CallTypeOK, In, KeyOps
<1>2. /\ DOMAIN seen[p].entries \subseteq {req[p].key}
      /\ req[p].op # "Save" => DOMAIN seen[p].entries = {req[p].key}
      /\ \A k \in DOMAIN seen[p].entries : ~Passed(seen[p].entries[k].expiresAt, at[p])
  BY DEF Typed, Kept
<1>3. seen[p] \in StoreView
  BY Readings DEF In
<1>4. \A k \in DOMAIN seen[p].entries : seen[p].entries[k] \in Entry /\ Snap(p, k) \in State
  BY <1>3, SeenTyped DEF Entry, Snap
<1>5. /\ Visible(req[p], seen[p]).session = seen[p].session
      /\ Visible(req[p], seen[p]) # NoEntry
      /\ DOMAIN Visible(req[p], seen[p]).entries
           = {k \in DOMAIN seen[p].entries : req[p].op \in {"Find", "DeleteAll"} =>
                /\ seen[p].entries[k].state.subject = req[p].subject
                /\ MatchKind(seen[p].entries[k].state.kind, req[p].kinds)}
      /\ \A k \in DOMAIN Visible(req[p], seen[p]).entries :
           Visible(req[p], seen[p]).entries[k] = Logical(seen[p].entries[k])
  BY <1>3, VisibleTyped
<1>6. DOMAIN Visible(req[p], seen[p]).entries = DOMAIN seen[p].entries
  BY <1>1, <1>5
<1>7. \A k \in DOMAIN seen[p].entries :
        /\ Visible(req[p], seen[p]).entries[k].state = Snap(p, k)
        /\ \A t \in Nat : EntryExpired(Visible(req[p], seen[p]).entries[k], t)
             <=> EntryExpired(seen[p].entries[k], t)
  BY <1>4, <1>5, <1>6, LogicalEntry DEF Snap
<1> QED
  BY <1>1, <1>2, <1>4, <1>5, <1>6, <1>7

\* A key that is missing is the answer.
LEMMA MissingMaps ==
  ASSUME Single, NEW p \in Proc, phase[p] # "idle", Return(p, Done),
         UNCHANGED <<tokens, sessions>>,
         \/ req[p].op \in {"Get", "Consume", "Delete"} /\ req[p].key \notin Stored(tokens)
         \/ /\ req[p].op \in {"Find", "DeleteAll"}
            /\ OfSubject(tokens, req[p].subject, req[p].kinds) = {}
  PROVE  Contract!Next
<1> DEFINE map == LogicalMap(tokens)
           view == View(req[p], map, sessions)
<1>1. req[p] \in Call /\ tokens \in [Token -> Entry \cup {NoEntry}]
  BY DEF Single, Typed, TypeOK, CallTypeOK, StoreTypeOK
<1>2. /\ Stored(map) = Stored(tokens)
      /\ \A s, kinds : OfSubject(map, s, kinds) = OfSubject(tokens, s, kinds)
  BY <1>1, LogicalTyped
<1>3. view = [entries |-> [k \in {} |-> map[k]],
              session |-> NoEntry]
  <2>1. CASE req[p].op \in {"Get", "Consume", "Delete"}
    <3>1. "key" \in DOMAIN req[p]
      BY <1>1, <2>1, FieldsTyped
    <3> HIDE DEF map
    <3>2. Stored(map) \cap {req[p].key} = {}
      BY <1>2, <2>1
    <3> QED
      BY <2>1, <3>1, <3>2 DEF View
  <2>2. CASE req[p].op \in {"Find", "DeleteAll"}
    <3> HIDE DEF map
    <3>1. OfSubject(map, req[p].subject, req[p].kinds) = {}
      BY <1>2, <2>2
    <3> QED
      BY <2>2, <3>1 DEF View
  <2> QED
    BY <2>1, <2>2
<1>4. DOMAIN view.entries = {}
  BY <1>3
<1>5. Done \in Contract!ReadAnswers(req[p], view, now)
  <2> HIDE DEF view
  <2>1. Reported({}, view.entries) \in Contract!ReadAnswers(req[p], view, now)
    BY <1>4, Reportable
  <2> QED
    BY <2>1, NothingReported
<1>6. now \in begun[p] .. now /\ now \in Nat
  BY Readings DEF Single
<1>7. Contract!EvictSome(now)
  BY <1>6, NothingEvicted
<1> HIDE DEF view
<1> QED
  BY <1>5, <1>6, <1>7, Reports DEF view
LEMMA ReadTokenMaps ==
  ASSUME Single, NEW p \in Proc, ReadToken(p)
  PROVE  Contract!Next
<1> DEFINE k == req[p].key
<1>1. /\ phase[p] = "called" /\ req[p].op \in KeyOps /\ UNCHANGED <<tokens, sessions>>
      /\ req[p] \in Call
  BY DEF ReadToken, In, KeyOps, Unchanged, Single, Typed, TypeOK, CallTypeOK
<1>2. CASE req[p].op \in {"Get", "Consume", "Delete"} /\ k \notin Stored(tokens)
  BY <1>1, <1>2, MissingMaps DEF ReadToken
<1>3. CASE req[p].op = "CAS" /\ (k \notin Stored(tokens) \/ tokens[k].state # req[p].expected)
  <2>1. Acceptable(req[p].state) /\ Return(p, Failed)
    BY <1>3 DEF ReadToken
  <2>2. Contract!Answer(p, Contract!Failed)
    BY <2>1, Answers, SameCalls
  <2>3. ~Matches(LogicalMap(tokens), k, req[p].expected, now)
    <3>1. tokens \in [Token -> Entry \cup {NoEntry}]
      BY DEF Single, Typed, TypeOK, StoreTypeOK
    <3> QED
      BY <1>3, <3>1, LogicalTyped DEF Matches, Live
  <2>4. Contract!CompareAndSwap(p, req[p], now, now)
    BY <1>1, <1>3, <2>1, <2>2, <2>3, ShownAsIs, SameMaps, SameStates
       DEF Contract!CompareAndSwap
  <2>5. now \in begun[p] .. now
    BY <1>1, Readings DEF Single
  <2> QED
    BY <1>1, <2>4, <2>5, Performs
<1>4. CASE /\ ~(req[p].op \in {"Get", "Consume", "Delete"} /\ k \notin Stored(tokens))
           /\ ~(req[p].op = "CAS" /\ (k \notin Stored(tokens) \/ tokens[k].state # req[p].expected))
  <2>1. Fetch(p, {k}) /\ GoOn(p, "read") /\ UNCHANGED <<attempt, todo, found>>
    BY <1>4 DEF ReadToken
  <2>2. Locals(p) /\ seen' = [seen EXCEPT ![p] = Fetched({k})]
    BY <2>1 DEF Fetch, Locals
  <2>3. Visible(req[p], Fetched({k})) = View(req[p], LogicalMap(tokens), sessions)
    BY <1>1, FetchedView DEF Single
  <2>4. Fetched({k}) \in StoreView \ {NoEntry}
    BY FetchedTyped DEF Single, Typed, TypeOK
  <2> QED
    BY <1>1, <2>1, <2>2, <2>3, <2>4, Observes
<1> QED
  BY <1>2, <1>3, <1>4

\* saveScript puts what the contract puts, by the clock of the script.
LEMMA ScriptPuts ==
  ASSUME Typed, NEW p \in Proc, In(p, {"Save", "CAS"}, "read"), NEW t \in at[p] .. now,
         SaveScript(p, t)
  PROVE  LogicalMap(tokens') = Put(LogicalMap(tokens), req[p].key, req[p].state,
                                   EffectiveExpiresAt(req[p].state, now, req[p].ttl))
<1> DEFINE k == req[p].key
           d == KeyDeadline(req[p].state, t, req[p].ttl)
<1>1. /\ req[p] \in Call /\ k \in Token /\ req[p].state \in State /\ req[p].ttl \in Nat
      /\ tokens \in [Token -> Entry \cup {NoEntry}]
  BY FieldsTyped DEF Typed, TypeOK, StoreTypeOK, CallTypeOK, In
<1>2. now \in Nat /\ t \in 0 .. now
  BY Instants DEF Typed, TypeOK
<1>3. d \in Deadline
  BY <1>1, <1>2, KeyDeadlineTyped
<1>4. Earlier(d, req[p].state.expiresAt) = EffectiveExpiresAt(req[p].state, now, req[p].ttl)
  BY <1>1, <1>2, KeyDeadlineCounts
<1>5. tokens' = Put(tokens, k, req[p].state, d)
  BY DEF SaveScript
<1> HIDE DEF d
<1> QED
  BY <1>1, <1>3, <1>4, <1>5, LogicalPut

LEMMA SaveMaps ==
  ASSUME Single, NEW p \in Proc, SaveTokenState(p)
  PROVE  Contract!Next \/ UNCHANGED Contract!vars
<1>1. phase[p] = "read" /\ req[p].op = "Save" /\ UNCHANGED sessions
  BY DEF SaveTokenState, In
<1>2. CASE StillThat(p, req[p].key)
  <2>1. PICK t \in at[p] .. now : SaveScript(p, t) /\ Return(p, Done)
    BY <1>2 DEF SaveTokenState
  <2>2. Contract!Answer(p, Contract!Done)
    BY <2>1, Answers, SameCalls
  <2>3. LogicalMap(tokens') = Put(LogicalMap(tokens), req[p].key, req[p].state,
                                  EffectiveExpiresAt(req[p].state, now, req[p].ttl))
    BY <1>1, <2>1, ScriptPuts DEF Single, In
  <2>4. Acceptable(req[p].state)
    BY <1>1 DEF Single, Typed, Kept, In, KeyOps
  <2>5. Contract!Save(p, req[p], now)
    BY <1>1, <2>2, <2>3, <2>4, ShownAsIs, SameStates, SameMaps DEF Contract!Save
  <2>6. now \in begun[p] .. now
    BY <1>1, Readings DEF Single
  <2> QED
    BY <1>1, <2>5, <2>6, Performs
<1>3. CASE ~StillThat(p, req[p].key)
  BY <1>1, <1>3, RetryMaps DEF SaveTokenState
<1> QED
  BY <1>2, <1>3

\* The comparison in the script decides, and so does the clock read before it.
LEMMA CompareMaps ==
  ASSUME Single, NEW p \in Proc, CompareAndSwapTokenState(p)
  PROVE  Contract!Next
<1> DEFINE k == req[p].key
           map == LogicalMap(tokens)
<1>1. phase[p] = "read" /\ req[p].op = "CAS" /\ UNCHANGED sessions /\ In(p, KeyOps, "read")
  BY DEF CompareAndSwapTokenState, In, KeyOps
<1>2. PICK t \in at[p] .. now, u \in at[p] .. now :
        IF ~IsExpired(Snap(p, k), t) /\ StillThat(p, k)
          THEN SaveScript(p, u) /\ Return(p, Done)
          ELSE UNCHANGED <<tokens, indexes>> /\ Return(p, Failed)
  BY DEF CompareAndSwapTokenState
<1>3. /\ now \in Nat /\ t \in Nat /\ t <= now /\ now \in begun[p] .. now /\ t \in begun[p] .. now
  BY <1>1, Readings DEF Single
<1>4. /\ k \in DOMAIN seen[p].entries /\ k \in Token
      /\ Snap(p, k) = req[p].expected /\ Acceptable(req[p].state)
  BY <1>1, SnapTyped DEF Single, Typed, Kept
<1>5. /\ tokens \in [Token -> Entry \cup {NoEntry}]
      /\ k \in Stored(tokens) => tokens[k] \in Entry /\ ~Passed(tokens[k].expiresAt, now)
  BY DEF Single, Typed, TypeOK, StoreTypeOK, Stored
<1>6. Matches(map, k, req[p].expected, t)
        <=> ~IsExpired(Snap(p, k), t) /\ StillThat(p, k)
  <2>1. k \in Stored(tokens) => ~Passed(tokens[k].expiresAt, t)
    BY <1>3, <1>5, ExpiredStays DEF Entry
  <2>2. k \in Stored(tokens) => map[k].state = tokens[k].state
    BY <1>5, LogicalTyped
  <2>3. Live(map, t) = Live(tokens, t)
    BY <1>3, <1>5, LogicalTyped
  <2> HIDE DEF map
  <2> QED
    BY <1>4, <2>1, <2>2, <2>3 DEF Matches, Live, EntryExpired, StillThat
<1>7. CASE Matches(map, k, req[p].expected, t)
  <2>1. SaveScript(p, u) /\ Return(p, Done)
    BY <1>2, <1>6, <1>7
  <2>2. Contract!Answer(p, Contract!Done)
    BY <2>1, Answers, SameCalls
  <2>3. LogicalMap(tokens') = Put(map, k, req[p].state,
                                  EffectiveExpiresAt(req[p].state, now, req[p].ttl))
    BY <1>1, <2>1, ScriptPuts DEF Single, In
  <2>4. Contract!CompareAndSwap(p, req[p], now, t)
    BY <1>1, <1>4, <1>7, <2>2, <2>3, ShownAsIs, SameStates, SameMaps
       DEF Contract!CompareAndSwap
  <2> QED
    BY <1>1, <1>3, <2>4, Performs
<1>8. CASE ~Matches(map, k, req[p].expected, t)
  <2>1. UNCHANGED tokens /\ Return(p, Failed)
    BY <1>2, <1>6, <1>8
  <2>2. Contract!Answer(p, Contract!Failed)
    BY <2>1, Answers, SameCalls
  <2>3. Contract!CompareAndSwap(p, req[p], now, t)
    BY <1>1, <1>4, <1>8, <2>1, <2>2, ShownAsIs, SameStates, SameMaps
       DEF Contract!CompareAndSwap
  <2> QED
    BY <1>1, <1>3, <2>3, Performs
<1> QED
  BY <1>7, <1>8

\* A deletion by snapshot evicts what the snapshot says has expired.
LEMMA SnapshotEvicts ==
  ASSUME Single, NEW p, NEW k, k \in DOMAIN seen[p].entries, DeleteSnapshot(p, k),
         UNCHANGED sessions, now \in Nat, IsExpired(Snap(p, k), now)
  PROVE  Contract!EvictSome(now)
<1>1. CASE StillThat(p, k)
  <2>1. tokens' = Drop(tokens, {k}) /\ tokens[k].state = Snap(p, k)
    BY <1>1 DEF DeleteSnapshot, StillThat
  <2>2. \A j \in {k} : j \in Stored(tokens) => EntryExpired(tokens[j], now)
    BY <2>1 DEF EntryExpired
  <2> QED
    BY <2>1, <2>2, KeysEvicted
<1>2. CASE ~StillThat(p, k)
  BY <1>2, NothingEvicted DEF DeleteSnapshot
<1> QED
  BY <1>1, <1>2
\* An answer from what was read of one key: nothing, when it has expired since; the
\* state, when it had not.
LEMMA KeptAnswers ==
  ASSUME Typed, NEW p \in Proc, In(p, {"Get", "Consume"}, "read"), NEW t \in at[p] .. now
  PROVE  LET k == req[p].key
             answers(u) == Contract!ReadAnswers(req[p], Visible(req[p], seen[p]), u)
         IN  /\ IsExpired(Snap(p, k), t) => Done \in answers(t)
             /\ ~IsExpired(Snap(p, k), t) /\ req[p].op = "Get"
                  => Reported({k}, seen[p].entries) \in answers(at[p])
             /\ IsExpired(Snap(p, k), t) /\ req[p].op = "Consume"
                  => Reported({k}, seen[p].entries) \in answers(t)
             /\ /\ ~IsExpired(Snap(p, k), t)
                /\ req[p].op = "Consume" /\ ~Consumable(Snap(p, k), req[p].kinds, t)
                => Reported({k}, seen[p].entries) \in answers(at[p])
<1> DEFINE k == req[p].key
           view == Visible(req[p], seen[p])
           live(u) == {j \in DOMAIN view.entries : ~EntryExpired(view.entries[j], u)}
<1>1. In(p, KeyOps, "read")
  BY DEF In, KeyOps
<1>2. /\ DOMAIN view.entries = {k} /\ DOMAIN seen[p].entries = {k}
      /\ seen[p].entries[k] \in Entry /\ Snap(p, k) \in State
      /\ ~Passed(seen[p].entries[k].expiresAt, at[p])
      /\ view.entries[k].state = Snap(p, k)
      /\ \A u \in Nat : EntryExpired(view.entries[k], u) <=> EntryExpired(seen[p].entries[k], u)
  <2>1. req[p].op # "Save"
    BY DEF In
  <2> QED
    BY <1>1, <2>1, SnapTyped
<1>3. at[p] \in Nat /\ t \in Nat /\ at[p] <= t
  BY Readings DEF In
<1>4. Reported({k}, view.entries) = Reported({k}, seen[p].entries)
  <2>1. view.entries[k].state = seen[p].entries[k].state
    BY <1>2 DEF Snap
  <2> QED
    BY <2>1 DEF Reported
<1>5. IsExpired(Snap(p, k), t) => live(t) = {}
  <2>1. IsExpired(Snap(p, k), t) => EntryExpired(view.entries[k], t)
    BY <1>2, <1>3 DEF EntryExpired, Snap
  <2> HIDE DEF view, k
  <2> QED
    BY <1>2, <2>1
<1>6. ~IsExpired(Snap(p, k), t) => live(at[p]) = {k}
  <2>1. ~IsExpired(Snap(p, k), t) => ~IsExpired(Snap(p, k), at[p])
    BY <1>2, <1>3, ExpiredStays DEF IsExpired, State
  <2>2. ~IsExpired(Snap(p, k), t) => ~EntryExpired(view.entries[k], at[p])
    BY <1>2, <1>3, <2>1 DEF EntryExpired, Snap
  <2> HIDE DEF view, k
  <2> QED
    BY <1>2, <2>2
<1>7. ASSUME IsExpired(Snap(p, k), t)
      PROVE  /\ Done \in Contract!ReadAnswers(req[p], view, t)
             /\ req[p].op = "Consume"
                  => Reported({k}, seen[p].entries) \in Contract!ReadAnswers(req[p], view, t)
  <2>1. live(t) = {} /\ req[p].op \in {"Get", "Consume"}
    BY <1>5, <1>7 DEF In
  <2>2. {k} \subseteq {j \in DOMAIN view.entries : IsExpired(view.entries[j].state, t)}
    BY <1>2, <1>7
  <2> HIDE DEF view, k
  <2>3. Reported({}, view.entries) \in Contract!ReadAnswers(req[p], view, t)
    BY <2>1, Reportable
  <2>4. req[p].op = "Consume"
          => Reported({k}, view.entries) \in Contract!ReadAnswers(req[p], view, t)
    BY <2>1, <2>2, Reportable
  <2> QED
    BY <1>4, <2>3, <2>4, NothingReported
<1>8. ASSUME ~IsExpired(Snap(p, k), t),
             req[p].op = "Consume" => ~Consumable(Snap(p, k), req[p].kinds, t)
      PROVE  Reported({k}, seen[p].entries) \in Contract!ReadAnswers(req[p], view, at[p])
  <2>1. live(at[p]) = {k} /\ req[p].op \in {"Get", "Consume"}
    BY <1>6, <1>8 DEF In
  <2>2. req[p].op = "Consume" => ~Consumable(view.entries[k].state, req[p].kinds, at[p])
    BY <1>2, <1>8 DEF Consumable, IsActive
  <2> HIDE DEF view, k
  <2>3. Reported({k}, view.entries) \in Contract!ReadAnswers(req[p], view, at[p])
    BY <2>1, <2>2, Reportable
  <2> QED
    BY <1>4, <2>3
<1> QED
  BY <1>7, <1>8

LEMMA GetMaps ==
  ASSUME Single, NEW p \in Proc, GetTokenState(p)
  PROVE  Contract!Next
<1> DEFINE k == req[p].key
           view == Visible(req[p], seen[p])
<1>1. /\ phase[p] = "read" /\ req[p].op = "Get" /\ UNCHANGED sessions
      /\ In(p, KeyOps, "read") /\ In(p, {"Get", "Consume"}, "read") /\ Typed
  BY DEF GetTokenState, In, KeyOps, Single
<1>2. /\ now \in Nat /\ now \in at[p] .. now /\ now \in begun[p] .. now
      /\ at[p] \in begun[p] .. now /\ seen[p] \in StoreView \ {NoEntry}
  BY <1>1, Readings
<1>3. k \in DOMAIN seen[p].entries /\ view # NoEntry
  BY <1>1, SnapTyped
<1>4. CASE IsExpired(Snap(p, k), now)
  <2>1. DeleteSnapshot(p, k) /\ Return(p, Done)
    BY <1>4 DEF GetTokenState
  <2>2. Contract!EvictSome(now)
    BY <1>1, <1>2, <1>3, <1>4, <2>1, SnapshotEvicts
  <2>3. Done \in Contract!ReadAnswers(req[p], view, now)
    BY <1>1, <1>2, <1>4, KeptAnswers
  <2> QED
    BY <1>1, <1>2, <1>3, <2>1, <2>2, <2>3, Reports
<1>5. CASE ~IsExpired(Snap(p, k), now)
  <2>1. UNCHANGED tokens /\ Return(p, Reported({k}, seen[p].entries))
    BY <1>5 DEF GetTokenState
  <2>2. Contract!EvictSome(now)
    BY <1>1, <1>2, <2>1, NothingEvicted
  <2>3. Reported({k}, seen[p].entries) \in Contract!ReadAnswers(req[p], view, at[p])
    BY <1>1, <1>2, <1>5, KeptAnswers
  <2> QED
    BY <1>1, <1>2, <1>3, <2>1, <2>2, <2>3, Reports
<1> QED
  BY <1>4, <1>5

\* consumeScript consumes what was read, if it is there still.
LEMMA ConsumeMaps ==
  ASSUME Single, NEW p \in Proc, ConsumeTokenState(p)
  PROVE  Contract!Next \/ UNCHANGED Contract!vars
<1> DEFINE k == req[p].key
           view == Visible(req[p], seen[p])
           map == LogicalMap(tokens)
<1>1. /\ phase[p] = "read" /\ req[p].op = "Consume" /\ UNCHANGED sessions
      /\ In(p, KeyOps, "read") /\ In(p, {"Get", "Consume"}, "read") /\ Typed
  BY DEF ConsumeTokenState, In, KeyOps, Single
<1>2. PICK t \in at[p] .. now, u \in at[p] .. now :
        /\ t <= u
        /\ \/ /\ IsExpired(Snap(p, k), t)
              /\ UNCHANGED tokens
              /\ Return(p, Done)
           \/ /\ ~IsExpired(Snap(p, k), t)
              /\ ~Consumable(Snap(p, k), req[p].kinds, u)
              /\ UNCHANGED tokens
              /\ Return(p, Reported({k}, seen[p].entries))
           \/ /\ Consumable(Snap(p, k), req[p].kinds, u)
              /\ ConsumeScript(p)
  BY DEF ConsumeTokenState
<1>3. /\ now \in Nat /\ at[p] \in begun[p] .. now /\ t \in begun[p] .. now
      /\ u \in begun[p] .. now /\ u \in Nat /\ u <= now
      /\ seen[p] \in StoreView \ {NoEntry}
  BY <1>1, Readings
<1>4. k \in DOMAIN seen[p].entries /\ k \in Token /\ view # NoEntry
  BY <1>1, SnapTyped
<1>5. UNCHANGED tokens => Contract!EvictSome(now)
  BY <1>1, <1>3, NothingEvicted
<1>6. CASE IsExpired(Snap(p, k), t) /\ UNCHANGED tokens /\ Return(p, Done)
  <2>1. Done \in Contract!ReadAnswers(req[p], view, t)
    BY <1>1, <1>6, KeptAnswers
  <2> QED
    BY <1>1, <1>3, <1>4, <1>5, <1>6, <2>1, Reports
<1>7. CASE /\ ~Consumable(Snap(p, k), req[p].kinds, u)
           /\ UNCHANGED tokens
           /\ Return(p, Reported({k}, seen[p].entries))
  <2>1. \E v \in begun[p] .. now :
          Reported({k}, seen[p].entries) \in Contract!ReadAnswers(req[p], view, v)
    BY <1>1, <1>3, <1>7, KeptAnswers
  <2> QED
    BY <1>1, <1>3, <1>4, <1>5, <1>7, <2>1, Reports
<1>8. CASE Consumable(Snap(p, k), req[p].kinds, u) /\ ConsumeScript(p) /\ ~StillThat(p, k)
  <2>1. UNCHANGED tokens /\ Retry(p)
    BY <1>8 DEF ConsumeScript
  <2> QED
    BY <1>1, <2>1, RetryMaps
<1>9. CASE Consumable(Snap(p, k), req[p].kinds, u) /\ ConsumeScript(p) /\ StillThat(p, k)
  <2>1. /\ k \in Stored(tokens) /\ tokens[k].state = Snap(p, k)
        /\ tokens' = Rewrite(tokens, k, MarkConsumed(tokens[k].state))
        /\ Return(p, Reported({k}, seen[p].entries))
    BY <1>4, <1>9 DEF ConsumeScript, StillThat
  <2>2. /\ tokens \in [Token -> Entry \cup {NoEntry}]
        /\ tokens[k] \in Entry /\ ~Passed(tokens[k].expiresAt, now)
    BY <2>1 DEF Typed, Single, TypeOK, StoreTypeOK, Stored
  <2>3. map[k].state = Snap(p, k) /\ Live(map, u) = Live(tokens, u)
    BY <1>3, <2>1, <2>2, LogicalTyped
  <2>4. k \in Live(map, u)
    <3>1. ~Passed(tokens[k].expiresAt, u)
      BY <1>3, <2>2, ExpiredStays DEF Entry
    <3> QED
      BY <1>9, <2>1, <2>3, <3>1 DEF Live, EntryExpired, Consumable, IsActive
  <2>5. LogicalMap(tokens') = Consume(map, k, req[p].kinds, u)
    <3>1. LogicalMap(tokens') = Rewrite(map, k, MarkConsumed(tokens[k].state))
      BY <2>1, <2>2, LogicalRewrite
    <3> HIDE DEF map
    <3> QED
      BY <1>9, <2>1, <2>3, <3>1 DEF Consume
  <2>6. Contract!Answer(p, Contract!Reported({k}, map))
    <3>1. Reported({k}, seen[p].entries) = Contract!Reported({k}, map)
      <4>1. map[k].state = seen[p].entries[k].state
        BY <2>3 DEF Snap
      <4> HIDE DEF map
      <4>2. Reported({k}, map) = Reported({k}, seen[p].entries)
        BY <4>1 DEF Reported
      <4> QED
        BY <4>2, SameCalls
    <3> HIDE DEF map, k
    <3> QED
      BY <2>1, <3>1, Answers
  <2>7. Contract!ConsumeState(p, req[p], u)
    <3> HIDE DEF map
    <3> QED
      BY <1>1, <2>4, <2>5, <2>6, ShownAsIs, SameMaps DEF Contract!ConsumeState, map
  <2> QED
    BY <1>1, <1>3, <2>7, Performs
<1> QED
  BY <1>2, <1>6, <1>7, <1>8, <1>9

LEMMA DeleteMaps ==
  ASSUME Single, NEW p \in Proc, DeleteTokenState(p)
  PROVE  Contract!Next
<1> DEFINE k == req[p].key
<1>1. /\ phase[p] = "read" /\ req[p].op = "Delete" /\ UNCHANGED sessions
      /\ DeleteSnapshot(p, k) /\ Return(p, IF StillThat(p, k) THEN Done ELSE Refused)
  BY DEF DeleteTokenState, In
<1>2. CASE StillThat(p, k)
  <2>1. LogicalMap(tokens') = Drop(LogicalMap(tokens), {k})
    BY <1>1, <1>2, LogicalDrop DEF DeleteSnapshot
  <2>2. Contract!Answer(p, Contract!Done)
    BY <1>1, <1>2, Answers, SameCalls
  <2>3. Contract!Delete(p, req[p])
    BY <1>1, <2>1, <2>2, ShownAsIs, SameMaps DEF Contract!Delete
  <2>4. now \in begun[p] .. now
    BY <1>1, Readings DEF Single
  <2> QED
    BY <1>1, <2>3, <2>4, Performs
<1>3. CASE ~StillThat(p, k)
  BY <1>1, <1>3, RefuseMaps DEF DeleteSnapshot
<1> QED
  BY <1>2, <1>3
-----------------------------------------------------------------------------
\* The operations by subject, when there is one token.

\* No members, no tokens of the subject (the index lists every stored token).
LEMMA MembersMap ==
  ASSUME Single, Base, NEW p \in Proc, FindMembers(p)
  PROVE  Contract!Next \/ UNCHANGED Contract!vars
<1>1. /\ phase[p] = "called" /\ req[p].op \in {"Find", "DeleteAll"}
      /\ UNCHANGED <<tokens, sessions>>
  BY DEF FindMembers, In, Unchanged
<1>2. CASE indexes[req[p].subject] = {}
  <2>1. Return(p, Done)
    BY <1>2 DEF FindMembers
  <2>2. OfSubject(tokens, req[p].subject, req[p].kinds) = {}
    BY <1>2 DEF OfSubject, Base, IndexCovers
  <2> QED
    BY <1>1, <2>1, <2>2, MissingMaps
<1>3. CASE indexes[req[p].subject] # {}
  <2>1. GoOn(p, "members") /\ Locals(p) /\ UNCHANGED seen
    BY <1>3 DEF FindMembers, Locals
  <2> QED
    BY <1>1, <2>1, Stutters
<1> QED
  BY <1>2, <1>3

LEMMA ValuesMap ==
  ASSUME Single, NEW p \in Proc, FindValues(p)
  PROVE  Contract!Next
<1>1. /\ phase[p] = "members" /\ req[p].op \in {"Find", "DeleteAll"}
      /\ UNCHANGED <<tokens, sessions>> /\ GoOn(p, "values")
      /\ Fetch(p, todo[p]) /\ UNCHANGED <<attempt, todo, found>>
  BY DEF FindValues, In, Unchanged
<1>2. Locals(p) /\ seen' = [seen EXCEPT ![p] = Fetched(todo[p])]
  BY <1>1 DEF Fetch, Locals
<1>3. req[p] \in Call /\ todo[p] \subseteq inUse /\ todo[p] # {} /\ Stored(tokens) \subseteq inUse
  BY <1>1 DEF Single, Typed, TypeOK, CallTypeOK, StoreTypeOK, Walking
<1>4. Stored(tokens) \subseteq todo[p]
  BY <1>3, Alone DEF Single
<1>5. Visible(req[p], Fetched(todo[p])) = View(req[p], LogicalMap(tokens), sessions)
  BY <1>1, <1>3, <1>4, FetchedView DEF Single
<1>6. Fetched(todo[p]) \in StoreView \ {NoEntry}
  BY FetchedTyped DEF Single, Typed, TypeOK
<1> QED
  BY <1>1, <1>2, <1>5, <1>6, Observes

\* The walk over the only member ends in an answer, or goes on to delete it.
LEMMA WalkMaps ==
  ASSUME Single, NEW p \in Proc, In(p, {"Find", "DeleteAll"}, "values"), NEW k \in todo[p],
         NEW kept, kept \in {{}, {k}}, Walk(p, k, kept), Contract!EvictSome(now),
         kept = {k} => k \in DOMAIN seen[p].entries /\ UNCHANGED <<tokens, sessions>>,
         kept = {} => k \notin DOMAIN seen[p].entries \/ IsExpired(Snap(p, k), now)
  PROVE  Contract!Next \/ UNCHANGED Contract!vars
<1> DEFINE view == Visible(req[p], seen[p])
           D == DOMAIN seen[p].entries
<1>1. /\ todo[p] = {k} /\ found[p] = {} /\ D \subseteq {k} /\ k \in Token
      /\ phase[p] = "values" /\ req[p].op \in {"Find", "DeleteAll"}
  <2>1. /\ todo[p] \subseteq inUse /\ found[p] \subseteq inUse /\ D \subseteq inUse
        /\ found[p] # {} => found[p] \cap todo[p] = {}
        /\ phase[p] = "values" /\ req[p].op \in {"Find", "DeleteAll"} /\ inUse \subseteq Token
    BY DEF In, Single, Typed, TypeOK, CallTypeOK, Kept
  <2> QED
    BY <2>1, Alone DEF Single
<1>2. /\ now \in Nat /\ now \in begun[p] .. now /\ seen[p] \in StoreView \ {NoEntry}
  BY <1>1, Readings DEF Single
<1>3. /\ view # NoEntry
      /\ DOMAIN view.entries = Matching(p, D)
      /\ \A j \in DOMAIN view.entries :
           j \in D /\ view.entries[j] = Logical(seen[p].entries[j])
                   /\ view.entries[j].state = Snap(p, j)
  <2>1. DOMAIN view.entries
          = {j \in D : req[p].op \in {"Find", "DeleteAll"} =>
               /\ seen[p].entries[j].state.subject = req[p].subject
               /\ MatchKind(seen[p].entries[j].state.kind, req[p].kinds)}
    BY <1>2, VisibleTyped
  <2> QED
    BY <1>1, <1>2, <2>1, VisibleTyped DEF Matching, Snap
<1>4. CASE kept = {}
  <2>1. Return(p, Done)
    <3>1. Matching(p, found[p] \cup kept) = {}
      BY <1>1, <1>4 DEF Matching
    <3> QED
      BY <1>1, <3>1, NothingReported DEF Walk
  <2>2. \A j \in DOMAIN view.entries : EntryExpired(view.entries[j], now)
    BY <1>1, <1>3, <1>4 DEF EntryExpired
  <2> HIDE DEF view
  <2>3. Reported({}, view.entries) \in Contract!ReadAnswers(req[p], view, now)
    BY <1>1, <2>2, Reportable
  <2>4. Done \in Contract!ReadAnswers(req[p], view, now)
    BY <2>3, NothingReported
  <2> QED
    BY <1>1, <1>2, <1>3, <2>1, <2>4, Reports DEF view
<1>5. CASE kept = {k}
  <2>1. found[p] \cup kept = {k} /\ todo[p] \ {k} = {} /\ D = {k}
    BY <1>1, <1>5
  <2>2. DOMAIN view.entries = Matching(p, {k})
    BY <1>3, <2>1
  <2>3. CASE req[p].op = "Find"
    <3>1. Return(p, Reported(Matching(p, {k}), seen[p].entries))
      BY <2>1, <2>3 DEF Walk
    <3>2. Reported(Matching(p, {k}), seen[p].entries) = Reported(Matching(p, {k}), view.entries)
      <4>1. \A j \in Matching(p, {k}) : view.entries[j].state = seen[p].entries[j].state
        BY <1>3, <2>2 DEF Snap
      <4> HIDE DEF view
      <4>2. {[key |-> j, state |-> seen[p].entries[j].state] : j \in Matching(p, {k})}
              = {[key |-> j, state |-> view.entries[j].state] : j \in Matching(p, {k})}
        BY <4>1
      <4> QED
        BY <4>2 DEF Reported
    <3> HIDE DEF view
    <3>3. Reported(Matching(p, {k}), view.entries) \in Contract!ReadAnswers(req[p], view, now)
      BY <2>2, <2>3, Reportable
    <3> QED
      BY <1>1, <1>2, <1>3, <3>1, <3>2, <3>3, Reports DEF view
  <2>4. CASE req[p].op = "DeleteAll" /\ Matching(p, {k}) = {}
    <3>1. Return(p, Done)
      BY <2>1, <2>4 DEF Walk
    <3> HIDE DEF view
    <3>2. Reported({}, view.entries) \in Contract!ReadAnswers(req[p], view, now)
      BY <2>2, <2>4, Reportable
    <3>3. Done \in Contract!ReadAnswers(req[p], view, now)
      BY <3>2, NothingReported
    <3> QED
      BY <1>1, <1>2, <1>3, <3>1, <3>3, Reports DEF view
  <2>5. CASE req[p].op = "DeleteAll" /\ Matching(p, {k}) # {}
    <3>1. GoOn(p, "matches") /\ Locals(p) /\ UNCHANGED seen
      BY <2>1, <2>5 DEF Walk, Locals
    <3> QED
      BY <1>1, <1>5, <3>1, Stutters
  <2> QED
    BY <1>1, <2>3, <2>4, <2>5
<1> QED
  BY <1>4, <1>5

LEMMA MemberMaps ==
  ASSUME Single, NEW p \in Proc, FindMember(p)
  PROVE  Contract!Next \/ UNCHANGED Contract!vars
<1>1. In(p, {"Find", "DeleteAll"}, "values") /\ UNCHANGED sessions
  BY DEF FindMember
<1>2. now \in Nat
  BY <1>1, Readings DEF Single, In
<1>3. PICK k \in todo[p] :
       \/ /\ k \notin DOMAIN seen[p].entries
          /\ Prune(p, k)
          /\ UNCHANGED tokens
          /\ Walk(p, k, {})
       \/ /\ k \in DOMAIN seen[p].entries
          /\ IsExpired(Snap(p, k), now)
          /\ DeleteSnapshot(p, k)
          /\ Walk(p, k, {})
       \/ /\ k \in DOMAIN seen[p].entries
          /\ ~IsExpired(Snap(p, k), now)
          /\ UNCHANGED <<tokens, indexes>>
          /\ Walk(p, k, {k})
  BY DEF FindMember
<1>4. CASE k \notin DOMAIN seen[p].entries /\ UNCHANGED tokens /\ Walk(p, k, {})
  <2>1. Contract!EvictSome(now)
    BY <1>1, <1>2, <1>4, NothingEvicted
  <2> QED
    BY <1>1, <1>4, <2>1, WalkMaps
<1>5. CASE k \in DOMAIN seen[p].entries /\ IsExpired(Snap(p, k), now)
           /\ DeleteSnapshot(p, k) /\ Walk(p, k, {})
  <2>1. Contract!EvictSome(now)
    BY <1>1, <1>2, <1>5, SnapshotEvicts
  <2> QED
    BY <1>1, <1>5, <2>1, WalkMaps
<1>6. CASE k \in DOMAIN seen[p].entries /\ UNCHANGED tokens /\ Walk(p, k, {k})
  <2>1. Contract!EvictSome(now)
    BY <1>1, <1>2, <1>6, NothingEvicted
  <2> QED
    BY <1>1, <1>6, <2>1, WalkMaps
<1> QED
  BY <1>3, <1>4, <1>5, <1>6

\* The only token is read once more, or is no longer the subject's.
LEMMA ReadMatchMaps ==
  ASSUME Single, NEW p \in Proc, ReadMatch(p)
  PROVE  Contract!Next
<1>1. /\ phase[p] = "matches" /\ req[p].op = "DeleteAll" /\ UNCHANGED <<tokens, sessions>>
  BY DEF ReadMatch, In, Unchanged
<1>2. PICK k \in todo[p] :
        IF k \in OfSubject(tokens, req[p].subject, req[p].kinds)
          THEN /\ Fetch(p, {k})
               /\ found' = [found EXCEPT ![p] = {k}]
               /\ GoOn(p, "match")
               /\ UNCHANGED <<attempt, todo>>
          ELSE NextMatch(p, k)
  BY DEF ReadMatch
<1>3. req[p] \in Call /\ todo[p] = {k} /\ Stored(tokens) \subseteq {k}
  <2>1. req[p] \in Call /\ todo[p] \subseteq inUse /\ Stored(tokens) \subseteq inUse
    BY <1>1 DEF Single, Typed, TypeOK, CallTypeOK, StoreTypeOK
  <2> QED
    BY <2>1, Alone DEF Single
<1>4. CASE k \in OfSubject(tokens, req[p].subject, req[p].kinds)
  <2>1. GoOn(p, "match") /\ Locals(p) /\ seen' = [seen EXCEPT ![p] = Fetched({k})]
    BY <1>2, <1>4 DEF Fetch, Locals
  <2>2. Visible(req[p], Fetched({k})) = View(req[p], LogicalMap(tokens), sessions)
    BY <1>1, <1>3, FetchedView DEF Single
  <2>3. Fetched({k}) \in StoreView \ {NoEntry}
    BY FetchedTyped DEF Single, Typed, TypeOK
  <2> QED
    BY <1>1, <2>1, <2>2, <2>3, Observes
<1>5. CASE k \notin OfSubject(tokens, req[p].subject, req[p].kinds)
  <2>1. Return(p, Done)
    BY <1>2, <1>3, <1>5 DEF NextMatch
  <2>2. OfSubject(tokens, req[p].subject, req[p].kinds) = {}
    BY <1>3, <1>5 DEF OfSubject
  <2> QED
    BY <1>1, <2>1, <2>2, MissingMaps
<1> QED
  BY <1>4, <1>5

\* It is deleted as it was read, or the call fails.
LEMMA DeleteMatchMaps ==
  ASSUME Single, NEW p \in Proc, DeleteMatch(p)
  PROVE  Contract!Next
<1> DEFINE all == OfSubject(tokens, req[p].subject, req[p].kinds)
<1>1. phase[p] = "match" /\ req[p].op = "DeleteAll" /\ UNCHANGED sessions
  BY DEF DeleteMatch, In
<1>2. PICK k \in found[p] : /\ DeleteSnapshot(p, k)
                            /\ IF StillThat(p, k) THEN NextMatch(p, k) ELSE Return(p, Refused)
  BY DEF DeleteMatch
<1>3. /\ todo[p] = {k} /\ Stored(tokens) \subseteq {k} /\ k \in DOMAIN seen[p].entries
      /\ Snap(p, k).subject = req[p].subject /\ MatchKind(Snap(p, k).kind, req[p].kinds)
  <2>1. /\ todo[p] \subseteq inUse /\ todo[p] # {} /\ found[p] \subseteq inUse
        /\ Stored(tokens) \subseteq inUse /\ found[p] \subseteq DOMAIN seen[p].entries
    BY <1>1, <1>2 DEF Single, Typed, TypeOK, CallTypeOK, StoreTypeOK, Walking
  <2>2. Snap(p, k).subject = req[p].subject /\ MatchKind(Snap(p, k).kind, req[p].kinds)
    BY <1>1, <1>2 DEF Single, Typed, Kept
  <2> QED
    BY <1>2, <2>1, <2>2, Alone DEF Single
<1>4. CASE StillThat(p, k)
  <2>1. all = {k}
    BY <1>3, <1>4 DEF OfSubject, StillThat
  <2>2. LogicalMap(tokens') = Drop(LogicalMap(tokens), {k})
    BY <1>2, <1>4, LogicalDrop DEF DeleteSnapshot
  <2>3. OfSubject(LogicalMap(tokens), req[p].subject, req[p].kinds) = {k}
    BY <2>1, LogicalTyped DEF Single, Typed, TypeOK, StoreTypeOK
  <2>4. Contract!Answer(p, Contract!Done)
    BY <1>2, <1>3, <1>4, Answers, SameCalls DEF NextMatch
  <2>5. Contract!DeleteAll(p, req[p])
    BY <1>1, <2>2, <2>3, <2>4, ShownAsIs, SameMaps DEF Contract!DeleteAll
  <2>6. now \in begun[p] .. now
    BY <1>1, Readings DEF Single
  <2> QED
    BY <1>1, <2>5, <2>6, Performs
<1>5. CASE ~StillThat(p, k)
  BY <1>1, <1>2, <1>5, RefuseMaps DEF DeleteSnapshot
<1> QED
  BY <1>4, <1>5
-----------------------------------------------------------------------------
\* The operations on sessions.

\* What the contract says of a session that is there.
LEMMA SessionFacts ==
  ASSUME Typed, NEW p \in Proc, phase[p] # "idle",
         req[p].op \in {"SaveSession", "EnsureSession", "GetSession", "DeleteSession"}
  PROVE  /\ req[p] \in Call /\ req[p].subject \in Subject
         /\ now \in begun[p] .. now /\ now \in Nat
         /\ sessions[req[p].subject] \in SessionItem \cup {NoEntry}
         /\ sessions[req[p].subject] # NoEntry
              => ~Passed(sessions[req[p].subject].expiresAt, now)
         /\ \A map : req[p].op \in {"GetSession", "DeleteSession"} =>
              View(req[p], map, sessions).session = sessions[req[p].subject]
<1>1. req[p] \in Call
  BY DEF Typed, TypeOK, CallTypeOK
<1>2. req[p].subject \in Subject
  BY <1>1, FieldsTyped
<1> QED
  BY <1>1, <1>2, Readings DEF Typed, TypeOK, StoreTypeOK, View

LEMMA WriteMaps ==
  ASSUME Single, NEW p \in Proc, SaveSession(p) \/ EnsureSession(p)
  PROVE  Contract!Next
<1> DEFINE s == req[p].subject
<1>1. phase[p] # "idle" /\ req[p].op \in {"SaveSession", "EnsureSession"}
  BY DEF SaveSession, EnsureSession, In
<1>2. /\ now \in begun[p] .. now
      /\ sessions[s] # NoEntry => ~Passed(sessions[s].expiresAt, now)
  BY <1>1, SessionFacts DEF Single
<1>3. ASSUME NEW data, WriteSession(p, data)
      PROVE  /\ Contract!Answer(p, Contract!Done) /\ UNCHANGED tokens
             /\ sessions' = [sessions EXCEPT ![s] =
                  [data |-> data, expiresAt |-> DeadlineAfter(now, req[p].ttl)]]
  BY <1>3, Answers, SameCalls DEF WriteSession
<1>4. CASE SaveSession(p)
  <2>1. req[p].op = "SaveSession" /\ WriteSession(p, req[p].data)
    BY <1>4 DEF SaveSession, In
  <2>2. Contract!SaveSession(p, req[p], now)
    BY <1>3, <2>1, ShownAsIs, SameStates DEF Contract!SaveSession, Contract!SetSession
  <2> QED
    BY <1>1, <1>2, <2>2, Performs
<1>5. CASE EnsureSession(p)
  <2>1. req[p].op = "EnsureSession"
        /\ WriteSession(p, IF sessions[s] = NoEntry THEN NewData ELSE sessions[s].data)
    BY <1>5 DEF EnsureSession, In
  <2>2. Contract!SessionLive(s, now) <=> sessions[s] # NoEntry
    BY <1>2, ShownAsIs, SameStates DEF Contract!SessionLive
  <2>3. /\ Contract!Answer(p, Contract!Done) /\ UNCHANGED tokens
        /\ sessions' = [sessions EXCEPT ![s] =
             [data |-> IF Contract!SessionLive(s, now) THEN sessions[s].data ELSE NewData,
              expiresAt |-> DeadlineAfter(now, req[p].ttl)]]
    BY <1>3, <2>1, <2>2
  <2>4. Contract!EnsureSession(p, req[p], now)
    BY <2>1, <2>3, ShownAsIs, SameStates DEF Contract!EnsureSession, Contract!SetSession
  <2> QED
    BY <1>1, <1>2, <2>4, Performs
<1> QED
  BY <1>4, <1>5

LEMMA GetSessionMaps ==
  ASSUME Single, NEW p \in Proc, GetSession(p)
  PROVE  Contract!Next
<1> DEFINE s == req[p].subject
           view == View(req[p], LogicalMap(tokens), sessions)
<1>1. phase[p] # "idle" /\ req[p].op = "GetSession" /\ UNCHANGED <<tokens, sessions>>
  BY DEF GetSession, In, Unchanged
<1>2. PICK r : r = IF sessions[s] = NoEntry THEN Done ELSE [Done EXCEPT !.data = sessions[s].data]
  OBVIOUS
<1>3. Return(p, r)
  BY <1>2 DEF GetSession
<1>4. /\ now \in begun[p] .. now /\ now \in Nat /\ view.session = sessions[s]
      /\ sessions[s] # NoEntry => ~Passed(sessions[s].expiresAt, now)
  BY <1>1, SessionFacts DEF Single
<1>5. Contract!EvictSome(now)
  BY <1>1, <1>4, NothingEvicted
<1> HIDE DEF view
<1>6. r \in Contract!ReadAnswers(req[p], view, now)
  BY <1>1, <1>2, <1>4, SessionReportable
<1> QED
  BY <1>1, <1>3, <1>4, <1>5, <1>6, Reports DEF view

LEMMA DeleteSessionReadMaps ==
  ASSUME Single, NEW p \in Proc, DeleteSessionRead(p)
  PROVE  Contract!Next
<1> DEFINE s == req[p].subject
           view == View(req[p], LogicalMap(tokens), sessions)
<1>1. phase[p] # "idle" /\ req[p].op = "DeleteSession" /\ UNCHANGED <<tokens, sessions>>
  BY DEF DeleteSessionRead, In, Unchanged
<1>2. /\ now \in begun[p] .. now /\ now \in Nat /\ view.session = sessions[s] /\ req[p] \in Call
  BY <1>1, SessionFacts DEF Single
<1>3. CASE sessions[s] = NoEntry
  <2>1. Return(p, Done)
    BY <1>3 DEF DeleteSessionRead
  <2>2. Contract!EvictSome(now)
    BY <1>1, <1>2, NothingEvicted
  <2> HIDE DEF view
  <2>3. Done \in Contract!ReadAnswers(req[p], view, now)
    BY <1>1, <1>2, <1>3, SessionReportable
  <2> QED
    BY <1>1, <1>2, <2>1, <2>2, <2>3, Reports DEF view
<1>4. CASE sessions[s] # NoEntry
  <2> DEFINE read == View(req[p], tokens, sessions)
  <2>1. GoOn(p, "read") /\ Locals(p) /\ seen' = [seen EXCEPT ![p] = read]
    BY <1>4 DEF DeleteSessionRead, Locals
  <2>2. read \in StoreView \ {NoEntry} /\ LogicalMap(tokens) \in [Token -> Entry \cup {NoEntry}]
    <3>1. /\ tokens \in [Token -> Entry \cup {NoEntry}]
          /\ sessions \in [Subject -> SessionItem \cup {NoEntry}]
      BY DEF Single, Typed, TypeOK, StoreTypeOK
    <3> QED
      BY <1>2, <3>1, ViewTyped, LogicalTyped
  <2>3. "key" \notin DOMAIN req[p]
    BY <1>1, <1>2 DEF Call, TokenCall, SessionCall
  <2>4. /\ read = [entries |-> [k \in {} |-> tokens[k]], session |-> sessions[s]]
        /\ view = [entries |-> [k \in {} |-> LogicalMap(tokens)[k]], session |-> sessions[s]]
    BY <1>1, <2>3 DEF View
  <2>5. Visible(req[p], read) = view
    <3>1. DOMAIN Visible(req[p], read).entries = {}
      <4>1. \A k \in DOMAIN Visible(req[p], read).entries : k \in DOMAIN read.entries
        BY <2>2, VisibleTyped
      <4> QED
        BY <2>4, <4>1
    <3> DEFINE f == [k \in DOMAIN Visible(req[p], read).entries |-> Logical(read.entries[k])]
    <3>2. \A g : g = [k \in DOMAIN Visible(req[p], read).entries |-> Logical(read.entries[k])] =>
            Visible(req[p], read) = [entries |-> g, session |-> read.session]
      BY <2>2, VisibleTyped
    <3>3. f = [k \in DOMAIN Visible(req[p], read).entries |-> Logical(read.entries[k])]
      OBVIOUS
    <3>4. f = [k \in {} |-> LogicalMap(tokens)[k]]
      BY <3>1
    <3> HIDE DEF f, read, view
    <3> QED
      BY <2>4, <3>2, <3>3, <3>4
  <2> HIDE DEF read
  <2> QED
    BY <1>1, <2>1, <2>2, <2>5, Observes
<1> QED
  BY <1>3, <1>4

\* What is deleted is the session read; one that was replaced stays.
LEMMA DeleteSessionMaps ==
  ASSUME Single, NEW p \in Proc, DeleteSession(p)
  PROVE  Contract!Next
<1> DEFINE s == req[p].subject
           item == sessions[s]
           view == Visible(req[p], seen[p])
<1>1. /\ phase[p] = "read" /\ req[p].op = "DeleteSession" /\ UNCHANGED tokens
      /\ Return(p, Done)
      /\ sessions' = [sessions EXCEPT ![s] =
           IF item = NoEntry THEN NoEntry
           ELSE IF item.data = seen[p].session.data THEN NoEntry ELSE item]
  BY DEF DeleteSession, In
<1>2. now \in begun[p] .. now /\ now \in Nat
  BY <1>1, SessionFacts DEF Single
<1>3. /\ seen[p] \in StoreView \ {NoEntry} /\ view # NoEntry
      /\ view.session = seen[p].session
  BY <1>1, Readings, VisibleTyped DEF Single
<1>4. CASE item # NoEntry /\ item.data = seen[p].session.data
  <2>1. Contract!Answer(p, Contract!Done) /\ sessions' = [sessions EXCEPT ![s] = NoEntry]
    BY <1>1, <1>4, Answers, SameCalls
  <2>2. Contract!DeleteSession(p, req[p])
    BY <1>1, <2>1, ShownAsIs DEF Contract!DeleteSession, Contract!SetSession
  <2> QED
    BY <1>1, <1>2, <2>2, Performs
<1>5. CASE item = NoEntry \/ item.data # seen[p].session.data
  <2>1. UNCHANGED sessions
    <3>1. sessions' = [sessions EXCEPT ![s] = sessions[s]]
      BY <1>1, <1>5
    <3> QED
      BY <3>1 DEF Single, Typed, TypeOK, StoreTypeOK
  <2>2. Contract!EvictSome(now)
    BY <1>1, <1>2, <2>1, NothingEvicted
  <2>3. Done \in Contract!ReadAnswers(req[p], view, now)
    <3> HIDE DEF view
    <3> QED
      BY <1>1, <1>3, <1>5, SessionReportable
  <2> QED
    BY <1>1, <1>2, <1>3, <2>2, <2>3, Reports
<1> QED
  BY <1>4, <1>5

-----------------------------------------------------------------------------
\* With several tokens in use the contract is shown a store that nobody uses.
LEMMA SeveralMaps ==
  ASSUME Several, inUse' = inUse
  PROVE  UNCHANGED Contract!vars
<1>1. Several'
  BY DEF Several
<1> QED
  BY <1>1 DEF Contract!vars, Shown

\* Each command is a step of the contract, or one that no caller can see.
LEMMA StepMaps ==
  ASSUME Base, Typed, [Next]_vars
  PROVE  Contract!Next \/ UNCHANGED Contract!vars
<1>1. CASE UNCHANGED vars
  <2>1. inUse' = inUse /\ UNCHANGED <<now, tokens, sessions, phase, req, begun, seen, res>>
    BY <1>1 DEF vars
  <2>2. Several' = Several /\ Underway' = Underway /\ Views' = Views
    BY <2>1 DEF Several, Underway, Views
  <2> QED
    BY <2>1, <2>2 DEF Contract!vars, Shown
<1>2. CASE Next /\ Several
  BY <1>2, SeveralMaps DEF Next
<1>3. CASE Next /\ ~Several
  <2>1. Single
    BY <1>3 DEF Single, Next
  <2>2. CASE Tick
    BY <2>1, <2>2, TickMaps
  <2>3. ASSUME NEW p \in Proc, Begin(p) \/ Refuse(p)
        PROVE  Contract!Next
    BY <2>1, <2>3, BeginMaps, RefuseMaps DEF Refuse, Unchanged
  <2>4. ASSUME NEW p \in Proc, TokenStep(p)
        PROVE  Contract!Next \/ UNCHANGED Contract!vars
    BY <2>1, <2>4, ReadTokenMaps, SaveMaps, CompareMaps, GetMaps, ConsumeMaps, DeleteMaps,
       MembersMap, ValuesMap, MemberMaps, ReadMatchMaps, DeleteMatchMaps DEF TokenStep
  <2>5. ASSUME NEW p \in Proc, SessionStep(p)
        PROVE  Contract!Next
    BY <2>1, <2>5, WriteMaps, GetSessionMaps, DeleteSessionReadMaps, DeleteSessionMaps
       DEF SessionStep
  <2> QED
    BY <1>3, <2>2, <2>3, <2>4, <2>5 DEF Next
<1> QED
  BY <1>1, <1>2, <1>3

\* While callers use one token, and sessions, every behaviour of the Redis store, one
\* command at a time, is one of the contract's: to its callers each call is atomic or
\* fails without effect.
THEOREM StoreImplements == Spec => ImplementsContract
<1>1. Init => Contract!Init
  <2> SUFFICES ASSUME Init
               PROVE  Contract!Init
    OBVIOUS
  <2>1. /\ LogicalMap(tokens) = [k \in Token |-> NoEntry]
        /\ Underway = [p \in Proc |-> "idle"]
        /\ Views = [p \in Proc |-> NoEntry]
    BY DEF Init, LogicalMap, Underway, Views
  <2> QED
    BY <2>1, SameCalls DEF Init, Contract!Init, Shown
<1>2. Base /\ Typed /\ [Next]_vars => [Contract!Next]_(Contract!vars)
  BY StepMaps
<1> QED
  BY <1>1, <1>2, InitBase, NextBase, InitTyped, NextTyped, PTL
     DEF Spec, ImplementsContract, Contract!Spec
=============================================================================
