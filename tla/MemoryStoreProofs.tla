------------------------- MODULE MemoryStoreProofs -------------------------
(***************************************************************************)
(* What holds of MemoryStore for every set of keys, subjects, goroutines    *)
(* and inputs and every bound on the clock: its types, the agreement of the *)
(* index with the stored tokens, on which lookups by subject rest, and that *)
(* it implements AtomicStore.                                               *)
(***************************************************************************)
EXTENDS MemoryStore, StoreCallsProofs

-----------------------------------------------------------------------------
\* Returning from a call leaves the call side well typed.
LEMMA ReturnTyped ==
  ASSUME TypeOK, NEW p \in Proc, NEW r \in Response, Return(p, r)
  PROVE  CallTypeOK'
BY StoreAssumption DEF TypeOK, CallTypeOK, Return, Failed

\* The helpers that run under the lock keep the types of map and index.
LEMMA DeleteLockedTyped ==
  ASSUME StoreTypeOK, NEW K, DeleteTokensLocked(K)
  PROVE  /\ tokens' \in [Token -> Entry \cup {NoEntry}]
         /\ indexes' \in [Subject \cup {ZeroSubject} -> SUBSET Token]
BY MapTyped DEF StoreTypeOK, DeleteTokensLocked, Unindexed

LEMMA StoreLockedTyped ==
  ASSUME StoreTypeOK, NEW k \in Token, NEW s \in State, NEW d \in Deadline,
         StoreLocked(k, s, d)
  PROVE  /\ tokens' \in [Token -> Entry \cup {NoEntry}]
         /\ indexes' \in [Subject \cup {ZeroSubject} -> SUBSET Token]
<1>1. tokens' \in [Token -> Entry \cup {NoEntry}]
  BY MapTyped DEF StoreTypeOK, StoreLocked
<1>2. s.subject \in Subject \cup {ZeroSubject}
  BY DEF State
<1>3. tokens[k] # NoEntry => tokens[k].state.subject \in Subject \cup {ZeroSubject}
  BY DEF StoreTypeOK, Entry, State
<1>4. indexes' \in [Subject \cup {ZeroSubject} -> SUBSET Token]
  BY <1>2, <1>3 DEF StoreTypeOK, StoreLocked, AddIndexLocked, RemoveIndexLocked
<1> QED
  BY <1>1, <1>4

\* The fields of a call in progress.
LEMMA CallFields ==
  ASSUME CallTypeOK, NEW p \in Proc, phase[p] # "idle"
  PROVE  /\ req[p].op \in {"Save", "CAS"} =>
              /\ req[p].key \in Token
              /\ req[p].state \in State
              /\ req[p].ttl \in Nat
         /\ req[p].op \in {"Get", "Delete", "Consume"} => req[p].key \in Token
         /\ req[p].op \in {"Find", "DeleteAll"} => req[p].subject \in Subject
         /\ req[p].op \in {"SaveSession", "EnsureSession", "GetSession", "DeleteSession"}
              => req[p].subject \in Subject
         /\ req[p].op = "SaveSession" => req[p].data \in Data
         /\ req[p].op \in {"SaveSession", "EnsureSession"} => req[p].ttl \in Nat
         /\ begun[p] \in Nat
<1>1. req[p] \in Call /\ begun[p] \in Nat
  BY StoreAssumption DEF CallTypeOK
<1> QED
  BY <1>1, FieldsTyped

-----------------------------------------------------------------------------
LEMMA BeginTyped ==
  ASSUME TypeOK, NEW p \in Proc, Begin(p)
  PROVE  TypeOK'
<1>1. PICK c \in NextCalls(res[p]) :
        /\ req' = [req EXCEPT ![p] = c]
        /\ phase' = [phase EXCEPT ![p] = "called"]
        /\ begun' = [begun EXCEPT ![p] = now]
  BY DEF Begin
<1>2. c \in Call
  BY CallsTyped DEF TypeOK, CallTypeOK
<1> QED
  BY <1>1, <1>2, StoreAssumption DEF Begin, TypeOK, StoreTypeOK, CallTypeOK

LEMMA TokenStepTyped ==
  ASSUME TypeOK, NEW p \in Proc, TokenStep(p)
  PROVE  TypeOK'
<1> USE DEF Called
<1>1. /\ \A K \in SUBSET Stored(tokens) : Reported(K, tokens) \in Response
      /\ Done \in Response
      /\ Failed \in Response
  <2>1. tokens \in [Token -> Entry \cup {NoEntry}]
    BY DEF TypeOK, StoreTypeOK
  <2>2. ASSUME NEW K \in SUBSET Stored(tokens)
        PROVE  Reported(K, tokens) \in Response
    <3>1. K \in SUBSET Token /\ \A k \in K : tokens[k] # NoEntry
      BY DEF Stored
    <3> QED
      BY <2>1, <3>1, FoundTyped
  <2>3. Done \in Response /\ Failed \in Response
    BY DEF Done, Failed, Response
  <2> QED
    BY <2>2, <2>3
<1>2. CASE SaveTokenState(p)
  <2>1. /\ req[p].key \in Token
        /\ req[p].state \in State
        /\ EffectiveExpiresAt(req[p].state, begun[p], req[p].ttl) \in Deadline
    BY <1>2, CallFields, DeadlineTyped DEF SaveTokenState, TypeOK
  <2>2. StoreTypeOK'
    BY <1>2, <2>1, StoreLockedTyped DEF SaveTokenState, TypeOK, StoreTypeOK
  <2> QED
    BY <1>1, <1>2, <2>2, ReturnTyped DEF SaveTokenState, TypeOK
<1>3. CASE CompareAndSwapTokenState(p)
  <2>1. /\ req[p].key \in Token
        /\ req[p].state \in State
        /\ EffectiveExpiresAt(req[p].state, begun[p], req[p].ttl) \in Deadline
    BY <1>3, CallFields, DeadlineTyped DEF CompareAndSwapTokenState, TypeOK
  <2>2. StoreTypeOK'
    BY <1>3, <2>1, StoreLockedTyped DEF CompareAndSwapTokenState, TypeOK, StoreTypeOK
  <2>3. CallTypeOK'
    BY <1>1, <1>3, ReturnTyped DEF CompareAndSwapTokenState
  <2> QED
    BY <2>2, <2>3 DEF TypeOK
<1>4. CASE GetRead(p)
  <2>1. Reported({req[p].key} \cap Stored(tokens), tokens) \in Response
    BY <1>1
  <2>2. CallTypeOK'
    <3>1. CASE Return(p, Reported({req[p].key} \cap Stored(tokens), tokens))
      BY <3>1, <2>1, ReturnTyped
    <3>2. CASE /\ phase' = [phase EXCEPT ![p] = "recheck"]
               /\ UNCHANGED <<now, req, begun, res>>
      BY <1>4, <3>2 DEF GetRead, TypeOK, CallTypeOK
    <3> QED
      BY <1>4, <3>1, <3>2 DEF GetRead
  <2> QED
    BY <1>4, <2>2 DEF GetRead, TypeOK, StoreTypeOK
<1>5. CASE GetRecheck(p)
  <2>1. StoreTypeOK'
    BY <1>5, DeleteLockedTyped DEF GetRecheck, TypeOK, StoreTypeOK
  <2>2. Reported({req[p].key} \cap Stored(tokens), tokens) \in Response
    BY <1>1
  <2>3. CallTypeOK'
    BY <1>1, <1>5, <2>2, ReturnTyped DEF GetRecheck
  <2> QED
    BY <2>1, <2>3 DEF TypeOK
<1>6. CASE ConsumeTokenState(p)
  <2>1. req[p].key \in Token
    BY <1>6, CallFields DEF ConsumeTokenState, TypeOK
  <2>2. StoreTypeOK'
    BY <1>6, <2>1, DeleteLockedTyped, MapTyped DEF ConsumeTokenState, TypeOK, StoreTypeOK
  <2>3. CallTypeOK'
    <3>1. CASE Return(p, Done)
      BY <3>1, <1>1, ReturnTyped
    <3>2. CASE tokens[req[p].key] # NoEntry /\ Return(p, Reported({req[p].key}, tokens))
      <4>1. {req[p].key} \in SUBSET Stored(tokens)
        BY <3>2, <2>1 DEF Stored
      <4> QED
        BY <3>2, <4>1, <1>1, ReturnTyped
    <3> QED
      BY <1>6, <3>1, <3>2 DEF ConsumeTokenState
  <2> QED
    BY <2>2, <2>3 DEF TypeOK
<1>7. CASE DeleteTokenState(p)
  <2>1. StoreTypeOK'
    BY <1>7, DeleteLockedTyped DEF DeleteTokenState, TypeOK, StoreTypeOK
  <2> QED
    BY <1>1, <1>7, <2>1, ReturnTyped DEF DeleteTokenState, TypeOK
<1>8. CASE FindTokenStates(p)
  <2> DEFINE s        == req[p].subject
             dangling == indexes[s] \ Stored(tokens)
             expired  == {k \in indexes[s] \ dangling : EntryExpired(tokens[k], begun[p])}
             matching == {k \in indexes[s] \ (dangling \cup expired) :
                            MatchKind(tokens[k].state.kind, req[p].kinds)}
  <2>1. s \in Subject
    BY <1>8, CallFields DEF FindTokenStates, TypeOK
  <2>2. matching \in SUBSET Stored(tokens)
    BY <2>1 DEF TypeOK, StoreTypeOK, Stored
  <2>3. /\ tokens' = Drop(tokens, expired)
        /\ indexes' = [Unindexed(expired) EXCEPT ![s] = @ \ dangling]
        /\ Return(p, Reported(matching, tokens))
        /\ UNCHANGED sessions
    BY <1>8 DEF FindTokenStates
  <2> HIDE DEF s, dangling, expired, matching
  <2>4. StoreTypeOK'
    BY <2>1, <2>3, MapTyped DEF TypeOK, StoreTypeOK, Unindexed
  <2>5. CallTypeOK'
    BY <1>1, <2>2, <2>3, ReturnTyped
  <2> QED
    BY <2>4, <2>5 DEF TypeOK
<1>9. CASE DeleteTokenStates(p)
  <2>1. StoreTypeOK'
    BY <1>9, DeleteLockedTyped DEF DeleteTokenStates, TypeOK, StoreTypeOK
  <2> QED
    BY <1>1, <1>9, <2>1, ReturnTyped DEF DeleteTokenStates, TypeOK
<1> QED
  BY <1>2, <1>3, <1>4, <1>5, <1>6, <1>7, <1>8, <1>9 DEF TokenStep

LEMMA SessionStepTyped ==
  ASSUME TypeOK, NEW p \in Proc, SessionStep(p)
  PROVE  TypeOK'
<1> USE DEF Called
<1>1. /\ Done \in Response
      /\ \A d \in Data : [Done EXCEPT !.data = d] \in Response
  BY DEF Done, Response
<1>2. NewData \in Data /\ now \in Nat
  BY StoreAssumption DEF TypeOK, CallTypeOK
<1>3. CASE SaveSession(p)
  <2>1. /\ req[p].subject \in Subject
        /\ req[p].data \in Data
        /\ DeadlineAfter(begun[p], req[p].ttl) \in Deadline
    BY <1>3, CallFields, DeadlineTyped DEF SaveSession, TypeOK
  <2>2. StoreTypeOK'
    BY <1>3, <2>1 DEF SaveSession, TypeOK, StoreTypeOK, SessionItem
  <2> QED
    BY <1>1, <1>3, <2>2, ReturnTyped DEF SaveSession, TypeOK
<1>4. CASE EnsureSession(p)
  <2>1. /\ req[p].subject \in Subject
        /\ DeadlineAfter(now, req[p].ttl) \in Deadline
    BY <1>2, <1>4, CallFields, DeadlineTyped DEF EnsureSession, TypeOK
  <2>2. StoreTypeOK'
    BY <1>2, <1>4, <2>1 DEF EnsureSession, TypeOK, StoreTypeOK, SessionItem
  <2> QED
    BY <1>1, <1>4, <2>2, ReturnTyped DEF EnsureSession, TypeOK
<1>5. CASE GetSessionRead(p)
  <2>1. req[p].subject \in Subject
    BY <1>5, CallFields DEF GetSessionRead, TypeOK
  <2>2. sessions[req[p].subject] # NoEntry
          => [Done EXCEPT !.data = sessions[req[p].subject].data] \in Response
    BY <1>1, <2>1 DEF TypeOK, StoreTypeOK, SessionItem
  <2>3. CallTypeOK'
    <3>1. CASE \E r \in Response : Return(p, r)
      BY <3>1, ReturnTyped
    <3>2. CASE /\ phase' = [phase EXCEPT ![p] = "recheck"]
               /\ UNCHANGED <<now, req, begun, res>>
      BY <1>5, <3>2 DEF GetSessionRead, TypeOK, CallTypeOK
    <3> QED
      BY <1>1, <1>5, <2>2, <3>1, <3>2 DEF GetSessionRead
  <2> QED
    BY <1>5, <2>3 DEF GetSessionRead, TypeOK, StoreTypeOK
<1>6. CASE GetSessionRecheck(p)
  <2>1. req[p].subject \in Subject
    BY <1>6, CallFields DEF GetSessionRecheck, TypeOK
  <2>2. sessions[req[p].subject] # NoEntry
          => [Done EXCEPT !.data = sessions[req[p].subject].data] \in Response
    BY <1>1, <2>1 DEF TypeOK, StoreTypeOK, SessionItem
  <2>3. CallTypeOK'
    BY <1>1, <1>6, <2>2, ReturnTyped DEF GetSessionRecheck
  <2> QED
    BY <1>6, <2>1, <2>3 DEF GetSessionRecheck, TypeOK, StoreTypeOK
<1>7. CASE DeleteSession(p)
  <2>1. StoreTypeOK'
    BY <1>7 DEF DeleteSession, TypeOK, StoreTypeOK
  <2> QED
    BY <1>1, <1>7, <2>1, ReturnTyped DEF DeleteSession, TypeOK
<1> QED
  BY <1>3, <1>4, <1>5, <1>6, <1>7 DEF SessionStep

\* Whatever goroutines do and however long they wait for the mutex, the maps of
\* store.Store, its index and the locals of its methods keep their types.
THEOREM TypeCorrect == Spec => []TypeOK
<1>1. Init => TypeOK
  BY StoreAssumption DEF Init, TypeOK, StoreTypeOK, CallTypeOK, Done, Failed, Response
<1>2. TypeOK /\ [Next]_vars => TypeOK'
  <2> SUFFICES ASSUME TypeOK, [Next]_vars
               PROVE  TypeOK'
    OBVIOUS
  <2>1. CASE UNCHANGED vars
    BY <2>1 DEF vars, TypeOK, StoreTypeOK, CallTypeOK
  <2>2. CASE Tick
    BY <2>2, StoreAssumption DEF Tick, TypeOK, StoreTypeOK, CallTypeOK
  <2>3. ASSUME NEW p \in Proc, Refuse(p)
        PROVE  TypeOK'
    <3>1. Refused \in Response
      BY DEF Done, Failed, Refused, Response
    <3>2. CallTypeOK'
      BY <2>3, <3>1, ReturnTyped DEF Refuse
    <3> QED
      BY <2>3, <3>2 DEF Refuse, TypeOK, StoreTypeOK
  <2> QED
    BY <2>1, <2>2, <2>3, BeginTyped, TokenStepTyped, SessionStepTyped DEF Next
<1> QED
  BY <1>1, <1>2, PTL DEF Spec

-----------------------------------------------------------------------------
(* The index.                                                              *)

\* Without a filter, the tokens of a subject are the stored ones that carry it.
LEMMA OwnedBySubject ==
  ASSUME NEW map, NEW s
  PROVE  OfSubject(map, s, {}) = {k \in Token : map[k] # NoEntry /\ map[k].state.subject = s}
BY DEF OfSubject, Stored, MatchKind

\* A save that rebinds a key moves it from one subject's list to the other's.
LEMMA StoreLockedIndexed ==
  ASSUME StoreTypeOK, IndexConsistent, NEW k \in Token, NEW state \in State,
         NEW d \in Deadline, StoreLocked(k, state, d)
  PROVE  IndexConsistent'
<1>1. state.subject \in Subject \cup {ZeroSubject}
  BY DEF State
<1>2. tokens[k] # NoEntry => tokens[k].state.subject \in Subject \cup {ZeroSubject}
  BY DEF StoreTypeOK, Entry, State
<1>3. tokens' = [tokens EXCEPT ![k] = [state |-> state, expiresAt |-> d]]
  BY DEF StoreLocked, Put
<1>4. [state |-> state, expiresAt |-> d] # NoEntry
  BY StoreAssumption DEF Entry
<1>5. ASSUME NEW s \in Subject \cup {ZeroSubject}
      PROVE  indexes'[s] = OfSubject(tokens', s, {})
  <2>1. indexes[s] = {j \in Token : tokens[j] # NoEntry /\ tokens[j].state.subject = s}
    BY OwnedBySubject DEF IndexConsistent
  <2>2. indexes'[s] = (indexes[s] \ (IF tokens[k] # NoEntry /\ tokens[k].state.subject = s
                                       THEN {k} ELSE {}))
                      \cup (IF state.subject = s THEN {k} ELSE {})
    BY <1>1, <1>2 DEF StoreTypeOK, StoreLocked, AddIndexLocked, RemoveIndexLocked
  <2>3. \A j \in Token : tokens'[j] # NoEntry /\ tokens'[j].state.subject = s
                            <=> IF j = k THEN state.subject = s
                                ELSE tokens[j] # NoEntry /\ tokens[j].state.subject = s
    BY <1>3, <1>4 DEF StoreTypeOK
  <2>4. indexes'[s] = {j \in Token : tokens'[j] # NoEntry /\ tokens'[j].state.subject = s}
    BY <2>1, <2>2, <2>3
  <2> QED
    BY <2>4, OwnedBySubject
<1> QED
  BY <1>5 DEF IndexConsistent

\* deleteTokenLocked takes a key out of the list of the subject it belongs to.
LEMMA DeleteLockedIndexed ==
  ASSUME StoreTypeOK, IndexConsistent, NEW K, DeleteTokensLocked(K)
  PROVE  IndexConsistent'
<1>1. ASSUME NEW s \in Subject \cup {ZeroSubject}
      PROVE  indexes'[s] = OfSubject(tokens', s, {})
  <2>1. indexes[s] = {j \in Token : tokens[j] # NoEntry /\ tokens[j].state.subject = s}
    BY OwnedBySubject DEF IndexConsistent
  <2>2. indexes'[s] = indexes[s] \ {k \in K : tokens[k] # NoEntry /\ tokens[k].state.subject = s}
    BY DEF StoreTypeOK, DeleteTokensLocked, Unindexed
  <2>3. \A j \in Token : tokens'[j] = IF j \in K THEN NoEntry ELSE tokens[j]
    BY DEF DeleteTokensLocked, Drop
  <2>4. indexes'[s] = {j \in Token : tokens'[j] # NoEntry /\ tokens'[j].state.subject = s}
    BY <2>1, <2>2, <2>3
  <2> QED
    BY <2>4, OwnedBySubject
<1> QED
  BY <1>1 DEF IndexConsistent

\* Consuming a token leaves it with its subject.
LEMMA ConsumeIndexed ==
  ASSUME StoreTypeOK, IndexConsistent, NEW k \in Token, tokens[k] # NoEntry,
         NEW kinds, NEW t, tokens' = Consume(tokens, k, kinds, t), UNCHANGED indexes
  PROVE  IndexConsistent'
<1>1. tokens[k] \in Entry
  BY DEF StoreTypeOK
<1>2. MarkConsumed(tokens[k].state).subject = tokens[k].state.subject
  BY <1>1, ConsumedTyped DEF Entry
<1>3. [tokens[k] EXCEPT !.state = MarkConsumed(tokens[k].state)] # NoEntry
  BY <1>1, ConsumedTyped, StoreAssumption DEF Entry
<1>4. \A j \in Token : \A s :
        tokens'[j] # NoEntry /\ tokens'[j].state.subject = s
          <=> tokens[j] # NoEntry /\ tokens[j].state.subject = s
  BY <1>1, <1>2, <1>3 DEF Consume, Rewrite, StoreTypeOK, Entry
<1>5. ASSUME NEW s \in Subject \cup {ZeroSubject}
      PROVE  indexes'[s] = OfSubject(tokens', s, {})
  <2>1. indexes[s] = {j \in Token : tokens[j] # NoEntry /\ tokens[j].state.subject = s}
    BY OwnedBySubject DEF IndexConsistent
  <2>2. indexes[s] = {j \in Token : tokens'[j] # NoEntry /\ tokens'[j].state.subject = s}
    BY <2>1, <1>4
  <2>3. OfSubject(tokens', s, {})
          = {j \in Token : tokens'[j] # NoEntry /\ tokens'[j].state.subject = s}
    BY OwnedBySubject
  <2> QED
    BY <2>2, <2>3
<1> QED
  BY <1>5 DEF IndexConsistent

LEMMA TokenStepIndexed ==
  ASSUME TypeOK, IndexConsistent, NEW p \in Proc, TokenStep(p)
  PROVE  IndexConsistent'
<1> USE DEF Called
<1>1. StoreTypeOK
  BY DEF TypeOK
<1>2. UNCHANGED <<tokens, indexes>> => IndexConsistent'
  BY DEF IndexConsistent, OfSubject, Stored
<1>3. CASE SaveTokenState(p)
  <2>1. /\ req[p].key \in Token
        /\ req[p].state \in State
        /\ EffectiveExpiresAt(req[p].state, begun[p], req[p].ttl) \in Deadline
    BY <1>3, CallFields, DeadlineTyped DEF SaveTokenState, TypeOK
  <2> QED
    BY <1>1, <1>3, <2>1, StoreLockedIndexed DEF SaveTokenState
<1>4. CASE CompareAndSwapTokenState(p)
  <2>1. /\ req[p].key \in Token
        /\ req[p].state \in State
        /\ EffectiveExpiresAt(req[p].state, begun[p], req[p].ttl) \in Deadline
    BY <1>4, CallFields, DeadlineTyped DEF CompareAndSwapTokenState, TypeOK
  <2> QED
    BY <1>1, <1>2, <1>4, <2>1, StoreLockedIndexed DEF CompareAndSwapTokenState
<1>5. CASE GetRead(p)
  BY <1>2, <1>5 DEF GetRead
<1>6. CASE GetRecheck(p)
  BY <1>1, <1>2, <1>6, DeleteLockedIndexed DEF GetRecheck
<1>7. CASE ConsumeTokenState(p)
  <2>1. req[p].key \in Token
    BY <1>7, CallFields DEF ConsumeTokenState, TypeOK
  <2> QED
    BY <1>1, <1>7, <2>1, DeleteLockedIndexed, ConsumeIndexed DEF ConsumeTokenState
<1>8. CASE DeleteTokenState(p)
  BY <1>1, <1>8, DeleteLockedIndexed DEF DeleteTokenState
<1>9. CASE FindTokenStates(p)
  <2> DEFINE s        == req[p].subject
             dangling == indexes[s] \ Stored(tokens)
             expired  == {k \in indexes[s] \ dangling : EntryExpired(tokens[k], begun[p])}
  <2>1. s \in Subject
    BY <1>9, CallFields DEF FindTokenStates, TypeOK
  <2>2. dangling = {}
    BY <2>1 DEF IndexConsistent, OfSubject
  <2>3. /\ tokens' = Drop(tokens, expired)
        /\ indexes' = [Unindexed(expired) EXCEPT ![s] = @ \ dangling]
    BY <1>9 DEF FindTokenStates
  <2>4. [Unindexed(expired) EXCEPT ![s] = @ \ {}] = Unindexed(expired)
    BY DEF Unindexed
  <2> HIDE DEF expired, dangling, s
  <2>5. DeleteTokensLocked(expired)
    BY <2>2, <2>3, <2>4 DEF DeleteTokensLocked
  <2> QED
    BY <1>1, <2>5, DeleteLockedIndexed
<1>10. CASE DeleteTokenStates(p)
  BY <1>1, <1>10, DeleteLockedIndexed DEF DeleteTokenStates
<1> QED
  BY <1>3, <1>4, <1>5, <1>6, <1>7, <1>8, <1>9, <1>10 DEF TokenStep

\* The index lists exactly what each subject owns, so FindTokenStates and
\* DeleteTokenStates (list, kick-out, logout by login id) miss no token and
\* touch nobody else's.  Inductive together with the types.
THEOREM IndexCorrect == Spec => []IndexConsistent
<1>1. Init => IndexConsistent
  BY DEF Init, IndexConsistent, OfSubject, Stored
<1>2. TypeOK /\ IndexConsistent /\ [Next]_vars => IndexConsistent'
  <2> SUFFICES ASSUME TypeOK, IndexConsistent, [Next]_vars
               PROVE  IndexConsistent'
    OBVIOUS
  <2>1. UNCHANGED <<tokens, indexes>> => IndexConsistent'
    BY DEF IndexConsistent, OfSubject, Stored
  <2>2. CASE UNCHANGED vars
    BY <2>1, <2>2 DEF vars
  <2>3. CASE Tick
    BY <2>1, <2>3 DEF Tick
  <2>4. ASSUME NEW p \in Proc, Begin(p) \/ Refuse(p)
        PROVE  IndexConsistent'
    BY <2>1, <2>4 DEF Begin, Refuse
  <2>5. ASSUME NEW p \in Proc, SessionStep(p)
        PROVE  IndexConsistent'
    BY <2>1, <2>5 DEF SessionStep, SaveSession, EnsureSession, GetSessionRead,
                      GetSessionRecheck, DeleteSession
  <2> QED
    BY <2>2, <2>3, <2>4, <2>5, TokenStepIndexed DEF Next
<1> QED
  BY <1>1, <1>2, TypeCorrect, PTL DEF Spec

-----------------------------------------------------------------------------
(* The refinement of AtomicStore.  A critical section that writes is the     *)
(* instant at which its call takes effect; one that reads or evicts is a     *)
(* report on the map as it is in that section; giving up the read lock to    *)
(* come back for the write lock is nothing that a caller sees.               *)

\* The vocabulary of the contract is that of the store.
LEMMA SameStates ==
  /\ \A s, t : Contract!IsExpired(s, t) = IsExpired(s, t)
  /\ \A d, t : Contract!Passed(d, t) = Passed(d, t)
  /\ \A t, ttl : Contract!DeadlineAfter(t, ttl) = DeadlineAfter(t, ttl)
  /\ \A s, t, ttl : Contract!EffectiveExpiresAt(s, t, ttl) = EffectiveExpiresAt(s, t, ttl)
  /\ \A s, kinds, t : Contract!Consumable(s, kinds, t) = Consumable(s, kinds, t)
  /\ \A s : Contract!Acceptable(s) = Acceptable(s)
BY DEF Contract!IsExpired, IsExpired, Contract!Passed, Passed, Contract!DeadlineAfter,
       DeadlineAfter, Contract!EffectiveExpiresAt, EffectiveExpiresAt, Contract!Earlier,
       Earlier, Contract!Never, Never, Contract!Consumable, Consumable,
       Contract!IsActive, IsActive, Contract!MatchKind, MatchKind, Contract!Acceptable,
       Acceptable

LEMMA SameMaps ==
  /\ \A map : Contract!Stored(map) = Stored(map)
  /\ \A map, t : Contract!Live(map, t) = Live(map, t)
  /\ \A e, t : Contract!EntryExpired(e, t) = EntryExpired(e, t)
  /\ \A map, k, s, d : Contract!Put(map, k, s, d) = Put(map, k, s, d)
  /\ \A map, K : Contract!Drop(map, K) = Drop(map, K)
  /\ \A map, k, s, t : Contract!Matches(map, k, s, t) = Matches(map, k, s, t)
  /\ \A map, k, kinds, t : Contract!Consume(map, k, kinds, t) = Consume(map, k, kinds, t)
  /\ \A map, s, kinds : Contract!OfSubject(map, s, kinds) = OfSubject(map, s, kinds)
<1>1. /\ \A map : Contract!Stored(map) = Stored(map)
      /\ \A e, t : Contract!EntryExpired(e, t) = EntryExpired(e, t)
  BY DEF Contract!Stored, Stored, Contract!EntryExpired, EntryExpired, Contract!IsExpired,
         IsExpired, Contract!Passed, Passed, Contract!Never, Never
<1>2. \A map, t : Contract!Live(map, t) = Live(map, t)
  BY <1>1 DEF Contract!Live, Live
<1>3. \A map, k, s, t : Contract!Matches(map, k, s, t) = Matches(map, k, s, t)
  BY <1>2 DEF Contract!Matches, Matches
<1>4. \A map, k, kinds, t : Contract!Consume(map, k, kinds, t) = Consume(map, k, kinds, t)
  BY SameStates DEF Contract!Consume, Consume, Contract!Rewrite, Rewrite,
         Contract!MarkConsumed, MarkConsumed
<1>5. \A map, s, kinds : Contract!OfSubject(map, s, kinds) = OfSubject(map, s, kinds)
  BY <1>1 DEF Contract!OfSubject, OfSubject, Contract!MatchKind, MatchKind
<1> QED
  BY <1>1, <1>2, <1>3, <1>4, <1>5 DEF Contract!Put, Put, Contract!Drop, Drop

LEMMA SameCalls ==
  /\ Contract!Done = Done /\ Contract!Failed = Failed /\ Contract!Refused = Refused
  /\ \A K, entries : Contract!Reported(K, entries) = Reported(K, entries)
  /\ \A c, map, items : Contract!View(c, map, items) = View(c, map, items)
  /\ \A last : Contract!NextCalls(last) = NextCalls(last)
<1>1. /\ Contract!Done = Done /\ Contract!Failed = Failed /\ Contract!Refused = Refused
      /\ \A K, entries : Contract!Reported(K, entries) = Reported(K, entries)
  BY DEF Contract!Done, Done, Contract!Failed, Failed, Contract!Refused, Refused,
         Contract!Reported, Reported
<1>2. \A c, map, items : Contract!View(c, map, items) = View(c, map, items)
  BY SameMaps DEF Contract!View, View
<1>3. \A last : Contract!NextCalls(last) = NextCalls(last)
  BY DEF Contract!NextCalls, NextCalls, Contract!SessionCall, SessionCall,
         Contract!MarkConsumed, MarkConsumed
<1> QED
  BY <1>1, <1>2, <1>3

-----------------------------------------------------------------------------
\* A return is an answer; the two phases of a call under way are one to a caller.
LEMMA Answers ==
  ASSUME TypeOK, NEW p \in Proc, NEW r, Return(p, r)
  PROVE  Contract!Answer(p, r)
<1> DEFINE under(ph) == [q \in Proc |-> IF ph[q] = "idle" THEN "idle" ELSE "called"]
<1>1. under(phase)' = [under(phase) EXCEPT ![p] = "idle"]
  BY DEF Return, TypeOK, CallTypeOK
<1>2. [q \in Proc |-> NoEntry] = [[q \in Proc |-> NoEntry] EXCEPT ![p] = NoEntry]
  OBVIOUS
<1> QED
  BY <1>1, <1>2, SameCalls DEF Contract!Answer, Return

\* The map and the sessions are left as they are, or lose what has expired.
LEMMA NothingEvicted ==
  ASSUME TypeOK, UNCHANGED <<tokens, sessions>>, NEW t
  PROVE  Contract!EvictSome(t)
<1>1. tokens' = Drop(tokens, {})
  BY DEF Drop, TypeOK, StoreTypeOK
<1>2. sessions' = [s \in Subject |-> IF s \in {} THEN NoEntry ELSE sessions[s]]
  BY DEF TypeOK, StoreTypeOK
<1> QED
  BY <1>1, <1>2, SameMaps DEF Contract!EvictSome

LEMMA ExpiredEvicted ==
  ASSUME TypeOK, NEW t \in Nat, t <= now,
         NEW K, \A k \in K \cap Stored(tokens) : EntryExpired(tokens[k], t),
         tokens' = Drop(tokens, K), UNCHANGED sessions
  PROVE  Contract!EvictSome(now)
<1> DEFINE E == K \cap Stored(tokens)
<1>1. tokens' = Drop(tokens, E)
  <2>1. \A k \in Token : (IF k \in K THEN NoEntry ELSE tokens[k])
                            = IF k \in E THEN NoEntry ELSE tokens[k]
    BY DEF Stored
  <2> HIDE DEF E
  <2> QED
    BY <2>1 DEF Drop
<1>2. E \subseteq Stored(tokens) \ Live(tokens, now)
  <2>1. ASSUME NEW k \in E
        PROVE  EntryExpired(tokens[k], now)
    <3>1. tokens[k] \in Entry
      BY DEF Stored, TypeOK, StoreTypeOK
    <3>2. tokens[k].expiresAt \in Deadline /\ tokens[k].state.expiresAt \in Deadline
      BY <3>1 DEF Entry, State
    <3>3. now \in Nat
      BY StoreAssumption DEF TypeOK, CallTypeOK
    <3> QED
      BY <3>2, <3>3, ExpiredStays DEF EntryExpired, IsExpired
  <2> QED
    BY <2>1 DEF Live
<1> DEFINE without(S) == [s \in Subject |-> IF s \in S THEN NoEntry ELSE sessions[s]]
<1>3. sessions' = without({})
  BY DEF TypeOK, StoreTypeOK
<1>4. \E X \in SUBSET (Contract!Stored(tokens) \ Contract!Live(tokens, now)) :
        tokens' = Contract!Drop(tokens, X)
  <2> HIDE DEF E
  <2> QED
    BY <1>1, <1>2, SameMaps
<1>5. \E S \in SUBSET {s \in Subject : ~Contract!SessionLive(s, now)} : sessions' = without(S)
  <2>1. \A X : {} \in SUBSET X
    OBVIOUS
  <2> HIDE DEF without
  <2> QED
    BY <1>3, <2>1
<1> QED
  BY <1>4, <1>5 DEF Contract!EvictSome

-----------------------------------------------------------------------------
\* The clock reading of a call is one of the contract's.
LEMMA Readings ==
  ASSUME TypeOK, NEW p \in Proc
  PROVE  begun[p] \in begun[p] .. now /\ now \in begun[p] .. now /\ begun[p] \in Nat
BY StoreAssumption DEF TypeOK, CallTypeOK

\* A critical section that reports on the map it finds.
LEMMA Reports ==
  ASSUME TypeOK, NEW p \in Proc, phase[p] # "idle", NEW r, Return(p, r),
         Contract!EvictSome(now),
         r \in Contract!ReadAnswers(req[p], View(req[p], tokens, sessions), begun[p])
  PROVE  Contract!Next
<1>1. Contract!Answer(p, r)
  BY Answers
<1>2. Contract!Report(p)
  BY <1>1, Readings, SameCalls DEF Contract!Report
<1> QED
  BY <1>2 DEF Contract!Next

\* A critical section in which a call takes effect.
LEMMA Performs ==
  ASSUME TypeOK, NEW p \in Proc, phase[p] # "idle",
         NEW t \in {begun[p], now}, NEW u \in {begun[p], now},
         \/ Contract!Save(p, req[p], t)
         \/ Contract!CompareAndSwap(p, req[p], t, u)
         \/ Contract!ConsumeState(p, req[p], t)
         \/ Contract!Delete(p, req[p])
         \/ Contract!DeleteAll(p, req[p])
         \/ Contract!SaveSession(p, req[p], t)
         \/ Contract!EnsureSession(p, req[p], t)
         \/ Contract!DeleteSession(p, req[p])
  PROVE  Contract!Next
<1>1. t \in begun[p] .. now /\ u \in begun[p] .. now
  BY Readings
<1>2. Contract!Perform(p)
  BY <1>1 DEF Contract!Perform
<1> QED
  BY <1>2 DEF Contract!Next

\* What a call on one key, on the keys of a subject or on a session has to look at.
LEMMA Views ==
  ASSUME TypeOK, NEW p \in Proc, phase[p] # "idle"
  PROVE  /\ req[p].op \in {"Get", "Consume"} =>
              View(req[p], tokens, sessions).entries
                = [k \in {req[p].key} \cap Stored(tokens) |-> tokens[k]]
         /\ req[p].op = "Find" =>
              View(req[p], tokens, sessions).entries
                = [k \in OfSubject(tokens, req[p].subject, req[p].kinds) |-> tokens[k]]
         /\ req[p].op = "GetSession" =>
              View(req[p], tokens, sessions).session = sessions[req[p].subject]
<1>1. CASE req[p].op \in {"Get", "Consume"}
  <2>1. req[p] \in Call
    BY DEF TypeOK, CallTypeOK
  <2>2. "key" \in DOMAIN req[p]
    BY <1>1, <2>1 DEF Call, TokenCall, SessionCall
  <2>3. {req[p].key} \cap Stored(tokens) = Stored(tokens) \cap {req[p].key}
    OBVIOUS
  <2> QED
    BY <1>1, <2>2, <2>3 DEF View
<1>2. CASE req[p].op = "Find"
  BY <1>2 DEF View
<1>3. CASE req[p].op = "GetSession"
  BY <1>3 DEF View
<1> QED
  BY <1>1, <1>2, <1>3

\* A report names the live entries of what was looked at.
LEMMA LiveReported ==
  ASSUME NEW c, NEW view, NEW t, c.op \in {"Get", "Find"}
  PROVE  Reported({k \in DOMAIN view.entries : ~EntryExpired(view.entries[k], t)}, view.entries)
           \in Contract!ReadAnswers(c, view, t)
<1> DEFINE live == {k \in DOMAIN view.entries : ~Contract!EntryExpired(view.entries[k], t)}
           With(K) == {Contract!Reported(live \cup L, view.entries) : L \in SUBSET K}
<1>1. live = {k \in DOMAIN view.entries : ~EntryExpired(view.entries[k], t)}
  BY SameMaps
<1>2. \A K : Contract!Reported(live, view.entries) \in With(K)
  <2>1. live \cup {} = live /\ \A K : {} \in SUBSET K
    OBVIOUS
  <2> HIDE DEF live
  <2> QED
    BY <2>1
<1>3. Reported(live, view.entries) = Contract!Reported(live, view.entries)
  BY SameCalls
<1>4. CASE c.op = "Get"
  <2>1. Contract!ReadAnswers(c, view, t) = With({})
    BY <1>4 DEF Contract!ReadAnswers
  <2> HIDE DEF live, With
  <2> QED
    BY <1>1, <1>2, <1>3, <2>1
<1>5. CASE c.op = "Find"
  <2>1. Contract!ReadAnswers(c, view, t) = With(DOMAIN view.entries)
    BY <1>5 DEF Contract!ReadAnswers
  <2> HIDE DEF live, With
  <2> QED
    BY <1>1, <1>2, <1>3, <2>1
<1> QED
  BY <1>4, <1>5

-----------------------------------------------------------------------------
\* Time passes and calls arrive alike; a refusal changes nothing.
LEMMA TickMaps ==
  ASSUME TypeOK, Tick
  PROVE  Contract!Next
<1>1. Contract!EvictSome(now')
  BY NothingEvicted DEF Tick
<1>2. [q \in Proc |-> IF phase[q] = "idle" THEN "idle" ELSE "called"]'
        = [q \in Proc |-> IF phase[q] = "idle" THEN "idle" ELSE "called"]
  BY DEF Tick
<1> QED
  BY <1>1, <1>2 DEF Tick, Contract!Next, Contract!Tick

LEMMA BeginMaps ==
  ASSUME TypeOK, NEW p \in Proc, Begin(p)
  PROVE  Contract!Next
<1> DEFINE under(ph) == [q \in Proc |-> IF ph[q] = "idle" THEN "idle" ELSE "called"]
<1>1. under(phase)' = [under(phase) EXCEPT ![p] = "called"] /\ under(phase)[p] = "idle"
  <2>1. phase' = [phase EXCEPT ![p] = "called"] /\ phase[p] = "idle"
    BY DEF Begin
  <2> QED
    BY <2>1 DEF TypeOK, CallTypeOK
<1>2. Contract!NextCalls(res[p]) = NextCalls(res[p])
  BY SameCalls
<1>3. Contract!Begin(p)
  BY <1>1, <1>2 DEF Begin, Contract!Begin
<1> QED
  BY <1>3 DEF Contract!Next

LEMMA RefuseMaps ==
  ASSUME TypeOK, NEW p \in Proc, Refuse(p)
  PROVE  Contract!Next
<1>1. Contract!Answer(p, Refused) /\ Contract!Refused = Refused
  BY Answers, SameCalls DEF Refuse
<1>2. Contract!Refuse(p)
  BY <1>1 DEF Refuse, Contract!Refuse
<1> QED
  BY <1>2 DEF Contract!Next

\* Get leaves the read lock to come back for the write lock: a caller sees nothing.
LEMMA RecheckMaps ==
  ASSUME TypeOK, NEW p \in Proc, phase[p] = "called",
         phase' = [phase EXCEPT ![p] = "recheck"],
         UNCHANGED <<now, tokens, sessions, req, begun, res>>
  PROVE  UNCHANGED Contract!vars
<1>1. [q \in Proc |-> IF phase[q] = "idle" THEN "idle" ELSE "called"]'
        = [q \in Proc |-> IF phase[q] = "idle" THEN "idle" ELSE "called"]
  BY DEF TypeOK, CallTypeOK
<1> QED
  BY <1>1 DEF Contract!vars

-----------------------------------------------------------------------------
\* The operations on tokens that write.
LEMMA SaveMaps ==
  ASSUME TypeOK, NEW p \in Proc, SaveTokenState(p)
  PROVE  Contract!Next
<1>1. Contract!Answer(p, Contract!Done)
  BY Answers, SameCalls DEF SaveTokenState
<1>2. Contract!Save(p, req[p], begun[p])
  BY <1>1, SameStates, SameMaps
     DEF SaveTokenState, Called, StoreLocked, Contract!Save
<1> QED
  BY <1>2, Performs DEF SaveTokenState, Called

LEMMA SwapMaps ==
  ASSUME TypeOK, NEW p \in Proc, CompareAndSwapTokenState(p)
  PROVE  Contract!Next
<1>1. \A r : Return(p, r) => Contract!Answer(p, r)
  BY Answers
<1>2. Contract!CompareAndSwap(p, req[p], begun[p], now)
  BY <1>1, SameStates, SameMaps, SameCalls
     DEF CompareAndSwapTokenState, Called, StoreLocked, Contract!CompareAndSwap
<1> QED
  BY <1>2, Performs DEF CompareAndSwapTokenState, Called

LEMMA DeleteMaps ==
  ASSUME TypeOK, NEW p \in Proc, DeleteTokenState(p)
  PROVE  Contract!Next
<1>1. Contract!Answer(p, Contract!Done)
  BY Answers, SameCalls DEF DeleteTokenState
<1>2. Contract!Delete(p, req[p])
  BY <1>1, SameMaps DEF DeleteTokenState, DeleteTokensLocked, Called, Contract!Delete
<1> QED
  BY <1>2, Performs DEF DeleteTokenState, Called

\* The index is complete, so the walk over it deletes what a scan would.
LEMMA DeleteAllMaps ==
  ASSUME TypeOK, IndexConsistent, NEW p \in Proc, DeleteTokenStates(p)
  PROVE  Contract!Next
<1>1. Contract!Answer(p, Contract!Done)
  BY Answers, SameCalls DEF DeleteTokenStates
<1>2. req[p].subject \in Subject
  BY CallFields DEF DeleteTokenStates, Called, TypeOK
<1>3. {k \in indexes[req[p].subject] \cap Stored(tokens) :
         MatchKind(tokens[k].state.kind, req[p].kinds)}
        = OfSubject(tokens, req[p].subject, req[p].kinds)
  BY <1>2 DEF IndexConsistent, OfSubject, MatchKind
<1>4. tokens' = Drop(tokens, OfSubject(tokens, req[p].subject, req[p].kinds))
  BY <1>3 DEF DeleteTokenStates, DeleteTokensLocked
<1>5. Contract!DeleteAll(p, req[p])
  BY <1>1, <1>4, SameMaps DEF DeleteTokenStates, Called, Contract!DeleteAll
<1> QED
  BY <1>5, Performs DEF DeleteTokenStates, Called

-----------------------------------------------------------------------------
\* Get answers what it finds live under the lock it holds.
LEMMA GetReports ==
  ASSUME TypeOK, NEW p \in Proc, phase[p] # "idle", req[p].op = "Get",
         NEW r, r = Reported({k \in {req[p].key} \cap Stored(tokens) :
                                ~EntryExpired(tokens[k], begun[p])}, tokens)
  PROVE  r \in Contract!ReadAnswers(req[p], View(req[p], tokens, sessions), begun[p])
<1> DEFINE view == View(req[p], tokens, sessions)
           live == {k \in DOMAIN view.entries : ~EntryExpired(view.entries[k], begun[p])}
<1>1. view.entries = [k \in {req[p].key} \cap Stored(tokens) |-> tokens[k]]
  BY Views
<1>2. live = {k \in {req[p].key} \cap Stored(tokens) : ~EntryExpired(tokens[k], begun[p])}
  BY <1>1
<1>3. \A k \in live : view.entries[k] = tokens[k]
  BY <1>1, <1>2
<1>4. Reported(live, view.entries) \in Contract!ReadAnswers(req[p], view, begun[p])
  BY LiveReported
<1> HIDE DEF view, live
<1>5. Reported(live, view.entries) = Reported(live, tokens)
  BY <1>3, ReportedAlike
<1> QED
  BY <1>2, <1>4, <1>5 DEF view

LEMMA GetReadMaps ==
  ASSUME TypeOK, NEW p \in Proc, GetRead(p)
  PROVE  Contract!Next \/ UNCHANGED Contract!vars
<1> DEFINE k == req[p].key
<1>1. phase[p] = "called" /\ req[p].op = "Get" /\ UNCHANGED <<tokens, sessions>>
  BY DEF GetRead, Called
<1>2. CASE tokens[k] # NoEntry /\ EntryExpired(tokens[k], begun[p])
  <2>1. /\ phase' = [phase EXCEPT ![p] = "recheck"]
        /\ UNCHANGED <<now, req, begun, res>>
    BY <1>2 DEF GetRead
  <2> QED
    BY <1>1, <2>1, RecheckMaps
<1>3. CASE ~(tokens[k] # NoEntry /\ EntryExpired(tokens[k], begun[p]))
  <2>1. Return(p, Reported({k} \cap Stored(tokens), tokens))
    BY <1>3 DEF GetRead
  <2>2. {j \in {k} \cap Stored(tokens) : ~EntryExpired(tokens[j], begun[p])}
          = {k} \cap Stored(tokens)
    BY <1>3 DEF Stored
  <2>3. Contract!EvictSome(now)
    BY <1>1, NothingEvicted
  <2> QED
    BY <1>1, <2>1, <2>2, <2>3, GetReports, Reports
<1> QED
  BY <1>2, <1>3

LEMMA GetRecheckMaps ==
  ASSUME TypeOK, NEW p \in Proc, GetRecheck(p)
  PROVE  Contract!Next
<1> DEFINE k == req[p].key
<1>1. phase[p] = "recheck" /\ req[p].op = "Get" /\ UNCHANGED sessions
  BY DEF GetRecheck
<1>2. CASE tokens[k] # NoEntry /\ EntryExpired(tokens[k], begun[p])
  <2>1. tokens' = Drop(tokens, {k}) /\ Return(p, Done)
    BY <1>2 DEF GetRecheck, DeleteTokensLocked
  <2>2. Contract!EvictSome(now)
    <3>1. \A j \in {k} \cap Stored(tokens) : EntryExpired(tokens[j], begun[p])
      BY <1>2
    <3>2. begun[p] \in Nat /\ begun[p] <= now
      BY Readings DEF TypeOK, CallTypeOK
    <3> QED
      BY <1>1, <2>1, <3>1, <3>2, ExpiredEvicted
  <2>3. {j \in {k} \cap Stored(tokens) : ~EntryExpired(tokens[j], begun[p])} = {}
    BY <1>2
  <2>4. Done = Reported({}, tokens)
    BY NothingReported
  <2> QED
    BY <1>1, <2>1, <2>2, <2>3, <2>4, GetReports, Reports
<1>3. CASE ~(tokens[k] # NoEntry /\ EntryExpired(tokens[k], begun[p]))
  <2>1. UNCHANGED tokens /\ Return(p, Reported({k} \cap Stored(tokens), tokens))
    BY <1>3 DEF GetRecheck
  <2>2. {j \in {k} \cap Stored(tokens) : ~EntryExpired(tokens[j], begun[p])}
          = {k} \cap Stored(tokens)
    BY <1>3 DEF Stored
  <2>3. Contract!EvictSome(now)
    BY <1>1, <2>1, NothingEvicted
  <2> QED
    BY <1>1, <2>1, <2>2, <2>3, GetReports, Reports
<1> QED
  BY <1>2, <1>3

\* A consumption that finds nothing live evicts what it found and answers nothing.
LEMMA ConsumeMaps ==
  ASSUME TypeOK, NEW p \in Proc, ConsumeTokenState(p)
  PROVE  Contract!Next
<1> DEFINE k    == req[p].key
           view == View(req[p], tokens, sessions)
           live == {j \in DOMAIN view.entries : ~Contract!EntryExpired(view.entries[j], begun[p])}
<1>1. /\ phase[p] = "called" /\ req[p].op = "Consume" /\ UNCHANGED sessions
      /\ k \in Token /\ begun[p] \in Nat /\ begun[p] <= now
  BY CallFields DEF ConsumeTokenState, Called, TypeOK, CallTypeOK
<1>2. CASE tokens[k] = NoEntry \/ EntryExpired(tokens[k], begun[p])
  <2>1. tokens' = Drop(tokens, {k}) /\ Return(p, Done)
    BY <1>2 DEF ConsumeTokenState, DeleteTokensLocked
  <2>2. Contract!EvictSome(now)
    <3>1. \A j \in {k} \cap Stored(tokens) : EntryExpired(tokens[j], begun[p])
      BY <1>2 DEF Stored
    <3> QED
      BY <1>1, <2>1, <3>1, ExpiredEvicted
  <2>3. Done \in Contract!ReadAnswers(req[p], view, begun[p])
    <3>1. view.entries = [j \in {k} \cap Stored(tokens) |-> tokens[j]]
      BY <1>1, Views
    <3>2. live = {}
      BY <1>2, <3>1, SameMaps DEF Stored
    <3>3. Contract!Reported({} \cup {}, view.entries) = Done
      BY SameCalls, NothingReported
    <3>4. \A E : Done \in {Contract!Reported(live \cup L, view.entries) : L \in SUBSET E}
      <4>1. \A E : {} \in SUBSET E
        OBVIOUS
      <4> HIDE DEF view, live
      <4> QED
        BY <3>2, <3>3, <4>1
    <3>5. Contract!ReadAnswers(req[p], view, begun[p])
            = {Contract!Reported(live \cup L, view.entries) :
                 L \in SUBSET {j \in DOMAIN view.entries :
                                 Contract!IsExpired(view.entries[j].state, begun[p])}}
      <4>1. ~\E j \in live :
               Contract!Consumable(view.entries[j].state, req[p].kinds, begun[p])
        BY <3>2
      <4> HIDE DEF view
      <4> QED
        BY <1>1, <4>1 DEF Contract!ReadAnswers
    <3> HIDE DEF view, live
    <3> QED
      BY <3>4, <3>5
  <2> QED
    BY <1>1, <2>1, <2>2, <2>3, Reports
<1>3. CASE ~(tokens[k] = NoEntry \/ EntryExpired(tokens[k], begun[p]))
  <2>1. tokens' = Consume(tokens, k, req[p].kinds, begun[p])
    BY <1>3 DEF ConsumeTokenState
  <2>2. Contract!Answer(p, Contract!Reported({k}, tokens))
    <3>1. Return(p, Reported({k}, tokens))
      BY <1>3 DEF ConsumeTokenState
    <3>2. PICK r : r = Reported({k}, tokens)
      OBVIOUS
    <3>3. Return(p, r)
      BY <3>1, <3>2 DEF Return
    <3>4. Contract!Answer(p, r)
      BY <3>3, Answers
    <3>5. r = Contract!Reported({k}, tokens)
      BY <3>2, SameCalls
    <3> HIDE DEF k
    <3> QED
      BY <3>4, <3>5 DEF Contract!Answer
  <2>3. k \in Contract!Live(tokens, begun[p])
    BY <1>1, <1>3, SameMaps DEF Live, Stored
  <2>4. Contract!ConsumeState(p, req[p], begun[p])
    BY <1>1, <2>1, <2>2, <2>3, SameMaps DEF Contract!ConsumeState
  <2> QED
    BY <1>1, <2>4, Performs
<1> QED
  BY <1>2, <1>3

\* The index is complete, so the walk over it finds what a scan would.
LEMMA FindMaps ==
  ASSUME TypeOK, IndexConsistent, NEW p \in Proc, FindTokenStates(p)
  PROVE  Contract!Next
<1> DEFINE s        == req[p].subject
           dangling == indexes[s] \ Stored(tokens)
           expired  == {k \in indexes[s] \ dangling : EntryExpired(tokens[k], begun[p])}
           matching == {k \in indexes[s] \ (dangling \cup expired) :
                          MatchKind(tokens[k].state.kind, req[p].kinds)}
           view     == View(req[p], tokens, sessions)
           live     == {k \in DOMAIN view.entries : ~EntryExpired(view.entries[k], begun[p])}
<1>1. /\ phase[p] = "called" /\ req[p].op = "Find" /\ UNCHANGED sessions
      /\ s \in Subject /\ begun[p] \in Nat /\ begun[p] <= now
  BY CallFields DEF FindTokenStates, Called, TypeOK, CallTypeOK
<1>2. tokens' = Drop(tokens, expired) /\ Return(p, Reported(matching, tokens))
  BY DEF FindTokenStates
<1>3. Contract!EvictSome(now)
  <2>1. \A k \in expired \cap Stored(tokens) : EntryExpired(tokens[k], begun[p])
    OBVIOUS
  <2> HIDE DEF expired
  <2> QED
    BY <1>1, <1>2, <2>1, ExpiredEvicted
<1>4. view.entries = [k \in OfSubject(tokens, s, req[p].kinds) |-> tokens[k]]
  BY <1>1, Views
<1>5. matching = live
  <2>1. indexes[s] = OfSubject(tokens, s, {}) /\ dangling = {}
    BY <1>1 DEF IndexConsistent, OfSubject
  <2>2. matching = {k \in OfSubject(tokens, s, req[p].kinds) : ~EntryExpired(tokens[k], begun[p])}
    BY <2>1 DEF OfSubject, MatchKind
  <2> QED
    BY <1>4, <2>2
<1>6. Reported(live, view.entries) = Reported(live, tokens)
  <2>1. \A k \in live : view.entries[k] = tokens[k]
    BY <1>4
  <2> HIDE DEF view, live
  <2> QED
    BY <2>1, ReportedAlike
<1>7. Reported(live, view.entries) \in Contract!ReadAnswers(req[p], view, begun[p])
  BY <1>1, LiveReported
<1>8. Reported(matching, tokens) \in Contract!ReadAnswers(req[p], view, begun[p])
  <2> HIDE DEF view, live, matching
  <2> QED
    BY <1>5, <1>6, <1>7
<1> QED
  <2> HIDE DEF matching
  <2> QED
    BY <1>1, <1>2, <1>3, <1>8, Reports

-----------------------------------------------------------------------------
\* The operations on sessions.
LEMMA SaveSessionMaps ==
  ASSUME TypeOK, NEW p \in Proc, SaveSession(p)
  PROVE  Contract!Next
<1>1. Contract!Answer(p, Contract!Done)
  BY Answers, SameCalls DEF SaveSession
<1>2. Contract!SaveSession(p, req[p], begun[p])
  BY <1>1, SameStates
     DEF SaveSession, Called, Contract!SaveSession, Contract!SetSession
<1> QED
  BY <1>2, Performs DEF SaveSession, Called

LEMMA EnsureSessionMaps ==
  ASSUME TypeOK, NEW p \in Proc, EnsureSession(p)
  PROVE  Contract!Next
<1>1. Contract!Answer(p, Contract!Done)
  BY Answers, SameCalls DEF EnsureSession
<1>2. Contract!SessionLive(req[p].subject, now)
        <=> ~(sessions[req[p].subject] = NoEntry \/ SessionExpired(req[p].subject, now))
  BY SameStates DEF Contract!SessionLive, SessionExpired
<1>3. Contract!EnsureSession(p, req[p], now)
  BY <1>1, <1>2, SameStates
     DEF EnsureSession, Called, Contract!EnsureSession, Contract!SetSession
<1> QED
  BY <1>3, Performs DEF EnsureSession, Called

LEMMA DeleteSessionMaps ==
  ASSUME TypeOK, NEW p \in Proc, DeleteSession(p)
  PROVE  Contract!Next
<1>1. Contract!Answer(p, Contract!Done)
  BY Answers, SameCalls DEF DeleteSession
<1>2. Contract!DeleteSession(p, req[p])
  BY <1>1 DEF DeleteSession, Called, Contract!DeleteSession, Contract!SetSession
<1> QED
  BY <1>2, Performs DEF DeleteSession, Called

\* A session is reported as it is: missing, expired or its data.
LEMMA SessionReports ==
  ASSUME TypeOK, NEW p \in Proc, phase[p] # "idle", req[p].op = "GetSession",
         NEW t, NEW r,
         LET s == req[p].subject IN
           r = IF sessions[s] = NoEntry \/ SessionExpired(s, t) THEN Done
               ELSE [Done EXCEPT !.data = sessions[s].data]
  PROVE  r \in Contract!ReadAnswers(req[p], View(req[p], tokens, sessions), t)
<1> DEFINE s == req[p].subject
           view == View(req[p], tokens, sessions)
<1>1. view.session = sessions[s]
  BY Views
<1>2. Contract!ReadAnswers(req[p], view, t)
        = IF view.session = NoEntry THEN {Contract!Done}
          ELSE IF Contract!Passed(view.session.expiresAt, t) THEN {Contract!Done}
          ELSE {[Contract!Done EXCEPT !.data = view.session.data]}
  <2> HIDE DEF view
  <2> QED
    BY DEF Contract!ReadAnswers
<1> HIDE DEF view
<1>3. r \in Contract!ReadAnswers(req[p], view, t)
  BY <1>1, <1>2, SameCalls, SameStates DEF SessionExpired
<1> QED
  BY <1>3 DEF view

LEMMA SessionEvicted ==
  ASSUME TypeOK, NEW s \in Subject, NEW t \in Nat, t <= now,
         sessions[s] = NoEntry \/ SessionExpired(s, t),
         sessions' = [sessions EXCEPT ![s] = NoEntry], UNCHANGED tokens
  PROVE  Contract!EvictSome(now)
<1>1. tokens' = Drop(tokens, {})
  BY DEF Drop, TypeOK, StoreTypeOK
<1>2. sessions' = [x \in Subject |-> IF x \in {s} THEN NoEntry ELSE sessions[x]]
  BY DEF TypeOK, StoreTypeOK
<1>3. ~Contract!SessionLive(s, now)
  <2>1. CASE sessions[s] = NoEntry
    BY <2>1 DEF Contract!SessionLive
  <2>2. CASE sessions[s] # NoEntry
    <3>1. sessions[s].expiresAt \in Deadline /\ Passed(sessions[s].expiresAt, t)
      BY <2>2 DEF TypeOK, StoreTypeOK, SessionItem, SessionExpired
    <3>2. Passed(sessions[s].expiresAt, now)
      BY <3>1, ExpiredStays, StoreAssumption DEF TypeOK, CallTypeOK
    <3> QED
      BY <3>2, SameStates DEF Contract!SessionLive
  <2> QED
    BY <2>1, <2>2
<1>4. {s} \in SUBSET {x \in Subject : ~Contract!SessionLive(x, now)}
  BY <1>3
<1> QED
  BY <1>1, <1>2, <1>4, SameMaps DEF Contract!EvictSome

LEMMA GetSessionReadMaps ==
  ASSUME TypeOK, NEW p \in Proc, GetSessionRead(p)
  PROVE  Contract!Next \/ UNCHANGED Contract!vars
<1> DEFINE s == req[p].subject
<1>1. phase[p] = "called" /\ req[p].op = "GetSession" /\ UNCHANGED <<tokens, sessions>>
  BY DEF GetSessionRead, Called
<1>2. CASE sessions[s] # NoEntry /\ SessionExpired(s, begun[p])
  <2>1. /\ phase' = [phase EXCEPT ![p] = "recheck"]
        /\ UNCHANGED <<now, req, begun, res>>
    BY <1>2 DEF GetSessionRead
  <2> QED
    BY <1>1, <2>1, RecheckMaps
<1>3. CASE ~(sessions[s] # NoEntry /\ SessionExpired(s, begun[p]))
  <2>1. PICK r : r = IF sessions[s] = NoEntry \/ SessionExpired(s, begun[p]) THEN Done
                     ELSE [Done EXCEPT !.data = sessions[s].data]
    OBVIOUS
  <2>2. Return(p, r)
    BY <1>3, <2>1 DEF GetSessionRead, Return
  <2>3. r \in Contract!ReadAnswers(req[p], View(req[p], tokens, sessions), begun[p])
    BY <1>1, <2>1, SessionReports
  <2>4. Contract!EvictSome(now)
    BY <1>1, NothingEvicted
  <2> QED
    BY <1>1, <2>2, <2>3, <2>4, Reports
<1> QED
  BY <1>2, <1>3

LEMMA GetSessionRecheckMaps ==
  ASSUME TypeOK, NEW p \in Proc, GetSessionRecheck(p)
  PROVE  Contract!Next
<1> DEFINE s == req[p].subject
<1>1. /\ phase[p] = "recheck" /\ req[p].op = "GetSession" /\ UNCHANGED tokens
      /\ s \in Subject /\ begun[p] \in Nat /\ begun[p] <= now
  BY CallFields DEF GetSessionRecheck, TypeOK, CallTypeOK
<1>2. PICK r : r = IF sessions[s] = NoEntry \/ SessionExpired(s, begun[p]) THEN Done
                   ELSE [Done EXCEPT !.data = sessions[s].data]
  OBVIOUS
<1>3. Return(p, r)
  BY <1>2 DEF GetSessionRecheck, Return
<1>4. r \in Contract!ReadAnswers(req[p], View(req[p], tokens, sessions), begun[p])
  BY <1>1, <1>2, SessionReports
<1>5. Contract!EvictSome(now)
  <2>1. CASE sessions[s] = NoEntry \/ SessionExpired(s, begun[p])
    <3>1. sessions' = [sessions EXCEPT ![s] = NoEntry]
      BY <2>1 DEF GetSessionRecheck
    <3> QED
      BY <1>1, <2>1, <3>1, SessionEvicted
  <2>2. CASE ~(sessions[s] = NoEntry \/ SessionExpired(s, begun[p]))
    <3>1. UNCHANGED sessions
      BY <2>2 DEF GetSessionRecheck
    <3> QED
      BY <1>1, <3>1, NothingEvicted
  <2> QED
    BY <2>1, <2>2
<1> QED
  BY <1>1, <1>3, <1>4, <1>5, Reports

-----------------------------------------------------------------------------
\* Each step is one of the contract, or one that no caller can see.
LEMMA StepMaps ==
  ASSUME TypeOK, IndexConsistent, [Next]_vars
  PROVE  Contract!Next \/ UNCHANGED Contract!vars
<1>1. CASE UNCHANGED vars
  BY <1>1 DEF vars, Contract!vars
<1>2. CASE Tick
  BY <1>2, TickMaps
<1>3. ASSUME NEW p \in Proc, Begin(p) \/ Refuse(p)
      PROVE  Contract!Next
  BY <1>3, BeginMaps, RefuseMaps
<1>4. ASSUME NEW p \in Proc, TokenStep(p)
      PROVE  Contract!Next \/ UNCHANGED Contract!vars
  BY <1>4, SaveMaps, SwapMaps, GetReadMaps, GetRecheckMaps, ConsumeMaps, DeleteMaps,
     FindMaps, DeleteAllMaps DEF TokenStep
<1>5. ASSUME NEW p \in Proc, SessionStep(p)
      PROVE  Contract!Next \/ UNCHANGED Contract!vars
  BY <1>5, SaveSessionMaps, EnsureSessionMaps, GetSessionReadMaps, GetSessionRecheckMaps,
     DeleteSessionMaps DEF SessionStep
<1> QED
  BY <1>1, <1>2, <1>3, <1>4, <1>5 DEF Next

\* Every behaviour of the memory store, with its clock read outside the lock, its
\* two critical sections in Get and its index, is one of the contract's: to its
\* callers each call is atomic.
THEOREM StoreImplements == Spec => ImplementsContract
<1>1. Init => Contract!Init
  BY SameCalls DEF Init, Contract!Init
<1>2. TypeOK /\ IndexConsistent /\ [Next]_vars => [Contract!Next]_(Contract!vars)
  BY StepMaps
<1> QED
  BY <1>1, <1>2, TypeCorrect, IndexCorrect, PTL DEF Spec, ImplementsContract, Contract!Spec

-----------------------------------------------------------------------------
(* Session data.                                                            *)

\* What has passed at an earlier reading of the clock has passed.
LEMMA PassedSince ==
  ASSUME NEW d \in Deadline, NEW t \in Nat, NEW u \in Nat, t <= u, Passed(d, t)
  PROVE  Passed(d, u)
BY DEF Passed, Deadline, Never

\* A session whose data a step changes had ended, or was saved or deleted.
DataKept(s) == sessions'[s] # NoEntry /\ sessions'[s].data = sessions[s].data

LEMMA FailedIsNoCall == Failed \notin Call
<1>1. "op" \notin DOMAIN Failed
  BY DEF Failed, Done
<1>2. \A c \in Call : "op" \in DOMAIN c
  BY DEF Call, TokenCall, SessionCall
<1> QED
  BY <1>1, <1>2

LEMMA EndsChanged ==
  ASSUME TypeOK, NEW p \in Proc, NEW r, phase[p] = "called", Return(p, r)
  PROVE  phase'[p] # phase[p] /\ req[p] # Failed
<1>1. phase'[p] = "idle" /\ req[p] \in Call
  BY DEF TypeOK, CallTypeOK, Return
<1> QED
  BY <1>1, FailedIsNoCall

LEMMA StepKeepsData ==
  ASSUME TypeOK, NEW p \in Proc, SessionStep(p), NEW s \in Subject,
         sessions[s] # NoEntry, ~SessionExpired(s, now),
         phase'[p] # phase[p] => req[p] = Failed \/ req[p].op \notin {"SaveSession", "DeleteSession"}
  PROVE  DataKept(s)
<1>1. /\ sessions \in [Subject -> SessionItem \cup {NoEntry}] /\ sessions[s] \in SessionItem
      /\ NoEntry \notin SessionItem
      /\ begun[p] \in Nat /\ now \in Nat /\ begun[p] <= now
  BY StoreAssumption DEF TypeOK, StoreTypeOK, CallTypeOK
<1>2. ~SaveSession(p) /\ ~DeleteSession(p)
  BY EndsChanged DEF SaveSession, DeleteSession, Called
<1>3. CASE EnsureSession(p)
  <2>1. req[p].subject \in Subject /\ DeadlineAfter(now, req[p].ttl) \in Deadline
    BY <1>1, <1>3, CallFields, DeadlineTyped DEF EnsureSession, Called, TypeOK
  <2>2. CASE s = req[p].subject
    <3>1. sessions'[s] = [data |-> sessions[s].data, expiresAt |-> DeadlineAfter(now, req[p].ttl)]
      BY <1>1, <1>3, <2>2 DEF EnsureSession
    <3>2. sessions'[s] \in SessionItem
      BY <1>1, <2>1, <3>1 DEF SessionItem
    <3> QED
      BY <1>1, <3>1, <3>2 DEF DataKept
  <2>3. CASE s # req[p].subject
    BY <1>1, <1>3, <2>3 DEF EnsureSession, DataKept
  <2> QED
    BY <2>2, <2>3
<1>4. CASE GetSessionRead(p)
  BY <1>4 DEF GetSessionRead, DataKept
<1>5. CASE GetSessionRecheck(p)
  <2>1. CASE UNCHANGED sessions
    BY <2>1 DEF DataKept
  <2>2. CASE /\ sessions' = [sessions EXCEPT ![req[p].subject] = NoEntry]
             /\ \/ sessions[req[p].subject] = NoEntry
                \/ SessionExpired(req[p].subject, begun[p])
    <3>1. s # req[p].subject
      <4>1. sessions[s].expiresAt \in Deadline
        BY <1>1 DEF SessionItem
      <4> QED
        BY <1>1, <2>2, <4>1, PassedSince DEF SessionExpired
    <3> QED
      BY <1>1, <2>2, <3>1 DEF DataKept
  <2> QED
    BY <1>5, <2>1, <2>2 DEF GetSessionRecheck
<1> QED
  BY <1>2, <1>3, <1>4, <1>5 DEF SessionStep

\* The data of a session that has not ended changes only when a SaveSession replaces it
\* and goes only when a DeleteSession removes it: EnsureSession renews a lifetime, and the
\* eviction in GetSession looks again at what it found expired (memory/store.go).
THEOREM SessionDataSafe == Spec => SessionDataKept
<1> DEFINE Kept == \A s \in Subject :
       (/\ sessions[s] # NoEntry
        /\ ~SessionExpired(s, now)
        /\ \A p \in Proc : res'[p] # res[p] \/ phase'[p] # phase[p]
             => req[p] = Failed \/ req[p].op \notin {"SaveSession", "DeleteSession"})
       => sessions'[s] # NoEntry /\ sessions'[s].data = sessions[s].data
<1>1. ASSUME TypeOK, [Next]_vars PROVE [Kept]_vars
  <2>1. CASE UNCHANGED sessions
    BY <2>1
  <2>2. ASSUME NEW p \in Proc, SessionStep(p) PROVE Kept
    BY <1>1, <2>2, StepKeepsData DEF DataKept
  <2>3. ASSUME NEW p \in Proc, TokenStep(p) PROVE UNCHANGED sessions
    BY <2>3 DEF TokenStep, SaveTokenState, CompareAndSwapTokenState, GetRead, GetRecheck,
                ConsumeTokenState, DeleteTokenState, FindTokenStates, DeleteTokenStates
  <2> QED
    BY <1>1, <2>1, <2>2, <2>3 DEF Next, Tick, Begin, Refuse, vars
<1> QED
  BY <1>1, TypeCorrect, PTL DEF Spec, SessionDataKept
=============================================================================
