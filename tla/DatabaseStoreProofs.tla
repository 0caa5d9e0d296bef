------------------------ MODULE DatabaseStoreProofs ------------------------
(***************************************************************************)
(* What holds of DatabaseStore for every set of rows, clients and inputs and *)
(* every bound on the clock: a state is consumed by one caller whether or    *)
(* not the dialect locks rows; where it does, the second SELECT of a         *)
(* consumption is never needed and the store implements AtomicStore.         *)
(***************************************************************************)
EXTENDS DatabaseStore, StoreCallsProofs

\* What is written is a token state, and a consumption names a row.
Writable(p) ==
  phase[p] # "idle" =>
    /\ req[p].op \in {"Save", "CAS"} => req[p].state \in State
    /\ req[p].op = "Consume" => "key" \in DOMAIN req[p] /\ req[p].key \in Token

\* The rows hold token states; the rest is functions of the right domain.
Shaped ==
  /\ DOMAIN tokens = Token /\ DOMAIN holder = Token /\ DOMAIN spent = Token
  /\ DOMAIN phase = Proc /\ DOMAIN req = Proc /\ DOMAIN seen = Proc
  /\ \A k \in Token : tokens[k] # NoEntry =>
       {"state", "expiresAt"} \subseteq DOMAIN tokens[k] /\ tokens[k].state \in State
  /\ \A p \in Proc : Writable(p)

\* A row that has been won since it was saved is not active any more.
WonIsSpent ==
  \A k \in Token :
    /\ spent[k] \in {0, 1}
    /\ spent[k] = 1 /\ tokens[k] # NoEntry => tokens[k].state.status # "active"

\* Where rows are locked, a consumption holds its row from its SELECT on, and the
\* row stays as it was read.
Held(p) ==
  rowLocks =>
    /\ phase[p] # "reload"
    /\ In(p, "Consume", "selected") =>
         /\ holder[req[p].key] = p
         /\ tokens[req[p].key] # NoEntry
         /\ Selected(p) = tokens[req[p].key]

Inv == Shaped /\ WonIsSpent /\ \A p \in Proc : Held(p)

-----------------------------------------------------------------------------
\* A row is either written with the state of the call, marked consumed, deleted or
\* left; only a write lets it be won again.
Written(p, k) ==
  /\ req[p].op \in {"Save", "CAS"} /\ phase[p] # "idle"
  /\ {"state", "expiresAt"} \subseteq DOMAIN tokens'[k]
  /\ tokens'[k].state = req[p].state
  /\ spent'[k] = 0

Won(p, k) ==
  /\ tokens[k] # NoEntry
  /\ tokens[k].state.status = "active"
  /\ tokens'[k] = [tokens[k] EXCEPT !.state = MarkConsumed(tokens[k].state)]
  /\ spent'[k] = spent[k] + 1

Deleted(k) == tokens'[k] = NoEntry /\ spent'[k] = spent[k]

Left(k) == tokens'[k] = tokens[k] /\ spent'[k] = spent[k]

LEMMA WriteTokenRow ==
  ASSUME Shaped, NEW p \in Proc, NEW d, phase[p] # "idle", req[p].op \in {"Save", "CAS"},
         WriteToken(p, req[p].key, req[p].state, d)
  PROVE  /\ DOMAIN tokens' = Token /\ DOMAIN spent' = Token
         /\ \A k \in Token : Left(k) \/ (Written(p, k) /\ Unlocked(p, {k}))
<1>1. /\ Unlocked(p, {req[p].key})
      /\ tokens' = [tokens EXCEPT ![req[p].key] = [state |-> req[p].state, expiresAt |-> d]]
      /\ spent' = [spent EXCEPT ![req[p].key] = 0]
  BY DEF WriteToken, Put
<1>2. ASSUME NEW k \in Token
      PROVE  Left(k) \/ (Written(p, k) /\ Unlocked(p, {k}))
  <2>1. CASE k = req[p].key
    <3> DEFINE row == [state |-> req[p].state, expiresAt |-> d]
    <3>1. row.state = req[p].state /\ {"state", "expiresAt"} \subseteq DOMAIN row
      OBVIOUS
    <3>2. tokens' = [tokens EXCEPT ![req[p].key] = row]
      BY <1>1
    <3> HIDE DEF row
    <3>3. tokens'[k] = row /\ spent'[k] = 0
      BY <1>1, <2>1, <3>2 DEF Shaped
    <3> QED
      BY <1>1, <2>1, <3>1, <3>3 DEF Written
  <2>2. CASE k # req[p].key
    BY <1>1, <2>2 DEF Shaped, Left
  <2> QED
    BY <2>1, <2>2
<1> QED
  BY <1>1, <1>2 DEF Shaped

LEMMA DropRows ==
  ASSUME Shaped, NEW p \in Proc, NEW K, tokens' = Drop(tokens, K), UNCHANGED spent,
         \A k \in K \cap Stored(tokens) : Unlocked(p, {k})
  PROVE  /\ DOMAIN tokens' = Token /\ DOMAIN spent' = Token
         /\ \A k \in Token : Left(k) \/ (Deleted(k) /\ Unlocked(p, {k}))
<1>1. DOMAIN tokens' = Token /\ DOMAIN spent' = Token
  BY DEF Drop, Shaped
<1>2. \A k \in Token : tokens'[k] = IF k \in K THEN NoEntry ELSE tokens[k]
  BY DEF Drop
<1>3. \A k \in Token : spent'[k] = spent[k]
  OBVIOUS
<1> QED
  BY <1>1, <1>2, <1>3 DEF Left, Deleted, Stored

\* What a statement does to a row, and that it waits for a row others have locked.
LEMMA StatementRow ==
  ASSUME Shaped, NEW p \in Proc, TokenStep(p) \/ SessionStep(p)
  PROVE  /\ DOMAIN tokens' = Token /\ DOMAIN spent' = Token
         /\ \A k \in Token :
              Left(k) \/ (Unlocked(p, {k}) /\ (Written(p, k) \/ Won(p, k) \/ Deleted(k)))
<1> USE DEF In
<1>1. CASE UNCHANGED <<tokens, spent>>
  BY <1>1 DEF Shaped, Left
<1>2. CASE SaveTokenState(p)
  BY <1>2, WriteTokenRow DEF SaveTokenState
<1>3. CASE CompareUpdate(p)
  <2>1. CASE UNCHANGED <<tokens, spent>>
    BY <1>1, <2>1
  <2>2. CASE ~UNCHANGED <<tokens, spent>>
    <3>1. PICK t : WriteToken(p, req[p].key, req[p].state,
                              EffectiveExpiresAt(req[p].state, begun[p], req[p].ttl))
      BY <1>3, <2>2 DEF CompareUpdate
    <3> QED
      BY <1>3, <3>1, WriteTokenRow DEF CompareUpdate
  <2> QED
    BY <2>1, <2>2
<1>4. CASE GetJudge(p)
  <2>1. CASE UNCHANGED tokens
    BY <1>1, <1>4, <2>1 DEF GetJudge
  <2>2. CASE ~UNCHANGED tokens
    <3>1. /\ Unlocked(p, {req[p].key})
          /\ UNCHANGED spent
          /\ \E K : K \subseteq {req[p].key} /\ tokens' = Drop(tokens, K)
      BY <1>4, <2>2 DEF GetJudge
    <3> QED
      BY <3>1, DropRows
  <2> QED
    BY <2>1, <2>2
<1>5. CASE ConsumeExpired(p) \/ DeleteTokenState(p)
  <2>1. /\ Unlocked(p, {req[p].key})
        /\ UNCHANGED spent
        /\ tokens' = Drop(tokens, {req[p].key})
    BY <1>5 DEF ConsumeExpired, DeleteTokenState
  <2> QED
    BY <2>1, DropRows
<1>6. CASE ConsumeUpdate(p)
  <2>1. CASE UNCHANGED <<tokens, spent>>
    BY <1>1, <2>1
  <2>2. CASE ~UNCHANGED <<tokens, spent>>
    <3> DEFINE k == req[p].key
    <3>1. PICK t : /\ Unlocked(p, {k})
                   /\ StillConsumable(p, t)
                   /\ tokens' = Rewrite(tokens, k, MarkConsumed(Selected(p).state))
                   /\ spent' = [spent EXCEPT ![k] = @ + 1]
      BY <1>6, <2>2 DEF ConsumeUpdate
    <3>2. /\ tokens[k] # NoEntry /\ tokens[k].state.status = "active"
          /\ tokens' = [tokens EXCEPT ![k] =
                          [tokens[k] EXCEPT !.state = MarkConsumed(tokens[k].state)]]
      BY <3>1 DEF StillConsumable, Rewrite
    <3> HIDE DEF k
    <3>3. \A j \in Token : IF j = k THEN Won(p, j) ELSE Left(j)
      BY <3>1, <3>2 DEF Shaped, Won, Left
    <3> QED
      BY <3>1, <3>2, <3>3 DEF Shaped
  <2> QED
    BY <2>1, <2>2
<1>7. CASE FindEvict(p)
  <2>1. PICK K : Unlocked(p, K) /\ tokens' = Drop(tokens, K) /\ UNCHANGED spent
    BY <1>7 DEF FindEvict
  <2>2. \A k \in K : Unlocked(p, {k})
    BY <2>1 DEF Unlocked
  <2> QED
    BY <2>1, <2>2, DropRows
<1>8. CASE DeleteTokenStates(p)
  <2>1. PICK K : Unlocked(p, K) /\ tokens' = Drop(tokens, K) /\ UNCHANGED spent
    BY <1>8 DEF DeleteTokenStates
  <2>2. \A k \in K : Unlocked(p, {k})
    BY <2>1 DEF Unlocked
  <2> QED
    BY <2>1, <2>2, DropRows
<1>9. CASE CompareSelect(p) \/ GetSelect(p) \/ ConsumeSelect(p) \/ ConsumeInactive(p)
             \/ ConsumeReload(p) \/ FindSelect(p) \/ SessionStep(p)
  <2>1. UNCHANGED <<tokens, spent>>
    BY <1>9 DEF CompareSelect, GetSelect, ConsumeSelect, ConsumeInactive, ConsumeReload,
                FindSelect, SessionStep, SaveSession, EnsureSession, WriteSession,
                GetSessionSelect, GetSessionJudge, DeleteSession
  <2> QED
    BY <1>1, <2>1
<1> QED
  BY <1>2, <1>3, <1>4, <1>5, <1>6, <1>7, <1>8, <1>9 DEF TokenStep, ConsumeStep

-----------------------------------------------------------------------------
\* Only the client of a statement goes on, and a lock is taken and given back by
\* the one who has it.
OthersKept(p) ==
  /\ UNCHANGED rowLocks
  /\ DOMAIN phase' = Proc /\ DOMAIN req' = Proc /\ DOMAIN seen' = Proc
  /\ DOMAIN holder' = Token
  /\ \A q \in Proc \ {p} : phase'[q] = phase[q] /\ req'[q] = req[q] /\ seen'[q] = seen[q]
  /\ \A k \in Token : \/ holder'[k] = holder[k]
                      \/ holder[k] = p
                      \/ Unlocked(p, {k}) /\ holder'[k] = p

LEMMA ReturnKeepsOthers ==
  ASSUME Shaped, NEW p \in Proc, NEW r, Return(p, r)
  PROVE  OthersKept(p) /\ phase'[p] = "idle"
BY DEF Shaped, Return, OthersKept

LEMMA GoOnKeepsOthers ==
  ASSUME Shaped, NEW p \in Proc, NEW next, NEW view, GoOn(p, next, view), UNCHANGED holder
  PROVE  OthersKept(p) /\ phase'[p] = next /\ req'[p] = req[p]
BY DEF Shaped, GoOn, OthersKept

\* A consumption that selects a row takes its lock, where there are locks.
LEMMA SelectHolds ==
  ASSUME Inv, NEW p \in Proc, ConsumeSelect(p)
  PROVE  OthersKept(p) /\ Writable(p)' /\ Held(p)'
<1> DEFINE k == req[p].key
<1>1. CASE tokens[k] = NoEntry
  BY <1>1, ReturnKeepsOthers DEF ConsumeSelect, Inv, Held, Writable, In
<1>2. CASE tokens[k] # NoEntry
  <2>1. /\ phase[p] = "called" /\ req[p].op = "Consume"
        /\ Unlocked(p, {k})
        /\ GoOn(p, "selected", View(req[p], tokens, sessions))
        /\ holder' = IF rowLocks THEN [holder EXCEPT ![k] = p] ELSE holder
        /\ tokens' = tokens
    BY <1>2 DEF ConsumeSelect, In
  <2>2. k \in Token
    BY <2>1 DEF Inv, Shaped, Writable
  <2>3. /\ phase'[p] = "selected" /\ req'[p] = req[p]
        /\ seen'[p] = View(req[p], tokens, sessions)
        /\ rowLocks' = rowLocks
    BY <2>1 DEF GoOn, Inv, Shaped
  <2>4. OthersKept(p)
    <3> HIDE DEF k
    <3> QED
      BY <2>1, <2>2 DEF OthersKept, GoOn, Inv, Shaped
  <2>5. rowLocks => holder'[k] = p
    BY <2>1, <2>2 DEF Inv, Shaped
  <2>6. View(req[p], tokens, sessions).entries[k] = tokens[k]
    <3>1. k \in Stored(tokens) \cap (IF "key" \in DOMAIN req[p] THEN {req[p].key} ELSE {})
      <4>1. "key" \in DOMAIN req[p]
        BY <2>1 DEF Inv, Shaped, Writable
      <4> QED
        BY <1>2, <2>2, <4>1 DEF Stored
    <3> QED
      BY <2>1, <3>1 DEF View
  <2>7. Writable(p)'
    BY <2>1, <2>3 DEF Inv, Shaped, Writable
  <2> QED
    BY <1>2, <2>1, <2>3, <2>4, <2>5, <2>6, <2>7 DEF Held, In, Selected
<1> QED
  BY <1>1, <1>2

\* With its row locked, a consumption that found it usable wins it.
LEMMA UpdateHits ==
  ASSUME Inv, NEW p \in Proc, ConsumeUpdate(p)
  PROVE  OthersKept(p) /\ Writable(p)' /\ Held(p)'
<1>1. CASE \E r : Return(p, r)
  BY <1>1, ReturnKeepsOthers DEF Inv, Held, Writable, In
<1>2. CASE ~\E r : Return(p, r)
  <2>1. PICK t : /\ ~Passed(Selected(p).expiresAt, t)
                 /\ Consumable(Selected(p).state, req[p].kinds, t)
                 /\ ~StillConsumable(p, t)
                 /\ phase' = [phase EXCEPT ![p] = "reload"]
                 /\ UNCHANGED <<now, tokens, req, begun, seen, res, holder, rowLocks, spent>>
    BY <1>2 DEF ConsumeUpdate
  <2>2. ~rowLocks
    BY <2>1 DEF ConsumeUpdate, Inv, Held, StillConsumable, Consumable, IsActive
  <2>3. phase'[p] = "reload"
    BY <2>1 DEF Inv, Shaped
  <2>4. Writable(p)'
    BY <2>1, <2>3 DEF ConsumeUpdate, In, Inv, Shaped, Writable
  <2> QED
    BY <2>1, <2>2, <2>3, <2>4 DEF OthersKept, Inv, Shaped, Held
<1> QED
  BY <1>1, <1>2

\* Every other statement is the last of its call, or belongs to no consumption.
LEMMA StatementMoves ==
  ASSUME Inv, NEW p \in Proc, TokenStep(p) \/ SessionStep(p)
  PROVE  OthersKept(p) /\ Writable(p)' /\ Held(p)'
<1>1. CASE ConsumeSelect(p)
  BY <1>1, SelectHolds
<1>2. CASE ConsumeUpdate(p)
  BY <1>2, UpdateHits
<1>3. CASE \E r : Return(p, r)
  BY <1>3, ReturnKeepsOthers DEF Inv, Held, Writable, In
<1>4. CASE /\ \E view : GoOn(p, "selected", view)
           /\ UNCHANGED holder
           /\ req[p].op # "Consume"
           /\ phase[p] # "idle"
  BY <1>4, GoOnKeepsOthers DEF Inv, Shaped, Held, Writable, In
<1>5. \/ ConsumeSelect(p) \/ ConsumeUpdate(p)
      \/ \E r : Return(p, r)
      \/ /\ \E view : GoOn(p, "selected", view)
         /\ UNCHANGED holder
         /\ req[p].op # "Consume"
         /\ phase[p] # "idle"
  <2>1. CASE SaveTokenState(p) \/ CompareSelect(p) \/ CompareUpdate(p) \/ GetSelect(p)
    BY <2>1 DEF SaveTokenState, CompareSelect, CompareUpdate, GetSelect, In
  <2>2. CASE GetJudge(p) \/ DeleteTokenState(p) \/ FindEvict(p) \/ FindSelect(p)
               \/ DeleteTokenStates(p)
    BY <2>2 DEF GetJudge, DeleteTokenState, FindEvict, FindSelect, DeleteTokenStates, In
  <2>3. CASE ConsumeStep(p)
    BY <2>3 DEF ConsumeStep, ConsumeExpired, ConsumeInactive, ConsumeReload
  <2>4. CASE SessionStep(p)
    BY <2>4 DEF SessionStep, SaveSession, EnsureSession, WriteSession, GetSessionSelect,
                GetSessionJudge, DeleteSession, In
  <2> QED
    BY <2>1, <2>2, <2>3, <2>4 DEF TokenStep
<1> QED
  BY <1>1, <1>2, <1>3, <1>4, <1>5

-----------------------------------------------------------------------------
LEMMA InitInv == Init => Inv
BY DEF Init, Inv, Shaped, Writable, WonIsSpent, Held, In

\* A call of the interface that writes brings a token state.
LEMMA BeginInv ==
  ASSUME Inv, NEW p \in Proc, Begin(p)
  PROVE  Inv'
<1>1. PICK c \in NextCalls(res[p]) :
        /\ req' = [req EXCEPT ![p] = c]
        /\ phase' = [phase EXCEPT ![p] = "called"]
        /\ UNCHANGED <<tokens, seen, holder, rowLocks, spent>>
  BY DEF Begin
<1>2. /\ c.op \in {"Save", "CAS"} => c.state \in State
      /\ c.op = "Consume" => "key" \in DOMAIN c /\ c.key \in Token
  <2>1. SaveInputs \subseteq State
    BY StoreAssumption
  <2> QED
    BY <2>1 DEF NextCalls, SessionCall
<1>3. /\ phase'[p] = "called" /\ req'[p] = c
      /\ DOMAIN phase' = Proc /\ DOMAIN req' = Proc
      /\ \A q \in Proc \ {p} : phase'[q] = phase[q] /\ req'[q] = req[q]
  BY <1>1 DEF Inv, Shaped
<1>4. Shaped'
  BY <1>1, <1>2, <1>3 DEF Inv, Shaped, Writable
<1>5. WonIsSpent'
  BY <1>1 DEF Inv, WonIsSpent
<1>6. \A q \in Proc : Held(q)'
  BY <1>1, <1>3 DEF Inv, Held, In, Selected
<1> QED
  BY <1>4, <1>5, <1>6 DEF Inv

\* A locked row is left to its holder.
LEMMA OtherHeld ==
  ASSUME Inv, NEW p \in Proc, NEW q \in Proc \ {p}, OthersKept(p),
         \A k \in Token : Left(k) \/ Unlocked(p, {k})
  PROVE  Held(q)'
<1>1. phase'[q] = phase[q] /\ req'[q] = req[q] /\ seen'[q] = seen[q] /\ rowLocks' = rowLocks
  BY DEF OthersKept
<1>2. CASE rowLocks /\ In(q, "Consume", "selected")
  <2> DEFINE k == req[q].key
  <2>1. /\ k \in Token /\ holder[k] = q /\ tokens[k] # NoEntry /\ Selected(q) = tokens[k]
        /\ phase[q] # "reload"
    BY <1>2 DEF Inv, Shaped, Writable, Held, In
  <2>2. ~Unlocked(p, {k})
    BY <2>1, HolderAssumption DEF Unlocked
  <2>3. tokens'[k] = tokens[k] /\ holder'[k] = holder[k]
    BY <2>1, <2>2 DEF Left, OthersKept
  <2> QED
    BY <1>1, <2>1, <2>3 DEF Held, Selected
<1>3. CASE ~(rowLocks /\ In(q, "Consume", "selected"))
  BY <1>1, <1>3 DEF Inv, Held, In
<1> QED
  BY <1>2, <1>3

\* A statement leaves a won row inactive, and a locked one to its holder.
LEMMA StatementInv ==
  ASSUME Inv, NEW p \in Proc, TokenStep(p) \/ SessionStep(p)
  PROVE  Inv'
<1>1. /\ DOMAIN tokens' = Token /\ DOMAIN spent' = Token
      /\ \A k \in Token :
           Left(k) \/ (Unlocked(p, {k}) /\ (Written(p, k) \/ Won(p, k) \/ Deleted(k)))
  BY StatementRow DEF Inv
<1>2. OthersKept(p) /\ Writable(p)' /\ Held(p)'
  BY StatementMoves
<1>3. ASSUME NEW k \in Token
      PROVE  /\ tokens'[k] # NoEntry =>
                  {"state", "expiresAt"} \subseteq DOMAIN tokens'[k] /\ tokens'[k].state \in State
             /\ spent'[k] \in {0, 1}
             /\ spent'[k] = 1 /\ tokens'[k] # NoEntry => tokens'[k].state.status # "active"
  <2>1. CASE Left(k)
    BY <2>1 DEF Left, Inv, Shaped, WonIsSpent
  <2>2. CASE Written(p, k)
    BY <2>2 DEF Written, Inv, Shaped, Writable
  <2>3. CASE Won(p, k)
    <3> DEFINE state == MarkConsumed(tokens[k].state)
    <3>1. tokens[k].state \in State /\ {"state", "expiresAt"} \subseteq DOMAIN tokens[k]
      BY <2>3 DEF Won, Inv, Shaped
    <3>2. state \in State /\ state.status = "consumed"
      BY <3>1, ConsumedTyped DEF MarkConsumed, State
    <3>3. spent[k] = 0 /\ spent'[k] = 1
      BY <2>3 DEF Won, Inv, WonIsSpent
    <3>4. tokens'[k] = [tokens[k] EXCEPT !.state = state]
      BY <2>3 DEF Won
    <3> HIDE DEF state
    <3> QED
      BY <3>1, <3>2, <3>3, <3>4
  <2>4. CASE Deleted(k)
    BY <2>4 DEF Deleted, Inv, WonIsSpent
  <2> QED
    BY <1>1, <2>1, <2>2, <2>3, <2>4
<1>4. \A q \in Proc : Writable(q)'
  BY <1>2 DEF OthersKept, Inv, Shaped, Writable
<1>5. Shaped'
  BY <1>1, <1>2, <1>3, <1>4 DEF OthersKept, Shaped
<1>6. WonIsSpent'
  BY <1>3 DEF WonIsSpent
<1>7. \A q \in Proc \ {p} : Held(q)'
  BY <1>1, <1>2, OtherHeld
<1> QED
  BY <1>2, <1>5, <1>6, <1>7 DEF Inv

LEMMA RefuseInv ==
  ASSUME Inv, NEW p \in Proc, Refuse(p)
  PROVE  Inv'
<1>1. OthersKept(p) /\ phase'[p] = "idle" /\ UNCHANGED <<tokens, spent>>
  BY ReturnKeepsOthers DEF Refuse, Inv
<1>2. \A q \in Proc : Writable(q)'
  BY <1>1 DEF OthersKept, Inv, Shaped, Writable
<1>3. ASSUME NEW q \in Proc
      PROVE  Held(q)'
  <2>1. CASE q = p
    BY <1>1, <2>1 DEF Held, In
  <2>2. CASE q # p
    BY <1>1, <2>2, OtherHeld DEF Left
  <2> QED
    BY <2>1, <2>2
<1> QED
  BY <1>1, <1>2, <1>3 DEF OthersKept, Inv, Shaped, WonIsSpent

LEMMA NextInv == Inv /\ [Next]_vars => Inv'
<1> SUFFICES ASSUME Inv, [Next]_vars
             PROVE  Inv'
  OBVIOUS
<1>1. CASE UNCHANGED vars
  BY <1>1 DEF vars, Inv, Shaped, Writable, WonIsSpent, Held, In, Selected
<1>2. CASE Tick
  BY <1>2 DEF Tick, Inv, Shaped, Writable, WonIsSpent, Held, In, Selected
<1> QED
  BY <1>1, <1>2, BeginInv, RefuseInv, StatementInv DEF Next

\* For any dialect, number of clients and rows: between two writes of a row at most
\* one consumption returns its state as usable (consumeTokenState).  A row that has
\* been won is not active, and the conditional UPDATE hits active rows only.
THEOREM ConsumedOnce == Spec => []SingleWinner
<1>1. Inv => SingleWinner
  BY DEF Inv, WonIsSpent, SingleWinner
<1> QED
  BY <1>1, InitInv, NextInv, PTL DEF Spec

\* For any number of clients and rows: where FOR UPDATE locks the row, the UPDATE of a
\* consumption hits the row its SELECT returned, because nothing changes a locked row
\* but its holder (consumeTokenState).
THEOREM LockedUpdateHits == Spec => []LockSuffices
<1>1. Inv => LockSuffices
  BY DEF Inv, Held, LockSuffices
<1> QED
  BY <1>1, InitInv, NextInv, PTL DEF Spec
-----------------------------------------------------------------------------
(* Types, and what a call has read.                                        *)

\* The deadline of a row is no later than that of the state in it.
Timely(e) ==
  e.state.expiresAt # Never => e.expiresAt # Never /\ e.expiresAt <= e.state.expiresAt

\* What a call keeps of its first SELECT is the row it asked for; a compare-and-swap
\* has found it equal to the state it was given.
Kept(p) ==
  phase[p] \in {"selected", "reload"} =>
    /\ req[p].op \in {"Get", "CAS", "Consume"} =>
         /\ seen[p] # NoEntry
         /\ DOMAIN seen[p].entries = {req[p].key}
         /\ Timely(Selected(p))
    /\ req[p].op = "CAS" => Selected(p).state = req[p].expected /\ Acceptable(req[p].state)
    /\ req[p].op = "GetSession" => seen[p] # NoEntry /\ seen[p].session # NoEntry

Typed ==
  /\ TypeOK
  /\ seen \in [Proc -> StoreView \cup {NoEntry}]
  /\ \A k \in Stored(tokens) : Timely(tokens[k])
  /\ \A p \in Proc : Kept(p)

CallsKept == CallTypeOK /\ seen \in [Proc -> StoreView \cup {NoEntry}] /\ \A p \in Proc : Kept(p)

\* A save gives the row the earlier of the two deadlines (EffectiveExpiresAt).
LEMMA WrittenTimely ==
  ASSUME NEW s \in State, NEW t \in Nat, NEW ttl \in Nat
  PROVE  Timely([state |-> s, expiresAt |-> EffectiveExpiresAt(s, t, ttl)])
<1>1. s.expiresAt \in Deadline
  BY DEF State
<1> QED
  BY <1>1 DEF Timely, EffectiveExpiresAt, Earlier, DeadlineAfter, Deadline, Never

LEMMA ReturnTyped ==
  ASSUME CallsKept, NEW p \in Proc, NEW r \in Response, Return(p, r)
  PROVE  CallsKept'
<1>1. /\ DOMAIN phase = Proc /\ DOMAIN req = Proc /\ DOMAIN seen = Proc
      /\ phase'[p] = "idle"
      /\ \A q \in Proc \ {p} : phase'[q] = phase[q] /\ req'[q] = req[q] /\ seen'[q] = seen[q]
  BY DEF CallsKept, CallTypeOK, Return
<1>2. \A q \in Proc : Kept(q)'
  BY <1>1 DEF CallsKept, Kept, Selected
<1>3. seen' \in [Proc -> StoreView \cup {NoEntry}]
  BY DEF Return, CallsKept
<1>4. CallTypeOK'
  <2>1. /\ now' \in 0 .. MaxTime
        /\ phase' \in [Proc -> {"idle", "called", "selected", "reload"}]
        /\ req' \in [Proc -> Call \cup {Failed}]
        /\ begun' \in [Proc -> 0 .. MaxTime]
        /\ at' \in [Proc -> 0 .. MaxTime]
        /\ res' \in [Proc -> Response]
        /\ rowLocks' \in BOOLEAN
    BY StoreAssumption DEF CallsKept, CallTypeOK, Return
  <2>2. holder' \in [Token -> Proc \cup {NoEntry}]
    BY DEF CallsKept, CallTypeOK, Return
  <2>3. \A q \in Proc :
          /\ phase'[q] # "idle" => req'[q] \in Call /\ begun'[q] <= now'
          /\ phase'[q] \in {"selected", "reload"} => at'[q] \in begun'[q] .. now'
          /\ seen'[q] # NoEntry => phase'[q] \in {"selected", "reload"}
    BY DEF CallsKept, CallTypeOK, Return
  <2>4. ASSUME NEW k \in Token, holder'[k] # NoEntry
        PROVE  rowLocks' /\ In(holder[k], "Consume", "selected")' /\ holder'[k] = holder[k]
    <3>1. holder'[k] = holder[k] /\ holder[k] # p /\ holder[k] \in Proc
      BY <2>4, HolderAssumption DEF CallsKept, CallTypeOK, Return
    <3>2. rowLocks /\ In(holder[k], "Consume", "selected") /\ rowLocks' = rowLocks
      BY <2>4, <3>1 DEF CallsKept, CallTypeOK, Return
    <3> QED
      BY <1>1, <3>1, <3>2 DEF In
  <2> QED
    BY <2>1, <2>2, <2>3, <2>4 DEF CallTypeOK, In
<1> QED
  BY <1>2, <1>3, <1>4 DEF CallsKept
\* A call goes on from its first statement with what that has read.
LEMMA GoOnTyped ==
  ASSUME CallsKept, NEW p \in Proc, phase[p] = "called",
         NEW view \in StoreView \cup {NoEntry}, GoOn(p, "selected", view),
         \/ UNCHANGED holder
         \/ /\ rowLocks /\ req[p].op = "Consume"
            /\ \E j : holder' = [holder EXCEPT ![j] = p],
         /\ req[p].op \in {"Get", "CAS", "Consume"} =>
              /\ view # NoEntry
              /\ DOMAIN view.entries = {req[p].key}
              /\ Timely(view.entries[req[p].key])
         /\ req[p].op = "CAS" =>
              view.entries[req[p].key].state = req[p].expected /\ Acceptable(req[p].state)
         /\ req[p].op = "GetSession" => view # NoEntry /\ view.session # NoEntry
  PROVE  CallsKept'
<1>1. /\ DOMAIN phase = Proc /\ DOMAIN req = Proc /\ DOMAIN seen = Proc
      /\ phase'[p] = "selected" /\ req' = req /\ seen'[p] = view /\ at'[p] = now
      /\ \A q \in Proc \ {p} : phase'[q] = phase[q] /\ seen'[q] = seen[q] /\ at'[q] = at[q]
      /\ rowLocks' = rowLocks /\ begun' = begun /\ now' = now
  BY DEF CallsKept, CallTypeOK, GoOn
<1>2. Kept(p)'
  BY <1>1 DEF Kept, Selected
<1>3. \A q \in Proc \ {p} : Kept(q)'
  BY <1>1 DEF CallsKept, Kept, Selected
<1>4. seen' \in [Proc -> StoreView \cup {NoEntry}]
  BY DEF GoOn, CallsKept
<1>5. CallTypeOK'
  <2>1. /\ now' \in 0 .. MaxTime
        /\ phase' \in [Proc -> {"idle", "called", "selected", "reload"}]
        /\ req' \in [Proc -> Call \cup {Failed}]
        /\ begun' \in [Proc -> 0 .. MaxTime]
        /\ at' \in [Proc -> 0 .. MaxTime]
        /\ res' \in [Proc -> Response]
        /\ rowLocks' \in BOOLEAN
    BY DEF CallsKept, CallTypeOK, GoOn
  <2>2. holder' \in [Token -> Proc \cup {NoEntry}]
    BY DEF CallsKept, CallTypeOK
  <2>3. \A q \in Proc :
          /\ phase'[q] # "idle" => req'[q] \in Call /\ begun'[q] <= now'
          /\ phase'[q] \in {"selected", "reload"} => at'[q] \in begun'[q] .. now'
          /\ seen'[q] # NoEntry => phase'[q] \in {"selected", "reload"}
    <3>1. now \in Int /\ begun[p] \in Int /\ begun[p] <= now /\ req[p] \in Call
      BY DEF CallsKept, CallTypeOK
    <3> QED
      BY <1>1, <3>1 DEF CallsKept, CallTypeOK
  <2>4. ASSUME NEW k \in Token, holder'[k] # NoEntry
        PROVE  rowLocks' /\ phase'[holder'[k]] = "selected" /\ req'[holder'[k]].op = "Consume"
    <3>1. CASE holder'[k] = holder[k]
      <4>1. rowLocks /\ In(holder[k], "Consume", "selected") /\ holder[k] \in Proc
        BY <2>4, <3>1 DEF CallsKept, CallTypeOK
      <4> QED
        BY <1>1, <3>1, <4>1 DEF In
    <3>2. CASE holder'[k] # holder[k]
      BY <1>1, <3>2 DEF In, CallsKept, CallTypeOK
    <3> QED
      BY <3>1, <3>2
  <2> QED
    BY <2>1, <2>2, <2>3, <2>4 DEF CallTypeOK, In
<1> QED
  BY <1>2, <1>3, <1>4, <1>5 DEF CallsKept

\* The row that a call on one key finds, as the call keeps it.
LEMMA RowSeen ==
  ASSUME Typed, NEW p \in Proc, phase[p] # "idle", req[p].op \in {"Get", "CAS", "Consume"},
         tokens[req[p].key] # NoEntry
  PROVE  LET view == View(req[p], tokens, sessions) IN
           /\ view \in StoreView \ {NoEntry}
           /\ DOMAIN view.entries = {req[p].key}
           /\ view.entries[req[p].key] = tokens[req[p].key]
           /\ Timely(view.entries[req[p].key])
<1>1. req[p] \in Call
  BY DEF Typed, TypeOK, CallTypeOK
<1>2. req[p].key \in Stored(tokens)
  BY <1>1, FieldsTyped DEF Stored
<1>3. /\ View(req[p], tokens, sessions) \in StoreView \ {NoEntry}
      /\ DOMAIN View(req[p], tokens, sessions).entries = {req[p].key} \cap Stored(tokens)
      /\ \A k \in DOMAIN View(req[p], tokens, sessions).entries :
           View(req[p], tokens, sessions).entries[k] = tokens[k]
  <2>1. /\ tokens \in [Token -> Entry \cup {NoEntry}]
        /\ sessions \in [Subject -> SessionItem \cup {NoEntry}]
    BY DEF Typed, TypeOK, StoreTypeOK
  <2> QED
    BY <1>1, <2>1, ViewTyped
<1>4. {req[p].key} \cap Stored(tokens) = {req[p].key}
  BY <1>2
<1> QED
  BY <1>2, <1>3, <1>4 DEF Typed

\* The entry that a call on one key has kept.
LEMMA SelectedTyped ==
  ASSUME Typed, NEW p \in Proc, phase[p] \in {"selected", "reload"},
         req[p].op \in {"Get", "CAS", "Consume"}
  PROVE  /\ seen[p] \in StoreView \ {NoEntry}
         /\ req[p].key \in Token
         /\ DOMAIN seen[p].entries = {req[p].key}
         /\ Selected(p) \in Entry
         /\ Timely(Selected(p))
         /\ Reported({req[p].key}, seen[p].entries) \in Response
<1>1. /\ seen[p] \in StoreView \ {NoEntry}
      /\ DOMAIN seen[p].entries = {req[p].key}
      /\ Timely(Selected(p))
  BY DEF Typed, Kept
<1>2. req[p].key \in Token /\ Selected(p) \in Entry
  BY <1>1, KeptEntry DEF Selected
<1>3. [key |-> req[p].key, state |-> Selected(p).state] \in Snapshot
  BY <1>2 DEF Snapshot, Entry
<1>4. {[key |-> k, state |-> seen[p].entries[k].state] : k \in {req[p].key}} \subseteq Snapshot
  BY <1>3 DEF Selected
<1>5. Reported({req[p].key}, seen[p].entries) \in Response
  BY <1>4 DEF Reported, Done, Response
<1> QED
  BY <1>1, <1>2, <1>5

\* The rows, where one is written, some are deleted, or one is marked consumed.
RowsOK == tokens \in [Token -> Entry \cup {NoEntry}] /\ \A k \in Stored(tokens) : Timely(tokens[k])

LEMMA WriteTyped ==
  ASSUME Typed, NEW p \in Proc, phase[p] # "idle", req[p].op \in {"Save", "CAS"},
         WriteToken(p, req[p].key, req[p].state,
                    EffectiveExpiresAt(req[p].state, begun[p], req[p].ttl))
  PROVE  RowsOK'
<1> DEFINE k == req[p].key
           d == EffectiveExpiresAt(req[p].state, begun[p], req[p].ttl)
<1>1. k \in Token /\ req[p].state \in State /\ begun[p] \in Nat /\ req[p].ttl \in Nat
  BY FieldsTyped, StoreAssumption DEF Typed, TypeOK, CallTypeOK
<1>2. d \in Deadline /\ Timely([state |-> req[p].state, expiresAt |-> d])
  BY <1>1, DeadlineTyped, WrittenTimely
<1>3. tokens' = Put(tokens, k, req[p].state, d)
  BY DEF WriteToken
<1> HIDE DEF k, d
<1>4. tokens' \in [Token -> Entry \cup {NoEntry}]
  BY <1>1, <1>2, <1>3, MapTyped DEF Typed, TypeOK, StoreTypeOK
<1>5. \A j \in Token : tokens'[j] # NoEntry => Timely(tokens'[j])
  BY <1>1, <1>2, <1>3 DEF Put, Typed, TypeOK, StoreTypeOK, Stored
<1> QED
  BY <1>4, <1>5 DEF RowsOK, Stored

LEMMA DropTyped ==
  ASSUME Typed, NEW K, tokens' = Drop(tokens, K)
  PROVE  RowsOK'
<1>1. tokens' \in [Token -> Entry \cup {NoEntry}]
  BY MapTyped DEF Typed, TypeOK, StoreTypeOK
<1>2. \A j \in Token : tokens'[j] # NoEntry => Timely(tokens'[j])
  BY DEF Drop, Typed, Stored
<1> QED
  BY <1>1, <1>2 DEF RowsOK, Stored

LEMMA MarkTyped ==
  ASSUME Typed, NEW k \in Stored(tokens),
         tokens' = Rewrite(tokens, k, MarkConsumed(tokens[k].state))
  PROVE  RowsOK'
<1> DEFINE state == MarkConsumed(tokens[k].state)
<1>1. k \in Token /\ tokens[k] \in Entry /\ Timely(tokens[k])
  BY DEF Typed, TypeOK, StoreTypeOK, Stored
<1>2. state \in State /\ state.expiresAt = tokens[k].state.expiresAt
  BY <1>1, ConsumedTyped DEF MarkConsumed, Entry, State
<1>3. [tokens[k] EXCEPT !.state = state] \in Entry
      /\ Timely([tokens[k] EXCEPT !.state = state])
  <2> HIDE DEF state
  <2> QED
    BY <1>1, <1>2 DEF Entry, Timely
<1>4. tokens' = [tokens EXCEPT ![k] = [tokens[k] EXCEPT !.state = state]]
  BY DEF Rewrite
<1> HIDE DEF state
<1>5. tokens' \in [Token -> Entry \cup {NoEntry}]
  BY <1>1, <1>3, <1>4 DEF Typed, TypeOK, StoreTypeOK
<1>6. \A j \in Token : tokens'[j] # NoEntry => Timely(tokens'[j])
  BY <1>1, <1>3, <1>4 DEF Typed, TypeOK, StoreTypeOK, Stored
<1> QED
  BY <1>5, <1>6 DEF RowsOK, Stored
LEMMA Responses ==
  ASSUME Typed
  PROVE  /\ Done \in Response /\ Failed \in Response /\ Refused \in Response
         /\ \A d \in Data : [Done EXCEPT !.data = d] \in Response
         /\ \A K \in SUBSET Stored(tokens) : Reported(K, tokens) \in Response
<1>1. tokens \in [Token -> Entry \cup {NoEntry}]
  BY DEF Typed, TypeOK, StoreTypeOK
<1>2. \A K \in SUBSET Stored(tokens) : K \in SUBSET Token /\ \A k \in K : tokens[k] # NoEntry
  BY DEF Stored
<1>3. \A K \in SUBSET Stored(tokens) : Reported(K, tokens) \in Response
  BY <1>1, <1>2, FoundTyped
<1>4. /\ Done \in Response /\ Failed \in Response /\ Refused \in Response
      /\ \A d \in Data : [Done EXCEPT !.data = d] \in Response
  BY DEF Done, Failed, Refused, Response
<1> QED
  BY <1>3, <1>4

\* Rows, sessions and calls make up the whole.
LEMMA TypedParts ==
  /\ Typed <=> RowsOK /\ sessions \in [Subject -> SessionItem \cup {NoEntry}] /\ CallsKept
  /\ Typed' <=> RowsOK' /\ sessions' \in [Subject -> SessionItem \cup {NoEntry}] /\ CallsKept'
BY DEF Typed, TypeOK, StoreTypeOK, RowsOK, CallsKept

LEMMA ConsumeStepTyped ==
  ASSUME Inv, Typed, NEW p \in Proc, ConsumeStep(p)
  PROVE  Typed'
<1> DEFINE k == req[p].key
<1>1. /\ req[p].op = "Consume" /\ phase[p] # "idle" /\ req[p] \in Call /\ k \in Token
      /\ sessions' = sessions
  <2>1. /\ req[p].op = "Consume" /\ phase[p] # "idle" /\ sessions' = sessions
    BY DEF ConsumeStep, ConsumeSelect, ConsumeExpired, ConsumeInactive, ConsumeUpdate,
           ConsumeReload, In
  <2> QED
    BY <2>1, FieldsTyped DEF Typed, TypeOK, CallTypeOK
<1>2. RowsOK' /\ CallsKept'
  <2>1. CASE ConsumeSelect(p)
    <3>1. RowsOK'
      BY <2>1, TypedParts DEF ConsumeSelect, RowsOK
    <3>2. CASE tokens[k] = NoEntry
      <4>1. Return(p, Done)
        BY <2>1, <3>2 DEF ConsumeSelect
      <4> QED
        BY <3>1, <4>1, ReturnTyped, Responses, TypedParts
    <3>3. CASE tokens[k] # NoEntry
      <4> DEFINE view == View(req[p], tokens, sessions)
      <4>1. /\ phase[p] = "called" /\ GoOn(p, "selected", view)
            /\ holder' = IF rowLocks THEN [holder EXCEPT ![k] = p] ELSE holder
        BY <2>1, <3>3 DEF ConsumeSelect, In
      <4>2. /\ view \in StoreView \ {NoEntry}
            /\ DOMAIN view.entries = {k} /\ Timely(view.entries[k])
        BY <1>1, <3>3, RowSeen
      <4>3. rowLocks \in BOOLEAN
        BY DEF Typed, TypeOK, CallTypeOK
      <4>4. \/ UNCHANGED holder
            \/ rowLocks /\ \E j : holder' = [holder EXCEPT ![j] = p]
        BY <4>1, <4>3
      <4> HIDE DEF view
      <4>5. CallsKept'
        BY <1>1, <4>1, <4>2, <4>4, GoOnTyped, TypedParts
      <4> QED
        BY <3>1, <4>5
    <3> QED
      BY <3>1, <3>2, <3>3
  <2>2. CASE ConsumeExpired(p)
    <3>1. tokens' = Drop(tokens, {k}) /\ Return(p, Done)
      BY <2>2 DEF ConsumeExpired
    <3> QED
      BY <3>1, DropTyped, ReturnTyped, Responses, TypedParts
  <2>3. CASE ConsumeInactive(p)
    <3>1. phase[p] = "selected" /\ UNCHANGED tokens /\ Return(p, Reported({k}, seen[p].entries))
      BY <2>3 DEF ConsumeInactive, In
    <3>2. Reported({k}, seen[p].entries) \in Response
      BY <1>1, <3>1, SelectedTyped
    <3> QED
      BY <3>1, <3>2, ReturnTyped, TypedParts DEF RowsOK
  <2>4. CASE ConsumeUpdate(p)
    <3>1. PICK t \in at[p] .. now :
            IF StillConsumable(p, t)
              THEN /\ tokens' = Rewrite(tokens, k, MarkConsumed(Selected(p).state))
                   /\ Return(p, Reported({k}, seen[p].entries))
              ELSE /\ phase' = [phase EXCEPT ![p] = "reload"]
                   /\ at' = [at EXCEPT ![p] = t]
                   /\ UNCHANGED <<now, tokens, req, begun, seen, res, holder, rowLocks>>
      BY <2>4 DEF ConsumeUpdate
    <3>2. phase[p] = "selected"
      BY <2>4 DEF ConsumeUpdate, In
    <3>3. CASE StillConsumable(p, t)
      <4>1. /\ k \in Stored(tokens) /\ tokens[k].state = Selected(p).state
        BY <1>1, <3>3 DEF StillConsumable, Stored
      <4>2. RowsOK'
        BY <3>1, <3>3, <4>1, MarkTyped
      <4>3. Reported({k}, seen[p].entries) \in Response
        BY <1>1, <3>2, SelectedTyped
      <4> QED
        BY <3>1, <3>3, <4>2, <4>3, ReturnTyped, TypedParts
    <3>4. CASE ~StillConsumable(p, t)
      <4>1. /\ phase' = [phase EXCEPT ![p] = "reload"]
            /\ at' = [at EXCEPT ![p] = t]
            /\ UNCHANGED <<now, tokens, req, begun, seen, res, holder, rowLocks>>
        BY <3>1, <3>4
      <4>2. ~rowLocks
        <5>1. phase'[p] = "reload" /\ rowLocks' = rowLocks
          BY <4>1 DEF Typed, TypeOK, CallTypeOK
        <5> QED
          BY <2>4, <5>1, UpdateHits DEF Held
      <4>3. \A q \in Proc : Kept(q)'
        BY <3>2, <4>1 DEF Typed, TypeOK, CallTypeOK, Kept, Selected
      <4>4. CallTypeOK'
        <5>1. \A j \in Token : holder[j] = NoEntry
          BY <4>2 DEF Typed, TypeOK, CallTypeOK
        <5>2. /\ phase' \in [Proc -> {"idle", "called", "selected", "reload"}]
              /\ at' \in [Proc -> 0 .. MaxTime]
          BY <4>1, StoreAssumption DEF Typed, TypeOK, CallTypeOK
        <5>3. at[p] \in begun[p] .. now /\ begun[p] \in 0 .. MaxTime /\ now \in 0 .. MaxTime
          BY <3>2 DEF Typed, TypeOK, CallTypeOK
        <5>4. t \in begun[p] .. now
          BY <5>3
        <5>5. \A q \in Proc : /\ phase'[q] # "idle" => req[q] \in Call /\ begun[q] <= now
                              /\ phase'[q] \in {"selected", "reload"} => at'[q] \in begun[q] .. now
                              /\ seen[q] # NoEntry => phase'[q] \in {"selected", "reload"}
          BY <3>2, <4>1, <5>4 DEF Typed, TypeOK, CallTypeOK
        <5> QED
          BY <4>1, <5>1, <5>2, <5>5 DEF Typed, TypeOK, CallTypeOK
      <4> QED
        BY <4>1, <4>3, <4>4, TypedParts DEF RowsOK, CallsKept
    <3> QED
      BY <3>3, <3>4
  <2>5. CASE ConsumeReload(p)
    <3>1. PICK r : r = IF tokens[k] = NoEntry THEN Done
                       ELSE IF Consumable(tokens[k].state, req[p].kinds, at[p]) THEN Refused
                       ELSE Reported({k}, tokens)
      OBVIOUS
    <3>2. Return(p, r) /\ UNCHANGED tokens
      BY <2>5, <3>1 DEF ConsumeReload, Return
    <3>3. tokens[k] # NoEntry => {k} \in SUBSET Stored(tokens)
      BY <1>1 DEF Stored
    <3>4. r \in Response
      BY <3>1, <3>3, Responses
    <3> QED
      BY <3>2, <3>4, ReturnTyped, TypedParts DEF RowsOK
  <2> QED
    BY <2>1, <2>2, <2>3, <2>4, <2>5 DEF ConsumeStep
<1> QED
  BY <1>1, <1>2, TypedParts
LEMMA TokenStepTyped ==
  ASSUME Inv, Typed, NEW p \in Proc, TokenStep(p)
  PROVE  Typed'
<1> DEFINE k == req[p].key
           view == View(req[p], tokens, sessions)
<1>1. sessions' = sessions /\ phase[p] # "idle" /\ req[p] \in Call
  <2>1. sessions' = sessions /\ phase[p] # "idle"
    BY DEF TokenStep, SaveTokenState, CompareSelect, CompareUpdate, GetSelect, GetJudge,
           ConsumeStep, ConsumeSelect, ConsumeExpired, ConsumeInactive, ConsumeUpdate,
           ConsumeReload, DeleteTokenState, FindEvict, FindSelect, DeleteTokenStates, In
  <2> QED
    BY <2>1 DEF Typed, TypeOK, CallTypeOK
<1>2. CASE ConsumeStep(p)
  BY <1>2, ConsumeStepTyped
<1>3. CASE SaveTokenState(p)
  <2>1. req[p].op = "Save" /\ Return(p, Done)
    BY <1>3 DEF SaveTokenState, In
  <2>2. RowsOK'
    BY <1>1, <1>3, <2>1, WriteTyped DEF SaveTokenState
  <2> QED
    BY <1>1, <2>1, <2>2, ReturnTyped, Responses, TypedParts
<1>4. CASE CompareSelect(p)
  <2>1. /\ req[p].op = "CAS" /\ phase[p] = "called" /\ UNCHANGED tokens
        /\ Acceptable(req[p].state)
    BY <1>4 DEF CompareSelect, In
  <2>2. CASE Return(p, Failed)
    BY <1>1, <2>1, <2>2, ReturnTyped, Responses, TypedParts DEF RowsOK
  <2>3. CASE /\ tokens[k] # NoEntry /\ tokens[k].state = req[p].expected
             /\ GoOn(p, "selected", view) /\ UNCHANGED holder
    <3>1. /\ view \in StoreView \ {NoEntry} /\ DOMAIN view.entries = {k}
          /\ view.entries[k] = tokens[k] /\ Timely(view.entries[k])
      BY <1>1, <2>1, <2>3, RowSeen
    <3> HIDE DEF view
    <3>2. CallsKept'
      BY <2>1, <2>3, <3>1, GoOnTyped, TypedParts
    <3> QED
      BY <1>1, <2>1, <3>2, TypedParts DEF RowsOK
  <2> QED
    BY <1>4, <2>2, <2>3 DEF CompareSelect
<1>5. CASE CompareUpdate(p)
  <2>1. req[p].op = "CAS"
    BY <1>5 DEF CompareUpdate, In
  <2>2. CASE UNCHANGED tokens /\ Return(p, Failed)
    BY <1>1, <2>2, ReturnTyped, Responses, TypedParts DEF RowsOK
  <2>3. CASE /\ WriteToken(p, k, req[p].state,
                           EffectiveExpiresAt(req[p].state, begun[p], req[p].ttl))
             /\ Return(p, Done)
    <3>1. RowsOK'
      BY <1>1, <2>1, <2>3, WriteTyped
    <3> QED
      BY <1>1, <2>3, <3>1, ReturnTyped, Responses, TypedParts
  <2> QED
    BY <1>5, <2>2, <2>3 DEF CompareUpdate
<1>6. CASE GetSelect(p)
  <2>1. req[p].op = "Get" /\ phase[p] = "called" /\ UNCHANGED tokens
    BY <1>6 DEF GetSelect, In
  <2>2. CASE Return(p, Done)
    BY <1>1, <2>1, <2>2, ReturnTyped, Responses, TypedParts DEF RowsOK
  <2>3. CASE tokens[k] # NoEntry /\ GoOn(p, "selected", view) /\ UNCHANGED holder
    <3>1. /\ view \in StoreView \ {NoEntry} /\ DOMAIN view.entries = {k}
          /\ Timely(view.entries[k])
      BY <1>1, <2>1, <2>3, RowSeen
    <3> HIDE DEF view
    <3>2. CallsKept'
      BY <2>1, <2>3, <3>1, GoOnTyped, TypedParts
    <3> QED
      BY <1>1, <2>1, <3>2, TypedParts DEF RowsOK
  <2> QED
    BY <1>6, <2>2, <2>3 DEF GetSelect
<1>7. CASE GetJudge(p)
  <2>1. phase[p] = "selected" /\ req[p].op = "Get"
    BY <1>7 DEF GetJudge, In
  <2>2. Reported({k}, seen[p].entries) \in Response
    BY <2>1, SelectedTyped
  <2>3. CASE UNCHANGED tokens /\ Return(p, Reported({k}, seen[p].entries))
    BY <1>1, <2>2, <2>3, ReturnTyped, TypedParts DEF RowsOK
  <2>4. CASE (\E K : tokens' = Drop(tokens, K)) /\ Return(p, Done)
    BY <1>1, <2>4, DropTyped, ReturnTyped, Responses, TypedParts
  <2> QED
    BY <1>7, <2>3, <2>4 DEF GetJudge
<1>8. CASE DeleteTokenState(p) \/ DeleteTokenStates(p)
  <2>1. (\E K : tokens' = Drop(tokens, K)) /\ Return(p, Done)
    BY <1>8 DEF DeleteTokenState, DeleteTokenStates
  <2> QED
    BY <1>1, <2>1, DropTyped, ReturnTyped, Responses, TypedParts
<1>9. CASE FindEvict(p)
  <2>1. /\ phase[p] = "called" /\ req[p].op = "Find"
        /\ \E K : tokens' = Drop(tokens, K)
        /\ GoOn(p, "selected", NoEntry) /\ UNCHANGED holder
    BY <1>9 DEF FindEvict, In
  <2>2. CallsKept'
    BY <2>1, GoOnTyped, TypedParts
  <2> QED
    BY <1>1, <2>1, <2>2, DropTyped, TypedParts
<1>10. CASE FindSelect(p)
  <2>1. /\ Return(p, Reported(OfSubject(tokens, req[p].subject, req[p].kinds), tokens))
        /\ UNCHANGED tokens
    BY <1>10 DEF FindSelect
  <2>2. OfSubject(tokens, req[p].subject, req[p].kinds) \in SUBSET Stored(tokens)
    BY DEF OfSubject
  <2> QED
    BY <1>1, <2>1, <2>2, ReturnTyped, Responses, TypedParts DEF RowsOK
<1> QED
  BY <1>2, <1>3, <1>4, <1>5, <1>6, <1>7, <1>8, <1>9, <1>10 DEF TokenStep

LEMMA SessionStepTyped ==
  ASSUME Typed, NEW p \in Proc, SessionStep(p)
  PROVE  Typed'
<1> DEFINE s == req[p].subject
           view == View(req[p], tokens, sessions)
<1>1. /\ RowsOK'
      /\ phase[p] # "idle" /\ req[p] \in Call /\ s \in Subject
  <2>1. /\ UNCHANGED tokens /\ phase[p] # "idle"
        /\ req[p].op \in {"SaveSession", "EnsureSession", "GetSession", "DeleteSession"}
    BY DEF SessionStep, SaveSession, EnsureSession, WriteSession, GetSessionSelect,
           GetSessionJudge, DeleteSession, In
  <2> QED
    BY <2>1, FieldsTyped, TypedParts DEF RowsOK, Typed, TypeOK, CallTypeOK
<1>2. sessions \in [Subject -> SessionItem \cup {NoEntry}] /\ NewData \in Data
  BY StoreAssumption DEF Typed, TypeOK, StoreTypeOK
<1>3. ASSUME req[p].op \in {"SaveSession", "EnsureSession"}, NEW d \in Data, WriteSession(p, d)
      PROVE  Typed'
  <2>1. DeadlineAfter(begun[p], req[p].ttl) \in Deadline
    BY <1>1, <1>3, FieldsTyped, DeadlineTyped, StoreAssumption DEF Typed, TypeOK, CallTypeOK
  <2>2. sessions' \in [Subject -> SessionItem \cup {NoEntry}]
    BY <1>1, <1>2, <1>3, <2>1 DEF WriteSession, SessionItem
  <2> QED
    BY <1>1, <1>3, <2>2, ReturnTyped, Responses, TypedParts DEF WriteSession
<1>4. CASE SaveSession(p)
  BY <1>1, <1>3, <1>4, FieldsTyped DEF SaveSession, In
<1>5. CASE EnsureSession(p)
  <2>1. sessions[s] # NoEntry => sessions[s].data \in Data
    BY <1>1, <1>2 DEF SessionItem
  <2>2. \E d \in Data : WriteSession(p, d)
    BY <1>2, <1>5, <2>1 DEF EnsureSession
  <2> QED
    BY <1>3, <1>5, <2>2 DEF EnsureSession, In
<1>6. CASE GetSessionSelect(p)
  <2>1. req[p].op = "GetSession" /\ phase[p] = "called" /\ UNCHANGED sessions
    BY <1>6 DEF GetSessionSelect, In
  <2>2. CASE Return(p, Done)
    BY <1>1, <1>2, <2>1, <2>2, ReturnTyped, Responses, TypedParts
  <2>3. CASE sessions[s] # NoEntry /\ GoOn(p, "selected", view) /\ UNCHANGED holder
    <3>1. view \in StoreView \ {NoEntry} /\ view.session = sessions[s]
      BY <1>1, <1>2, <2>1, ViewTyped DEF Typed, TypeOK, StoreTypeOK
    <3> HIDE DEF view
    <3>2. CallsKept'
      BY <2>1, <2>3, <3>1, GoOnTyped, TypedParts
    <3> QED
      BY <1>1, <1>2, <2>1, <3>2, TypedParts
  <2> QED
    BY <1>6, <2>2, <2>3 DEF GetSessionSelect
<1>7. CASE GetSessionJudge(p)
  <2>1. req[p].op = "GetSession" /\ phase[p] = "selected"
    BY <1>7 DEF GetSessionJudge, In
  <2>2. seen[p].session \in SessionItem
    BY <2>1 DEF Typed, Kept, StoreView
  <2>3. [Done EXCEPT !.data = seen[p].session.data] \in Response
    BY <2>2, Responses DEF SessionItem
  <2>4. CallsKept'
    BY <1>7, <2>3, ReturnTyped, Responses, TypedParts DEF GetSessionJudge
  <2>5. sessions' \in [Subject -> SessionItem \cup {NoEntry}]
    BY <1>1, <1>2, <1>7 DEF GetSessionJudge
  <2> QED
    BY <1>1, <2>4, <2>5, TypedParts
<1>8. CASE DeleteSession(p)
  <2>1. sessions' \in [Subject -> SessionItem \cup {NoEntry}] /\ Return(p, Done)
    BY <1>1, <1>2, <1>8 DEF DeleteSession
  <2> QED
    BY <1>1, <2>1, ReturnTyped, Responses, TypedParts
<1> QED
  BY <1>4, <1>5, <1>6, <1>7, <1>8 DEF SessionStep

LEMMA BeginTyped ==
  ASSUME Typed, NEW p \in Proc, Begin(p)
  PROVE  Typed'
<1>1. PICK c \in NextCalls(res[p]) :
        /\ req' = [req EXCEPT ![p] = c]
        /\ phase' = [phase EXCEPT ![p] = "called"]
        /\ begun' = [begun EXCEPT ![p] = now]
  BY DEF Begin
<1>2. /\ phase[p] = "idle" /\ UNCHANGED <<now, tokens, sessions, seen, at, res, holder, rowLocks>>
  BY DEF Begin
<1>3. c \in Call
  BY CallsTyped DEF Typed, TypeOK, CallTypeOK
<1>4. \A q \in Proc : Kept(q)'
  BY <1>1, <1>2 DEF Typed, TypeOK, CallTypeOK, Kept, Selected
<1>5. CallTypeOK'
  <2>1. /\ phase' \in [Proc -> {"idle", "called", "selected", "reload"}]
        /\ req' \in [Proc -> Call \cup {Failed}]
        /\ begun' \in [Proc -> 0 .. MaxTime]
    BY <1>1, <1>3 DEF Typed, TypeOK, CallTypeOK
  <2>2. \A q \in Proc :
          /\ phase'[q] # "idle" => req'[q] \in Call /\ begun'[q] <= now
          /\ phase'[q] \in {"selected", "reload"} => at[q] \in begun'[q] .. now
          /\ seen[q] # NoEntry => phase'[q] \in {"selected", "reload"}
    BY <1>1, <1>2, <1>3, StoreAssumption DEF Typed, TypeOK, CallTypeOK
  <2>3. ASSUME NEW k \in Token, holder[k] # NoEntry
        PROVE  rowLocks /\ phase'[holder[k]] = "selected" /\ req'[holder[k]].op = "Consume"
    <3>1. rowLocks /\ In(holder[k], "Consume", "selected")
      BY <2>3 DEF Typed, TypeOK, CallTypeOK
    <3> QED
      BY <1>1, <1>2, <3>1 DEF Typed, TypeOK, CallTypeOK, In
  <2> QED
    BY <1>2, <2>1, <2>2, <2>3 DEF Typed, TypeOK, CallTypeOK, In
<1> QED
  BY <1>2, <1>4, <1>5 DEF Typed, TypeOK, StoreTypeOK

LEMMA NextTyped == Inv /\ Typed /\ [Next]_vars => Typed'
<1> SUFFICES ASSUME Inv, Typed, [Next]_vars
             PROVE  Typed'
  OBVIOUS
<1>1. CASE UNCHANGED vars
  BY <1>1 DEF vars, Typed, TypeOK, StoreTypeOK, CallTypeOK, In, Kept, Selected
<1>2. CASE Tick
  <2>1. now' \in 0 .. MaxTime /\ now' = now + 1 /\ now \in Nat
    BY <1>2, StoreAssumption DEF Tick, Typed, TypeOK, CallTypeOK
  <2>2. \A q \in Proc : /\ phase[q] # "idle" => begun[q] <= now'
                        /\ phase[q] \in {"selected", "reload"} => at[q] \in begun[q] .. now'
    BY <2>1, StoreAssumption DEF Typed, TypeOK, CallTypeOK
  <2>3. CallTypeOK'
    BY <1>2, <2>1, <2>2 DEF Tick, Typed, TypeOK, CallTypeOK, In
  <2> QED
    BY <1>2, <2>3 DEF Tick, Typed, TypeOK, StoreTypeOK, Kept, Selected
<1>3. ASSUME NEW p \in Proc, Refuse(p)
      PROVE  Typed'
  <2>1. CallsKept'
    BY <1>3, ReturnTyped, Responses, TypedParts DEF Refuse
  <2> QED
    BY <1>3, <2>1, TypedParts DEF Refuse, RowsOK
<1> QED
  BY <1>1, <1>2, <1>3, BeginTyped, TokenStepTyped, SessionStepTyped DEF Next

LEMMA InitTyped == Init => Typed
<1> SUFFICES ASSUME Init
             PROVE  Typed
  OBVIOUS
<1>1. StoreTypeOK
  BY DEF Init, StoreTypeOK
<1>2. CallTypeOK
  BY StoreAssumption DEF Init, CallTypeOK, Done, Failed, Response
<1> QED
  BY <1>1, <1>2 DEF Init, Typed, TypeOK, Kept, Stored

\* Whatever clients do between two statements, the tables of store.go and the locals of
\* its methods keep their types, what was read agrees with how far a call got, and a
\* lock belongs to an open consumption.
THEOREM TypeCorrect == Spec => []TypeOK
<1>1. Typed => TypeOK
  BY DEF Typed
<1> QED
  BY <1>1, InitInv, NextInv, InitTyped, NextTyped, PTL DEF Spec

-----------------------------------------------------------------------------
(* The refinement of AtomicStore, where rows are locked.  The statement that  *)
(* writes is the instant at which its call takes effect.  A first SELECT is   *)
(* an observation; the judgement that follows reports on what was observed,   *)
(* by the clock at which it is made, and what it deletes has expired by then. *)
(* The deletion that opens a lookup is an eviction.                          *)

\* The vocabulary of the contract is that of the store.
LEMMA SameStates ==
  /\ \A s, t : Contract!IsExpired(s, t) = IsExpired(s, t)
  /\ \A d, t : Contract!Passed(d, t) = Passed(d, t)
  /\ \A t, ttl : Contract!DeadlineAfter(t, ttl) = DeadlineAfter(t, ttl)
  /\ \A s, t, ttl : Contract!EffectiveExpiresAt(s, t, ttl) = EffectiveExpiresAt(s, t, ttl)
  /\ \A s, kinds, t : Contract!Consumable(s, kinds, t) = Consumable(s, kinds, t)
  /\ \A s : Contract!Acceptable(s) = Acceptable(s)
BY DEF Contract!IsExpired, IsExpired, Contract!Passed, Passed, Contract!DeadlineAfter,
       DeadlineAfter, Contract!EffectiveExpiresAt, EffectiveExpiresAt, Contract!Earlier,
       Earlier, Contract!Never, Never, Contract!Consumable, Consumable,
       Contract!IsActive, IsActive, Contract!MatchKind, MatchKind, Contract!Acceptable,
       Acceptable

LEMMA SameMaps ==
  /\ \A map : Contract!Stored(map) = Stored(map)
  /\ \A map, t : Contract!Live(map, t) = Live(map, t)
  /\ \A e, t : Contract!EntryExpired(e, t) = EntryExpired(e, t)
  /\ \A map, k, s, d : Contract!Put(map, k, s, d) = Put(map, k, s, d)
  /\ \A map, K : Contract!Drop(map, K) = Drop(map, K)
  /\ \A map, k, s, t : Contract!Matches(map, k, s, t) = Matches(map, k, s, t)
  /\ \A map, k, kinds, t : Contract!Consume(map, k, kinds, t) = Consume(map, k, kinds, t)
  /\ \A map, s, kinds : Contract!OfSubject(map, s, kinds) = OfSubject(map, s, kinds)
<1>1. /\ \A map : Contract!Stored(map) = Stored(map)
      /\ \A e, t : Contract!EntryExpired(e, t) = EntryExpired(e, t)
  BY DEF Contract!Stored, Stored, Contract!EntryExpired, EntryExpired, Contract!IsExpired,
         IsExpired, Contract!Passed, Passed, Contract!Never, Never
<1>2. \A map, t : Contract!Live(map, t) = Live(map, t)
  BY <1>1 DEF Contract!Live, Live
<1>3. \A map, k, s, t : Contract!Matches(map, k, s, t) = Matches(map, k, s, t)
  BY <1>2 DEF Contract!Matches, Matches
<1>4. \A map, k, kinds, t : Contract!Consume(map, k, kinds, t) = Consume(map, k, kinds, t)
  BY SameStates DEF Contract!Consume, Consume, Contract!Rewrite, Rewrite,
         Contract!MarkConsumed, MarkConsumed
<1>5. \A map, s, kinds : Contract!OfSubject(map, s, kinds) = OfSubject(map, s, kinds)
  BY <1>1 DEF Contract!OfSubject, OfSubject, Contract!MatchKind, MatchKind
<1> QED
  BY <1>1, <1>2, <1>3, <1>4, <1>5 DEF Contract!Put, Put, Contract!Drop, Drop

LEMMA SameCalls ==
  /\ Contract!Done = Done /\ Contract!Failed = Failed /\ Contract!Refused = Refused
  /\ \A K, entries : Contract!Reported(K, entries) = Reported(K, entries)
  /\ \A c, map, items : Contract!View(c, map, items) = View(c, map, items)
  /\ \A last : Contract!NextCalls(last) = NextCalls(last)
<1>1. /\ Contract!Done = Done /\ Contract!Failed = Failed /\ Contract!Refused = Refused
      /\ \A K, entries : Contract!Reported(K, entries) = Reported(K, entries)
  BY DEF Contract!Done, Done, Contract!Failed, Failed, Contract!Refused, Refused,
         Contract!Reported, Reported
<1>2. \A c, map, items : Contract!View(c, map, items) = View(c, map, items)
  BY SameMaps DEF Contract!View, View
<1>3. \A last : Contract!NextCalls(last) = NextCalls(last)
  BY DEF Contract!NextCalls, NextCalls, Contract!SessionCall, SessionCall,
         Contract!MarkConsumed, MarkConsumed
<1> QED
  BY <1>1, <1>2, <1>3

-----------------------------------------------------------------------------
\* With row locks the contract is shown the store as it is.
LEMMA Answers ==
  ASSUME Typed, rowLocks, NEW p \in Proc, NEW r, Return(p, r)
  PROVE  Contract!Answer(p, r)
<1> DEFINE under(ph) == [q \in Proc |-> IF ph[q] = "idle" THEN "idle" ELSE "called"]
<1>1. under(phase)' = [under(phase) EXCEPT ![p] = "idle"]
  BY DEF Return, Typed, TypeOK, CallTypeOK
<1>2. rowLocks' = rowLocks
  BY DEF Return
<1> HIDE DEF under
<1>3. Shown(under(phase), [q \in Proc |-> "idle"])' = under(phase)'
      /\ Shown(under(phase), [q \in Proc |-> "idle"]) = under(phase)
  BY <1>2 DEF Shown
<1> QED
  BY <1>1, <1>2, <1>3, SameCalls DEF Contract!Answer, Return, Shown, under

\* Only what has expired goes.
LEMMA Evicts ==
  ASSUME Typed, rowLocks, rowLocks' = rowLocks, NEW t \in Nat,
         NEW K, \A k \in K \cap Stored(tokens) : EntryExpired(tokens[k], t),
         tokens' = Drop(tokens, K),
         NEW S, \A s \in S \cap Subject : sessions[s] = NoEntry \/ Passed(sessions[s].expiresAt, t),
         sessions' = [s \in Subject |-> IF s \in S THEN NoEntry ELSE sessions[s]]
  PROVE  Contract!EvictSome(t)
<1> DEFINE E == K \cap Stored(tokens)
           F == S \cap Subject
           without(X) == [s \in Subject |-> IF s \in X THEN NoEntry ELSE sessions[s]]
<1>1. tokens' = Drop(tokens, E)
  <2>1. \A k \in Token : (IF k \in K THEN NoEntry ELSE tokens[k])
                            = IF k \in E THEN NoEntry ELSE tokens[k]
    BY DEF Stored
  <2> HIDE DEF E
  <2> QED
    BY <2>1 DEF Drop
<1>2. E \in SUBSET (Stored(tokens) \ Live(tokens, t))
  BY DEF Live
<1>3. sessions' = without(F)
  <2>1. \A s \in Subject : s \in S <=> s \in F
    OBVIOUS
  <2> HIDE DEF F
  <2> QED
    BY <2>1
<1>4. F \in SUBSET {s \in Subject : ~(sessions[s] # NoEntry /\ ~Passed(sessions[s].expiresAt, t))}
  OBVIOUS
<1>5. \E X \in SUBSET (Stored(tokens) \ Live(tokens, t)) : tokens' = Drop(tokens, X)
  <2> HIDE DEF E
  <2> QED
    BY <1>1, <1>2
<1>6. \E X \in SUBSET {s \in Subject : ~(sessions[s] # NoEntry /\ ~Passed(sessions[s].expiresAt, t))} :
         sessions' = without(X)
  <2> HIDE DEF F, without
  <2> QED
    BY <1>3, <1>4
<1>7. Shown(tokens, [k \in Token |-> NoEntry]) = tokens
      /\ Shown(tokens, [k \in Token |-> NoEntry])' = tokens'
      /\ Shown(sessions, [s \in Subject |-> NoEntry]) = sessions
      /\ Shown(sessions, [s \in Subject |-> NoEntry])' = sessions'
  BY DEF Shown
<1> QED
  BY <1>5, <1>6, <1>7, SameMaps, SameStates DEF Contract!EvictSome, Contract!SessionLive

LEMMA RowsEvicted ==
  ASSUME Typed, rowLocks, rowLocks' = rowLocks, NEW t \in Nat,
         NEW K, \A k \in K : k \in Stored(tokens) => EntryExpired(tokens[k], t),
         tokens' = Drop(tokens, K), UNCHANGED sessions
  PROVE  Contract!EvictSome(t)
<1>1. sessions' = [s \in Subject |-> IF s \in {} THEN NoEntry ELSE sessions[s]]
  BY DEF Typed, TypeOK, StoreTypeOK
<1>2. \A k \in K \cap Stored(tokens) : EntryExpired(tokens[k], t)
  OBVIOUS
<1>3. \A s \in {} \cap Subject : sessions[s] = NoEntry \/ Passed(sessions[s].expiresAt, t)
  OBVIOUS
<1> DEFINE S == {}
<1>4. /\ sessions' = [s \in Subject |-> IF s \in S THEN NoEntry ELSE sessions[s]]
      /\ \A s \in S \cap Subject : sessions[s] = NoEntry \/ Passed(sessions[s].expiresAt, t)
  BY <1>1, <1>3
<1> HIDE DEF S
<1> QED
  BY <1>2, <1>4, Evicts

\* The map and the sessions are left as they are.
LEMMA NothingEvicted ==
  ASSUME Typed, rowLocks, rowLocks' = rowLocks, UNCHANGED <<tokens, sessions>>, NEW t \in Nat
  PROVE  Contract!EvictSome(t)
<1>1. tokens' = Drop(tokens, {})
  BY DEF Drop, Typed, TypeOK, StoreTypeOK
<1> QED
  BY <1>1, RowsEvicted

-----------------------------------------------------------------------------
\* The clock readings of a call are among the contract's.
LEMMA Readings ==
  ASSUME Typed, NEW p \in Proc, phase[p] # "idle"
  PROVE  /\ begun[p] \in Nat /\ now \in Nat
         /\ begun[p] \in begun[p] .. now /\ now \in begun[p] .. now
         /\ phase[p] = "selected" => at[p] .. now \subseteq begun[p] .. now
<1>1. begun[p] \in 0 .. MaxTime /\ now \in 0 .. MaxTime /\ begun[p] <= now /\ MaxTime \in Nat
  BY StoreAssumption DEF Typed, TypeOK, CallTypeOK
<1>2. phase[p] = "selected" => at[p] \in begun[p] .. now
  BY DEF Typed, TypeOK, CallTypeOK
<1> QED
  BY <1>1, <1>2

\* A first SELECT that found something.
LEMMA Observes ==
  ASSUME Typed, rowLocks, NEW p \in Proc, phase[p] = "called",
         GoOn(p, "selected", View(req[p], tokens, sessions)), UNCHANGED <<tokens, sessions>>
  PROVE  Contract!Next
<1> DEFINE under(ph) == [q \in Proc |-> IF ph[q] = "idle" THEN "idle" ELSE "called"]
<1>1. under(phase)' = under(phase) /\ under(phase)[p] = "called"
  BY DEF GoOn, Typed, TypeOK, CallTypeOK
<1>2. rowLocks' = rowLocks
  BY DEF GoOn
<1> HIDE DEF under
<1>3. Shown(under(phase), [q \in Proc |-> "idle"])' = under(phase)'
      /\ Shown(under(phase), [q \in Proc |-> "idle"]) = under(phase)
  BY <1>2 DEF Shown
<1>4. Contract!Observe(p)
  BY <1>1, <1>2, <1>3, SameCalls DEF Contract!Observe, GoOn, Shown, under
<1> QED
  BY <1>4 DEF Contract!Next

\* A call that answers from the rows as they are, or as it has kept them.
LEMMA Reports ==
  ASSUME Typed, rowLocks, NEW p \in Proc, phase[p] # "idle", NEW r, Return(p, r),
         Contract!EvictSome(now), NEW t \in begun[p] .. now,
         NEW view \in ({seen[p]} \ {NoEntry}) \cup {View(req[p], tokens, sessions)},
         r \in Contract!ReadAnswers(req[p], view, t)
  PROVE  Contract!Next
<1>1. Contract!Answer(p, r)
  BY Answers
<1>2. /\ Shown([q \in Proc |-> IF phase[q] = "idle" THEN "idle" ELSE "called"],
               [q \in Proc |-> "idle"])[p] = "called"
      /\ Shown(req, [q \in Proc |-> Failed]) = req
      /\ Shown(begun, [q \in Proc |-> 0]) = begun
      /\ Shown(seen, [q \in Proc |-> NoEntry]) = seen
      /\ Shown(tokens, [k \in Token |-> NoEntry]) = tokens
      /\ Shown(sessions, [s \in Subject |-> NoEntry]) = sessions
  BY DEF Shown
<1>3. Contract!Report(p)
  BY <1>1, <1>2, SameCalls DEF Contract!Report
<1> QED
  BY <1>3 DEF Contract!Next

\* A statement in which a call takes effect.
LEMMA Performs ==
  ASSUME Typed, rowLocks, NEW p \in Proc, phase[p] # "idle",
         NEW t \in begun[p] .. now, NEW u \in begun[p] .. now,
         \/ Contract!Save(p, req[p], t)
         \/ Contract!CompareAndSwap(p, req[p], t, u)
         \/ Contract!ConsumeState(p, req[p], t)
         \/ Contract!Delete(p, req[p])
         \/ Contract!DeleteAll(p, req[p])
         \/ Contract!SaveSession(p, req[p], t)
         \/ Contract!EnsureSession(p, req[p], t)
         \/ Contract!DeleteSession(p, req[p])
  PROVE  Contract!Next
<1>1. /\ Shown([q \in Proc |-> IF phase[q] = "idle" THEN "idle" ELSE "called"],
               [q \in Proc |-> "idle"])[p] = "called"
      /\ Shown(req, [q \in Proc |-> Failed]) = req
      /\ Shown(begun, [q \in Proc |-> 0]) = begun
  BY DEF Shown
<1>2. Contract!Perform(p)
  BY <1>1 DEF Contract!Perform
<1> QED
  BY <1>2 DEF Contract!Next

\* A lookup names the live ones of the rows it read and may name others; a consumption
\* that changes nothing returns what it could not consume.
LEMMA Reportable ==
  ASSUME NEW c, NEW view, NEW t, NEW R,
         LET live == {k \in DOMAIN view.entries : ~EntryExpired(view.entries[k], t)} IN
           \/ c.op = "Get" /\ R = live
           \/ c.op = "Find" /\ live \subseteq R /\ R \subseteq DOMAIN view.entries
           \/ /\ c.op = "Consume" /\ R = live
              /\ \A k \in R : ~Consumable(view.entries[k].state, c.kinds, t)
  PROVE  Reported(R, view.entries) \in Contract!ReadAnswers(c, view, t)
<1> DEFINE live == {k \in DOMAIN view.entries : ~Contract!EntryExpired(view.entries[k], t)}
           With(K) == {Contract!Reported(live \cup L, view.entries) : L \in SUBSET K}
<1>1. live = {k \in DOMAIN view.entries : ~EntryExpired(view.entries[k], t)}
  BY SameMaps
<1>2. Reported(R, view.entries) = Contract!Reported(R, view.entries)
  BY SameCalls
<1>3. \A K : live \subseteq R /\ R \subseteq live \cup K
               => Contract!Reported(R, view.entries) \in With(K)
  <2> HIDE DEF live
  <2> SUFFICES ASSUME NEW K, live \subseteq R /\ R \subseteq live \cup K
               PROVE  Contract!Reported(R, view.entries) \in With(K)
    OBVIOUS
  <2>1. live \cup (R \cap K) = R /\ R \cap K \in SUBSET K
    OBVIOUS
  <2> QED
    BY <2>1
<1>4. CASE c.op = "Get"
  <2>1. Contract!ReadAnswers(c, view, t) = With({})
    BY <1>4 DEF Contract!ReadAnswers
  <2>2. live \subseteq R /\ R \subseteq live \cup {}
    BY <1>1, <1>4
  <2> HIDE DEF live, With
  <2> QED
    BY <1>2, <1>3, <2>1, <2>2
<1>5. CASE c.op = "Find"
  <2>1. Contract!ReadAnswers(c, view, t) = With(DOMAIN view.entries)
    BY <1>5 DEF Contract!ReadAnswers
  <2>2. live \subseteq R /\ R \subseteq live \cup DOMAIN view.entries
    BY <1>1, <1>5
  <2> HIDE DEF live, With
  <2> QED
    BY <1>2, <1>3, <2>1, <2>2
<1>6. CASE c.op = "Consume"
  <2> DEFINE gone == {k \in DOMAIN view.entries : Contract!IsExpired(view.entries[k].state, t)}
  <2>1. R = live /\ \A k \in live : ~Consumable(view.entries[k].state, c.kinds, t)
    BY <1>1, <1>6
  <2>2. ~\E k \in live : Contract!Consumable(view.entries[k].state, c.kinds, t)
    BY <2>1, SameStates
  <2>3. Contract!ReadAnswers(c, view, t) = With(gone)
    BY <1>6, <2>2 DEF Contract!ReadAnswers
  <2> HIDE DEF live, With, gone
  <2> QED
    BY <1>2, <1>3, <2>1, <2>3
<1> QED
  BY <1>4, <1>5, <1>6

\* A row is live while its deadline lies ahead.
LEMMA LiveRow ==
  ASSUME NEW e \in Entry, Timely(e), NEW t \in Nat
  PROVE  EntryExpired(e, t) <=> Passed(e.expiresAt, t)
<1>1. e.expiresAt \in Deadline /\ e.state.expiresAt \in Deadline
  BY DEF Entry, State
<1> QED
  BY <1>1 DEF Timely, EntryExpired, IsExpired, Passed, Deadline, Never
-----------------------------------------------------------------------------
\* Time passes and calls arrive alike; a refusal changes nothing.
LEMMA TickMaps ==
  ASSUME Typed, rowLocks, Tick
  PROVE  Contract!Next
<1>1. now' \in Nat /\ rowLocks' = rowLocks /\ UNCHANGED <<tokens, sessions>>
  BY StoreAssumption DEF Tick, Typed, TypeOK, CallTypeOK
<1>2. Contract!EvictSome(now')
  <2>1. PICK t \in Nat : t = now'
    BY <1>1
  <2>2. Contract!EvictSome(t)
    BY <1>1, NothingEvicted
  <2> QED
    BY <2>1, <2>2 DEF Contract!EvictSome
<1>3. UNCHANGED <<phase, req, begun, seen, res, rowLocks>>
  BY DEF Tick
<1>4. Contract!Tick
  BY <1>2, <1>3 DEF Tick, Contract!Tick, Shown
<1> QED
  BY <1>4 DEF Contract!Next

LEMMA BeginMaps ==
  ASSUME Typed, rowLocks, NEW p \in Proc, Begin(p)
  PROVE  Contract!Next
<1> DEFINE under(ph) == [q \in Proc |-> IF ph[q] = "idle" THEN "idle" ELSE "called"]
<1>1. under(phase)' = [under(phase) EXCEPT ![p] = "called"] /\ under(phase)[p] = "idle"
  <2>1. phase' = [phase EXCEPT ![p] = "called"] /\ phase[p] = "idle"
    BY DEF Begin
  <2> QED
    BY <2>1 DEF Typed, TypeOK, CallTypeOK
<1>2. Contract!NextCalls(res[p]) = NextCalls(res[p])
  BY SameCalls
<1>3. rowLocks' = rowLocks
  BY DEF Begin
<1> HIDE DEF under
<1>4. Shown(under(phase), [q \in Proc |-> "idle"])' = under(phase)'
      /\ Shown(under(phase), [q \in Proc |-> "idle"]) = under(phase)
  BY <1>3 DEF Shown
<1>5. Contract!Begin(p)
  BY <1>1, <1>2, <1>3, <1>4 DEF Begin, Contract!Begin, Shown, under
<1> QED
  BY <1>5 DEF Contract!Next

LEMMA RefuseMaps ==
  ASSUME Typed, rowLocks, NEW p \in Proc, Refuse(p)
  PROVE  Contract!Next
<1>1. Contract!Answer(p, Refused) /\ Contract!Refused = Refused
  BY Answers, SameCalls DEF Refuse
<1>2. rowLocks' = rowLocks /\ UNCHANGED <<tokens, sessions>> /\ phase[p] # "idle"
  BY DEF Refuse, Return
<1>3. Contract!Refuse(p)
  BY <1>1, <1>2 DEF Contract!Refuse, Shown
<1> QED
  BY <1>3 DEF Contract!Next

-----------------------------------------------------------------------------
\* The operations on tokens that write.
LEMMA SaveMaps ==
  ASSUME Typed, rowLocks, NEW p \in Proc, SaveTokenState(p)
  PROVE  Contract!Next
<1>1. Contract!Answer(p, Contract!Done)
  BY Answers, SameCalls DEF SaveTokenState
<1>2. /\ phase[p] # "idle" /\ rowLocks' = rowLocks /\ UNCHANGED sessions
      /\ req[p].op = "Save" /\ Acceptable(req[p].state)
      /\ tokens' = Put(tokens, req[p].key, req[p].state,
                       EffectiveExpiresAt(req[p].state, begun[p], req[p].ttl))
  BY DEF SaveTokenState, WriteToken, Return, In
<1>3. Contract!Save(p, req[p], begun[p])
  BY <1>1, <1>2, SameStates, SameMaps DEF Contract!Save, Shown
<1> QED
  BY <1>2, <1>3, Readings, Performs

\* The comparison in Go finds the state given or answers false.
LEMMA CompareSelectMaps ==
  ASSUME Typed, rowLocks, NEW p \in Proc, CompareSelect(p)
  PROVE  Contract!Next
<1> DEFINE k == req[p].key
<1>1. /\ phase[p] = "called" /\ req[p].op = "CAS" /\ Acceptable(req[p].state)
      /\ UNCHANGED <<tokens, sessions>>
  BY DEF CompareSelect, In
<1>2. CASE tokens[k] # NoEntry /\ tokens[k].state = req[p].expected
  BY <1>1, <1>2, Observes DEF CompareSelect
<1>3. CASE ~(tokens[k] # NoEntry /\ tokens[k].state = req[p].expected)
  <2>1. Return(p, Failed)
    BY <1>3 DEF CompareSelect
  <2>2. Contract!Answer(p, Contract!Failed) /\ rowLocks' = rowLocks
    BY <2>1, Answers, SameCalls DEF Return
  <2>3. ~Contract!Matches(tokens, k, req[p].expected, now)
    BY <1>3, SameMaps DEF Matches, Live, Stored
  <2>4. Contract!CompareAndSwap(p, req[p], begun[p], now)
    BY <1>1, <2>2, <2>3, SameStates DEF Contract!CompareAndSwap, Shown
  <2> QED
    BY <1>1, <2>4, Readings, Performs
<1> QED
  BY <1>2, <1>3

\* The UPDATE compares what the SELECT found equal to the state given.
LEMMA CompareUpdateMaps ==
  ASSUME Typed, rowLocks, NEW p \in Proc, CompareUpdate(p)
  PROVE  Contract!Next
<1> DEFINE k == req[p].key
           d == EffectiveExpiresAt(req[p].state, begun[p], req[p].ttl)
<1>1. phase[p] = "selected" /\ req[p].op = "CAS" /\ UNCHANGED sessions
  BY DEF CompareUpdate, In
<1>2. req[p] \in Call /\ k \in Token /\ Selected(p).state = req[p].expected
  <2>1. req[p] \in Call
    BY <1>1 DEF Typed, TypeOK, CallTypeOK
  <2>2. Selected(p).state = req[p].expected
    BY <1>1 DEF Typed, Kept
  <2> QED
    BY <1>1, <2>1, <2>2, FieldsTyped
<1>3. PICK t \in at[p] .. now :
        IF /\ tokens[k] # NoEntry
           /\ tokens[k].state = req[p].expected
           /\ ~Passed(tokens[k].expiresAt, t)
          THEN WriteToken(p, k, req[p].state, d) /\ Return(p, Done)
          ELSE UNCHANGED tokens /\ Return(p, Failed)
  BY <1>2 DEF CompareUpdate
<1>4. t \in begun[p] .. now /\ t \in Nat /\ begun[p] \in begun[p] .. now
  BY <1>1, Readings
<1>5. Matches(tokens, k, req[p].expected, t)
        <=> /\ tokens[k] # NoEntry
            /\ tokens[k].state = req[p].expected
            /\ ~Passed(tokens[k].expiresAt, t)
  <2>1. tokens[k] # NoEntry => tokens[k] \in Entry /\ Timely(tokens[k])
    BY <1>2 DEF Typed, TypeOK, StoreTypeOK, Stored
  <2> QED
    BY <1>2, <1>4, <2>1, LiveRow DEF Matches, Live, Stored
<1>6. IF Contract!Matches(tokens, k, req[p].expected, t)
        THEN tokens' = Put(tokens, k, req[p].state, d) /\ Contract!Answer(p, Contract!Done)
        ELSE UNCHANGED tokens /\ Contract!Answer(p, Contract!Failed)
  BY <1>3, <1>5, Answers, SameCalls, SameMaps DEF WriteToken
<1>7. rowLocks' = rowLocks
  BY <1>3 DEF Return
<1>8. Acceptable(req[p].state)
  BY <1>1 DEF Typed, Kept
<1>9. Contract!CompareAndSwap(p, req[p], begun[p], t)
  BY <1>1, <1>6, <1>7, <1>8, SameStates, SameMaps DEF Contract!CompareAndSwap, Shown
<1> QED
  BY <1>1, <1>4, <1>9, Performs
LEMMA DeleteMaps ==
  ASSUME Typed, rowLocks, NEW p \in Proc, DeleteTokenState(p)
  PROVE  Contract!Next
<1>1. Contract!Answer(p, Contract!Done)
  BY Answers, SameCalls DEF DeleteTokenState
<1>2. /\ phase[p] # "idle" /\ rowLocks' = rowLocks /\ UNCHANGED sessions
      /\ req[p].op = "Delete" /\ tokens' = Drop(tokens, {req[p].key})
  BY DEF DeleteTokenState, Return, In
<1>3. Contract!Delete(p, req[p])
  BY <1>1, <1>2, SameMaps DEF Contract!Delete, Shown
<1> QED
  BY <1>2, <1>3, Readings, Performs

LEMMA DeleteAllMaps ==
  ASSUME Typed, rowLocks, NEW p \in Proc, DeleteTokenStates(p)
  PROVE  Contract!Next
<1>1. Contract!Answer(p, Contract!Done)
  BY Answers, SameCalls DEF DeleteTokenStates
<1>2. /\ phase[p] # "idle" /\ rowLocks' = rowLocks /\ UNCHANGED sessions
      /\ req[p].op = "DeleteAll"
      /\ tokens' = Drop(tokens, OfSubject(tokens, req[p].subject, req[p].kinds))
  BY DEF DeleteTokenStates, Return, In
<1>3. Contract!DeleteAll(p, req[p])
  BY <1>1, <1>2, SameMaps DEF Contract!DeleteAll, Shown
<1> QED
  BY <1>2, <1>3, Readings, Performs

-----------------------------------------------------------------------------
\* The operations on tokens that read.

\* A SELECT that finds nothing is the answer.
LEMMA MissingMaps ==
  ASSUME Typed, rowLocks, NEW p \in Proc, phase[p] # "idle", req[p].op \in {"Get", "Consume"},
         tokens[req[p].key] = NoEntry, Return(p, Done), UNCHANGED <<tokens, sessions>>
  PROVE  Contract!Next
<1> DEFINE view == View(req[p], tokens, sessions)
<1>1. DOMAIN view.entries = {}
  <2>1. req[p] \in Call
    BY DEF Typed, TypeOK, CallTypeOK
  <2>2. DOMAIN view.entries = {req[p].key} \cap Stored(tokens)
    BY <2>1, ViewTyped DEF Typed, TypeOK, StoreTypeOK
  <2> QED
    BY <2>2 DEF Stored
<1>2. Done \in Contract!ReadAnswers(req[p], view, now)
  <2> HIDE DEF view
  <2>1. Reported({}, view.entries) \in Contract!ReadAnswers(req[p], view, now)
    BY <1>1, Reportable
  <2> QED
    BY <2>1, NothingReported
<1>3. rowLocks' = rowLocks
  BY DEF Return
<1>4. Contract!EvictSome(now)
  BY <1>3, Readings, NothingEvicted
<1> QED
  BY <1>2, <1>4, Readings, Reports

LEMMA GetSelectMaps ==
  ASSUME Typed, rowLocks, NEW p \in Proc, GetSelect(p)
  PROVE  Contract!Next
<1>1. phase[p] = "called" /\ req[p].op = "Get" /\ UNCHANGED <<tokens, sessions>>
  BY DEF GetSelect, In
<1> QED
  BY <1>1, MissingMaps, Observes DEF GetSelect

\* What a call on one key may answer from the row it has kept, by the clock of now.
LEMMA KeptAnswers ==
  ASSUME Typed, NEW p \in Proc, phase[p] = "selected", req[p].op \in {"Get", "Consume"}
  PROVE  /\ Passed(Selected(p).expiresAt, now) =>
              Done \in Contract!ReadAnswers(req[p], seen[p], now)
         /\ /\ ~Passed(Selected(p).expiresAt, now)
            /\ req[p].op = "Consume" => ~Consumable(Selected(p).state, req[p].kinds, now)
            => Reported({req[p].key}, seen[p].entries)
                 \in Contract!ReadAnswers(req[p], seen[p], now)
<1> DEFINE k == req[p].key
           live == {j \in DOMAIN seen[p].entries : ~EntryExpired(seen[p].entries[j], now)}
<1>1. /\ DOMAIN seen[p].entries = {k}
      /\ EntryExpired(Selected(p), now) <=> Passed(Selected(p).expiresAt, now)
  BY SelectedTyped, LiveRow, Readings
<1>2. ASSUME Passed(Selected(p).expiresAt, now)
      PROVE  Done \in Contract!ReadAnswers(req[p], seen[p], now)
  <2>1. live = {}
    BY <1>1, <1>2 DEF Selected
  <2>2. Reported({}, seen[p].entries) \in Contract!ReadAnswers(req[p], seen[p], now)
    BY <2>1, Reportable
  <2> QED
    BY <2>2, NothingReported
<1>3. ASSUME ~Passed(Selected(p).expiresAt, now),
             req[p].op = "Consume" => ~Consumable(Selected(p).state, req[p].kinds, now)
      PROVE  Reported({k}, seen[p].entries) \in Contract!ReadAnswers(req[p], seen[p], now)
  <2>1. live = {k}
    BY <1>1, <1>3 DEF Selected
  <2>2. req[p].op = "Consume" =>
          \A j \in {k} : ~Consumable(seen[p].entries[j].state, req[p].kinds, now)
    BY <1>3 DEF Selected
  <2> HIDE DEF k
  <2> QED
    BY <2>1, <2>2, Reportable
<1> QED
  BY <1>2, <1>3

LEMMA GetJudgeMaps ==
  ASSUME Typed, rowLocks, NEW p \in Proc, GetJudge(p)
  PROVE  Contract!Next
<1> DEFINE k == req[p].key
           gone == {x \in {k} \cap Stored(tokens) : /\ tokens[x].state = Selected(p).state
                                                    /\ Passed(tokens[x].expiresAt, now)}
<1>1. phase[p] = "selected" /\ req[p].op = "Get" /\ sessions' = sessions
  BY DEF GetJudge, In
<1>2. /\ now \in begun[p] .. now /\ now \in Nat
      /\ seen[p] \in ({seen[p]} \ {NoEntry}) \cup {View(req[p], tokens, sessions)}
  BY <1>1, Readings, SelectedTyped
<1>3. CASE Passed(Selected(p).expiresAt, now)
  <2>1. tokens' = Drop(tokens, gone) /\ Return(p, Done)
    BY <1>3 DEF GetJudge
  <2>2. rowLocks' = rowLocks
    BY <2>1 DEF Return
  <2>3. \A x \in gone : EntryExpired(tokens[x], now)
    BY DEF EntryExpired
  <2> HIDE DEF gone
  <2>4. Contract!EvictSome(now)
    BY <1>1, <1>2, <2>1, <2>2, <2>3, RowsEvicted
  <2>5. Done \in Contract!ReadAnswers(req[p], seen[p], now)
    BY <1>1, <1>3, KeptAnswers
  <2> QED
    BY <1>1, <1>2, <2>1, <2>4, <2>5, Reports
<1>4. CASE ~Passed(Selected(p).expiresAt, now)
  <2>1. UNCHANGED tokens /\ Return(p, Reported({k}, seen[p].entries))
    BY <1>4 DEF GetJudge
  <2>2. rowLocks' = rowLocks
    BY <2>1 DEF Return
  <2>3. Contract!EvictSome(now)
    BY <1>1, <1>2, <2>1, <2>2, NothingEvicted
  <2>4. Reported({k}, seen[p].entries) \in Contract!ReadAnswers(req[p], seen[p], now)
    BY <1>1, <1>4, KeptAnswers
  <2> QED
    BY <1>1, <1>2, <2>1, <2>3, <2>4, Reports
<1> QED
  BY <1>3, <1>4

\* The deletion of the expired rows is an eviction, the SELECT after it the answer.
LEMMA FindEvictMaps ==
  ASSUME Typed, rowLocks, NEW p \in Proc, FindEvict(p)
  PROVE  Contract!Next
<1> DEFINE expired == {k \in OfSubject(tokens, req[p].subject, {}) :
                         Passed(tokens[k].expiresAt, begun[p])}
           under(ph) == [q \in Proc |-> IF ph[q] = "idle" THEN "idle" ELSE "called"]
<1>1. /\ phase[p] = "called" /\ sessions' = sessions
      /\ tokens' = Drop(tokens, expired)
      /\ GoOn(p, "selected", NoEntry)
  BY DEF FindEvict, In
<1>2. rowLocks' = rowLocks /\ UNCHANGED <<now, req, begun, res>>
  BY <1>1 DEF GoOn
<1>3. \A k \in expired : EntryExpired(tokens[k], now)
  <2> SUFFICES ASSUME NEW k \in expired
               PROVE  Passed(tokens[k].expiresAt, now)
    BY DEF EntryExpired
  <2>1. tokens[k].expiresAt \in Deadline /\ Passed(tokens[k].expiresAt, begun[p])
    BY DEF OfSubject, Stored, Typed, TypeOK, StoreTypeOK, Entry
  <2> QED
    BY <1>1, <2>1, Readings, ExpiredStays
<1>4. now \in Nat
  BY <1>1, Readings
<1>5. seen' = seen
  <2>1. seen[p] = NoEntry
    BY <1>1 DEF Typed, TypeOK, CallTypeOK
  <2> QED
    BY <1>1, <2>1 DEF GoOn, Typed
<1>6. under(phase)' = under(phase)
  BY <1>1 DEF GoOn, Typed, TypeOK, CallTypeOK
<1> HIDE DEF expired, under
<1>7. Contract!EvictSome(now)
  BY <1>1, <1>2, <1>3, <1>4, RowsEvicted
<1>8. Shown(under(phase), [q \in Proc |-> "idle"])' = Shown(under(phase), [q \in Proc |-> "idle"])
  BY <1>2, <1>6 DEF Shown
<1>9. Contract!Evict
  BY <1>2, <1>5, <1>7, <1>8 DEF Contract!Evict, Shown, under
<1> QED
  BY <1>9 DEF Contract!Next

LEMMA FindSelectMaps ==
  ASSUME Typed, rowLocks, NEW p \in Proc, FindSelect(p)
  PROVE  Contract!Next
<1> DEFINE K == OfSubject(tokens, req[p].subject, req[p].kinds)
           view == View(req[p], tokens, sessions)
<1>1. /\ phase[p] = "selected" /\ req[p].op = "Find" /\ UNCHANGED <<tokens, sessions>>
      /\ Return(p, Reported(K, tokens))
  BY DEF FindSelect, In
<1>2. DOMAIN view.entries = K /\ \A k \in K : view.entries[k] = tokens[k]
  <2>1. req[p] \in Call
    BY <1>1 DEF Typed, TypeOK, CallTypeOK
  <2> QED
    BY <1>1, <2>1, ViewTyped DEF Typed, TypeOK, StoreTypeOK
<1>3. rowLocks' = rowLocks
  BY <1>1 DEF Return
<1>4. Contract!EvictSome(now)
  BY <1>1, <1>3, Readings, NothingEvicted
<1>5. Reported(K, tokens) \in Contract!ReadAnswers(req[p], view, now)
  <2> HIDE DEF K, view
  <2>1. Reported(K, view.entries) \in Contract!ReadAnswers(req[p], view, now)
    BY <1>1, <1>2, Reportable
  <2>2. Reported(K, view.entries) = Reported(K, tokens)
    BY <1>2, ReportedAlike
  <2> QED
    BY <2>1, <2>2
<1> HIDE DEF K
<1> QED
  BY <1>1, <1>4, <1>5, Readings, Reports
-----------------------------------------------------------------------------
\* The transaction of a consumption.
LEMMA ConsumeSelectMaps ==
  ASSUME Typed, rowLocks, NEW p \in Proc, ConsumeSelect(p)
  PROVE  Contract!Next
<1>1. phase[p] = "called" /\ req[p].op = "Consume" /\ UNCHANGED <<tokens, sessions>>
  BY DEF ConsumeSelect, In
<1> QED
  BY <1>1, MissingMaps, Observes DEF ConsumeSelect

\* The row is locked, so the one that goes is the one that was found expired.
LEMMA ConsumeExpiredMaps ==
  ASSUME Inv, Typed, rowLocks, NEW p \in Proc, ConsumeExpired(p)
  PROVE  Contract!Next
<1> DEFINE k == req[p].key
<1>1. /\ phase[p] = "selected" /\ req[p].op = "Consume" /\ sessions' = sessions
      /\ Passed(Selected(p).expiresAt, now)
      /\ tokens' = Drop(tokens, {k}) /\ Return(p, Done)
  BY DEF ConsumeExpired, In
<1>2. Selected(p) = tokens[k]
  BY <1>1 DEF Inv, Held, In
<1>3. rowLocks' = rowLocks
  BY <1>1 DEF Return
<1>4. /\ now \in begun[p] .. now /\ now \in Nat
      /\ seen[p] \in ({seen[p]} \ {NoEntry}) \cup {View(req[p], tokens, sessions)}
  BY <1>1, Readings, SelectedTyped
<1>5. Contract!EvictSome(now)
  <2>1. \A x \in {k} : x \in Stored(tokens) => EntryExpired(tokens[x], now)
    BY <1>1, <1>2 DEF EntryExpired
  <2> QED
    BY <1>1, <1>3, <1>4, <2>1, RowsEvicted
<1>6. Done \in Contract!ReadAnswers(req[p], seen[p], now)
  BY <1>1, KeptAnswers
<1> QED
  BY <1>1, <1>4, <1>5, <1>6, Reports

LEMMA ConsumeInactiveMaps ==
  ASSUME Typed, rowLocks, NEW p \in Proc, ConsumeInactive(p)
  PROVE  Contract!Next
<1> DEFINE k == req[p].key
<1>1. /\ phase[p] = "selected" /\ req[p].op = "Consume" /\ UNCHANGED <<tokens, sessions>>
      /\ ~Passed(Selected(p).expiresAt, now)
      /\ ~Consumable(Selected(p).state, req[p].kinds, now)
      /\ Return(p, Reported({k}, seen[p].entries))
  BY DEF ConsumeInactive, In
<1>2. rowLocks' = rowLocks
  BY <1>1 DEF Return
<1>3. /\ now \in begun[p] .. now /\ now \in Nat
      /\ seen[p] \in ({seen[p]} \ {NoEntry}) \cup {View(req[p], tokens, sessions)}
  BY <1>1, Readings, SelectedTyped
<1>4. Contract!EvictSome(now)
  BY <1>1, <1>2, <1>3, NothingEvicted
<1>5. Reported({k}, seen[p].entries) \in Contract!ReadAnswers(req[p], seen[p], now)
  BY <1>1, KeptAnswers
<1> QED
  BY <1>1, <1>3, <1>4, <1>5, Reports

\* The UPDATE hits the row that was selected, and consumes it in one step.
LEMMA ConsumeUpdateMaps ==
  ASSUME Inv, Typed, rowLocks, NEW p \in Proc, ConsumeUpdate(p)
  PROVE  Contract!Next
<1> DEFINE k == req[p].key
<1>1. phase[p] = "selected" /\ req[p].op = "Consume" /\ sessions' = sessions
  BY DEF ConsumeUpdate, In
<1>2. /\ tokens[k] # NoEntry /\ Selected(p) = tokens[k] /\ k \in Token
      /\ tokens[k] \in Entry /\ Timely(tokens[k])
  BY <1>1, SelectedTyped DEF Inv, Held, In
<1>3. PICK t \in at[p] .. now :
        /\ ~Passed(Selected(p).expiresAt, t)
        /\ Consumable(Selected(p).state, req[p].kinds, t)
        /\ IF StillConsumable(p, t)
             THEN /\ tokens' = Rewrite(tokens, k, MarkConsumed(Selected(p).state))
                  /\ Return(p, Reported({k}, seen[p].entries))
             ELSE TRUE
  BY DEF ConsumeUpdate
<1>4. t \in begun[p] .. now /\ t \in Nat
  BY <1>1, Readings
<1>5. StillConsumable(p, t)
  BY <1>2, <1>3 DEF StillConsumable, Consumable, IsActive
<1>6. tokens' = Consume(tokens, k, req[p].kinds, t)
  BY <1>2, <1>3, <1>5 DEF Consume
<1>7. k \in Live(tokens, t)
  BY <1>2, <1>3, <1>4, LiveRow DEF Live, Stored
<1>8. Reported({k}, seen[p].entries) = Reported({k}, tokens)
  <2>1. \A j \in {k} : seen[p].entries[j] = tokens[j]
    BY <1>2 DEF Selected
  <2> QED
    BY <2>1, ReportedAlike
<1>9. rowLocks' = rowLocks
  BY <1>3, <1>5 DEF Return
<1>10. Contract!Answer(p, Contract!Reported({k}, tokens))
  <2>1. PICK r : r = Reported({k}, tokens)
    OBVIOUS
  <2>2. Return(p, r)
    BY <1>3, <1>5, <1>8, <2>1 DEF Return
  <2>3. Contract!Answer(p, r)
    BY <2>2, Answers
  <2>4. r = Contract!Reported({k}, tokens)
    BY <2>1, SameCalls
  <2> HIDE DEF k
  <2> QED
    BY <2>3, <2>4 DEF Contract!Answer
<1>11. Shown(tokens, [j \in Token |-> NoEntry]) = tokens
       /\ Shown(tokens, [j \in Token |-> NoEntry])' = tokens'
       /\ Shown(sessions, [s \in Subject |-> NoEntry])' = Shown(sessions, [s \in Subject |-> NoEntry])
  BY <1>1, <1>9 DEF Shown
<1>12. Contract!ConsumeState(p, req[p], t)
  BY <1>1, <1>6, <1>7, <1>10, <1>11, SameMaps DEF Contract!ConsumeState
<1> QED
  BY <1>1, <1>4, <1>12, Performs

\* With row locks the second SELECT is never reached.
LEMMA ConsumeMaps ==
  ASSUME Inv, Typed, rowLocks, NEW p \in Proc, ConsumeStep(p)
  PROVE  Contract!Next
<1>1. ~ConsumeReload(p)
  BY DEF Inv, Held, ConsumeReload, In
<1> QED
  BY <1>1, ConsumeSelectMaps, ConsumeExpiredMaps, ConsumeInactiveMaps, ConsumeUpdateMaps
     DEF ConsumeStep

-----------------------------------------------------------------------------
\* The operations on sessions.
LEMMA SaveSessionMaps ==
  ASSUME Typed, rowLocks, NEW p \in Proc, SaveSession(p)
  PROVE  Contract!Next
<1>1. Contract!Answer(p, Contract!Done)
  BY Answers, SameCalls DEF SaveSession, WriteSession
<1>2. /\ phase[p] # "idle" /\ rowLocks' = rowLocks /\ UNCHANGED tokens
      /\ req[p].op = "SaveSession"
      /\ sessions' = [sessions EXCEPT ![req[p].subject] =
           [data |-> req[p].data, expiresAt |-> DeadlineAfter(begun[p], req[p].ttl)]]
  BY DEF SaveSession, WriteSession, Return, In
<1>3. Contract!SaveSession(p, req[p], begun[p])
  BY <1>1, <1>2, SameStates DEF Contract!SaveSession, Contract!SetSession, Shown
<1> QED
  BY <1>2, <1>3, Readings, Performs

LEMMA EnsureSessionMaps ==
  ASSUME Typed, rowLocks, NEW p \in Proc, EnsureSession(p)
  PROVE  Contract!Next
<1> DEFINE s == req[p].subject
           live == sessions[s] # NoEntry /\ ~Passed(sessions[s].expiresAt, begun[p])
<1>1. /\ phase[p] # "idle" /\ req[p].op = "EnsureSession"
      /\ WriteSession(p, IF live THEN sessions[s].data ELSE NewData)
  BY DEF EnsureSession, In
<1>2. /\ Contract!Answer(p, Contract!Done) /\ rowLocks' = rowLocks /\ UNCHANGED tokens
      /\ sessions' = [sessions EXCEPT ![s] =
           [data |-> IF live THEN sessions[s].data ELSE NewData,
            expiresAt |-> DeadlineAfter(begun[p], req[p].ttl)]]
  BY <1>1, Answers, SameCalls DEF WriteSession, Return
<1>3. Contract!SessionLive(s, begun[p]) <=> live
  BY SameStates DEF Contract!SessionLive, Shown
<1>4. Contract!EnsureSession(p, req[p], begun[p])
  BY <1>1, <1>2, <1>3, SameStates DEF Contract!EnsureSession, Contract!SetSession, Shown
<1> QED
  BY <1>1, <1>4, Readings, Performs

LEMMA DeleteSessionMaps ==
  ASSUME Typed, rowLocks, NEW p \in Proc, DeleteSession(p)
  PROVE  Contract!Next
<1>1. Contract!Answer(p, Contract!Done)
  BY Answers, SameCalls DEF DeleteSession
<1>2. /\ phase[p] # "idle" /\ rowLocks' = rowLocks /\ UNCHANGED tokens
      /\ req[p].op = "DeleteSession"
      /\ sessions' = [sessions EXCEPT ![req[p].subject] = NoEntry]
  BY DEF DeleteSession, Return, In
<1>3. Contract!DeleteSession(p, req[p])
  BY <1>1, <1>2 DEF Contract!DeleteSession, Contract!SetSession, Shown
<1> QED
  BY <1>2, <1>3, Readings, Performs

\* A session is reported as it was read: missing, expired or its data.
LEMMA SessionReportable ==
  ASSUME NEW c, c.op = "GetSession", NEW view, NEW t, NEW r,
         r = IF view.session = NoEntry \/ Passed(view.session.expiresAt, t) THEN Done
             ELSE [Done EXCEPT !.data = view.session.data]
  PROVE  r \in Contract!ReadAnswers(c, view, t)
<1>1. Contract!ReadAnswers(c, view, t)
        = IF view.session = NoEntry THEN {Contract!Done}
          ELSE IF Contract!Passed(view.session.expiresAt, t) THEN {Contract!Done}
          ELSE {[Contract!Done EXCEPT !.data = view.session.data]}
  BY DEF Contract!ReadAnswers
<1> QED
  BY <1>1, SameCalls, SameStates

LEMMA GetSessionSelectMaps ==
  ASSUME Typed, rowLocks, NEW p \in Proc, GetSessionSelect(p)
  PROVE  Contract!Next
<1> DEFINE s == req[p].subject
           view == View(req[p], tokens, sessions)
<1>1. phase[p] = "called" /\ req[p].op = "GetSession" /\ UNCHANGED <<tokens, sessions>>
  BY DEF GetSessionSelect, In
<1>2. CASE sessions[s] # NoEntry
  BY <1>1, <1>2, Observes DEF GetSessionSelect
<1>3. CASE sessions[s] = NoEntry
  <2>1. Return(p, Done)
    BY <1>3 DEF GetSessionSelect
  <2>2. view.session = NoEntry
    <3>1. req[p] \in Call
      BY <1>1 DEF Typed, TypeOK, CallTypeOK
    <3> QED
      BY <1>1, <1>3, <3>1, ViewTyped DEF Typed, TypeOK, StoreTypeOK
  <2>3. Done \in Contract!ReadAnswers(req[p], view, now)
    <3> HIDE DEF view
    <3> QED
      BY <1>1, <2>2, SessionReportable
  <2>4. rowLocks' = rowLocks
    BY <2>1 DEF Return
  <2>5. Contract!EvictSome(now)
    BY <1>1, <2>4, Readings, NothingEvicted
  <2> QED
    BY <1>1, <2>1, <2>3, <2>5, Readings, Reports
<1> QED
  BY <1>2, <1>3

\* What a judgement deletes has expired, whatever was read before.
LEMMA GetSessionJudgeMaps ==
  ASSUME Typed, rowLocks, NEW p \in Proc, GetSessionJudge(p)
  PROVE  Contract!Next
<1> DEFINE s == req[p].subject
           row == seen[p].session
<1>1. phase[p] = "selected" /\ req[p].op = "GetSession" /\ UNCHANGED tokens
  BY DEF GetSessionJudge, In
<1>2. /\ seen[p] # NoEntry /\ row # NoEntry /\ s \in Subject
      /\ now \in begun[p] .. now /\ now \in Nat
  <2>1. req[p] \in Call
    BY <1>1 DEF Typed, TypeOK, CallTypeOK
  <2> QED
    BY <1>1, <2>1, FieldsTyped, Readings DEF Typed, Kept
<1>3. PICK r : r = IF row = NoEntry \/ Passed(row.expiresAt, now) THEN Done
                   ELSE [Done EXCEPT !.data = row.data]
  OBVIOUS
<1>4. Return(p, r)
  BY <1>2, <1>3 DEF GetSessionJudge, Return
<1>5. r \in Contract!ReadAnswers(req[p], seen[p], now)
  BY <1>1, <1>3, SessionReportable
<1>6. rowLocks' = rowLocks
  BY <1>4 DEF Return
<1>7. Contract!EvictSome(now)
  <2>1. CASE ~Passed(row.expiresAt, now)
    <3>1. UNCHANGED sessions
      BY <2>1 DEF GetSessionJudge
    <3> QED
      BY <1>1, <1>2, <1>6, <3>1, NothingEvicted
  <2>2. CASE Passed(row.expiresAt, now)
    <3> DEFINE old == sessions[s] = NoEntry \/ Passed(sessions[s].expiresAt, now)
               S == IF old THEN {s} ELSE {}
    <3>1. sessions' = [sessions EXCEPT ![s] = IF old THEN NoEntry ELSE sessions[s]]
      BY <2>2 DEF GetSessionJudge
    <3>2. sessions' = [x \in Subject |-> IF x \in S THEN NoEntry ELSE sessions[x]]
      BY <1>2, <3>1 DEF Typed, TypeOK, StoreTypeOK
    <3>3. \A x \in S \cap Subject : sessions[x] = NoEntry \/ Passed(sessions[x].expiresAt, now)
      OBVIOUS
    <3>4. tokens' = Drop(tokens, {}) /\ \A k \in {} \cap Stored(tokens) : EntryExpired(tokens[k], now)
      BY <1>1 DEF Drop, Typed, TypeOK, StoreTypeOK
    <3> HIDE DEF S
    <3> QED
      BY <1>2, <1>6, <3>2, <3>3, <3>4, Evicts
  <2> QED
    BY <2>1, <2>2
<1> QED
  BY <1>1, <1>2, <1>4, <1>5, <1>7, Reports

-----------------------------------------------------------------------------
\* Without row locks the contract is shown a store that nobody uses.
LEMMA UnlockedMaps ==
  ASSUME Typed, ~rowLocks, [Next]_vars
  PROVE  Contract!Next \/ UNCHANGED Contract!vars
<1>1. rowLocks' = rowLocks /\ (Tick \/ now' = now)
  <2>1. ASSUME NEW p \in Proc, TokenStep(p) \/ SessionStep(p)
        PROVE  UNCHANGED <<now, rowLocks>>
    BY <2>1 DEF TokenStep, SaveTokenState, CompareSelect, CompareUpdate, GetSelect, GetJudge,
           ConsumeStep, ConsumeSelect, ConsumeExpired, ConsumeInactive, ConsumeUpdate,
           ConsumeReload, DeleteTokenState, FindEvict, FindSelect, DeleteTokenStates,
           SessionStep, SaveSession, EnsureSession, WriteSession, GetSessionSelect,
           GetSessionJudge, DeleteSession, Return, GoOn
  <2> QED
    BY <2>1 DEF Next, vars, Tick, Begin, Refuse, Return
<1>2. CASE now' = now
  BY <1>1, <1>2 DEF Contract!vars, Shown
<1>3. CASE Tick
  <2>1. Shown(tokens, [k \in Token |-> NoEntry])'
          = Contract!Drop(Shown(tokens, [k \in Token |-> NoEntry]), {})
    BY <1>1 DEF Shown, Contract!Drop
  <2>2. Shown(sessions, [s \in Subject |-> NoEntry])'
          = [s \in Subject |-> IF s \in {} THEN NoEntry
                               ELSE Shown(sessions, [x \in Subject |-> NoEntry])[s]]
    BY <1>1 DEF Shown
  <2>3. Contract!EvictSome(now')
    BY <2>1, <2>2 DEF Contract!EvictSome
  <2>4. Contract!Tick
    BY <1>1, <1>3, <2>3 DEF Tick, Contract!Tick, Shown
  <2> QED
    BY <2>4 DEF Contract!Next
<1> QED
  BY <1>1, <1>2, <1>3

\* Each statement is a step of the contract, or one that no caller can see.
LEMMA StepMaps ==
  ASSUME Inv, Typed, [Next]_vars
  PROVE  Contract!Next \/ UNCHANGED Contract!vars
<1>1. CASE UNCHANGED vars
  BY <1>1 DEF vars, Contract!vars, Shown
<1>2. CASE rowLocks /\ Tick
  BY <1>2, TickMaps
<1>3. ASSUME rowLocks, NEW p \in Proc, Begin(p) \/ Refuse(p)
      PROVE  Contract!Next
  BY <1>3, BeginMaps, RefuseMaps
<1>4. ASSUME rowLocks, NEW p \in Proc, TokenStep(p)
      PROVE  Contract!Next
  BY <1>4, SaveMaps, CompareSelectMaps, CompareUpdateMaps, GetSelectMaps, GetJudgeMaps,
     ConsumeMaps, DeleteMaps, FindEvictMaps, FindSelectMaps, DeleteAllMaps DEF TokenStep
<1>5. ASSUME rowLocks, NEW p \in Proc, SessionStep(p)
      PROVE  Contract!Next
  BY <1>5, SaveSessionMaps, EnsureSessionMaps, GetSessionSelectMaps, GetSessionJudgeMaps,
     DeleteSessionMaps DEF SessionStep
<1>6. CASE ~rowLocks
  BY <1>6, UnlockedMaps
<1> QED
  BY <1>1, <1>2, <1>3, <1>4, <1>5, <1>6 DEF Next

\* On a dialect with row locks every behaviour of the database store, one SQL statement
\* at a time, is one of the contract's: to its callers each call is atomic.
THEOREM StoreImplements == Spec => ImplementsContract
<1>1. Init => Contract!Init
  <2> SUFFICES ASSUME Init
               PROVE  Contract!Init
    OBVIOUS
  <2>1. [p \in Proc |-> IF phase[p] = "idle" THEN "idle" ELSE "called"] = [p \in Proc |-> "idle"]
    BY DEF Init
  <2> QED
    BY <2>1, SameCalls DEF Init, Contract!Init, Shown
<1>2. Inv /\ Typed /\ [Next]_vars => [Contract!Next]_(Contract!vars)
  BY StepMaps
<1> QED
  BY <1>1, <1>2, InitInv, NextInv, InitTyped, NextTyped, PTL
     DEF Spec, ImplementsContract, Contract!Spec
=============================================================================
