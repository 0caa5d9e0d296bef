--------------------------- MODULE ManagerProofs ---------------------------
(***************************************************************************)
(* What holds of Manager for any number of requests, tokens and operations   *)
(* over a store with the calls of AtomicStore, as long as no caller brings   *)
(* an old token as a new one, except those that Refresh looks out for        *)
(* (~ReuseArgs): a one-time token is redeemed at most once, the claim on a   *)
(* refresh token is exclusive, a revocation is final, what was removed stays *)
(* removed, rotation is a chain, a flow that fails leaves nothing behind,    *)
(* without rotation a logout beats the refresh it overlaps, and every        *)
(* variable has its type.                                                    *)
(***************************************************************************)
EXTENDS Manager, FiniteSetTheorems, TLAPS

OneTime == {"refresh", "nonce"}

\* The operations that store a new access token, and the token.
Issuing == LoginOps \cup {"Refresh"}
NewAccess(c) == IF loc[c].op \in Issuing THEN {loc[c].acc} ELSE {}

\* The one-time token a request is about to store.
Offered(c) ==
  CASE loc[c].op = "LoginWithRefresh" -> {loc[c].ref}
    [] loc[c].op = "GenerateNonce" -> {loc[c].nonce}
    [] loc[c].op = "Refresh" /\ RotateRefreshToken -> {loc[c].next}
    [] OTHER -> {}

\* A request that has taken a one-time token out of use for itself.
Before == {"idle", "load", "claim"}

Holds(c, t) ==
  \/ loc[c].op = "Refresh" /\ loc[c].ref = t /\ pc[c] \notin Before
  \/ /\ pc[c] = "judgeNonce" /\ loc[c].nonce = t
     /\ loc[c].snap.kind = "nonce" /\ IsActive(loc[c].snap, now)

OneTimeStored(t) ==
  tokens[StoreKey(t)] # NoEntry /\ tokens[StoreKey(t)].state.kind \in OneTime

\* Its next token is the access token that the presented one names: refused.
Doomed(c) ==
  LET entry == tokens[StoreKey(loc[c].ref)] IN
  \/ entry = NoEntry
  \/ entry.state.kind # "refresh"
  \/ entry.state.access = StoreKey(loc[c].next)

-----------------------------------------------------------------------------
(* The invariant.                                                          *)

StateFields == {"kind", "subject", "device", "status", "expiresAt", "access", "rotatedFrom"}

StateShaped(s) ==
  /\ StateFields \subseteq DOMAIN s
  /\ s.expiresAt \in Deadline

EntryShaped(e) == {"state", "expiresAt"} \subseteq DOMAIN e /\ StateShaped(e.state)

\* The store holds token states of offered tokens; only one-time tokens go out of use
\* while they are stored, and none that is stored has expired.
StoreShaped ==
  /\ now \in Nat
  /\ DOMAIN tokens = Token
  /\ \A k \in Token : tokens[k] # NoEntry =>
       /\ EntryShaped(tokens[k])
       /\ tokens[k].state.access \in {StoreKey(t) : t \in used} \cup {NoKey}
       /\ k \in {StoreKey(t) : t \in used}
       /\ tokens[k].state.kind \in OneTime => ~IsExpired(tokens[k].state, now)
       /\ tokens[k].state.status # "active" => tokens[k].state.kind \in OneTime

\* Which operation a request may be at when it makes a store call, and what it knows.
Located(c) ==
  /\ DOMAIN loc[c] = DOMAIN Blank /\ loc[c].at \in Nat
  /\ pc[c] \notin {"peekNonce", "peekClaim"}
  /\ pc[c] = "idle" <=> loc[c].op = "none"
  /\ pc[c] \in {"load", "claim", "revokeOld", "saveNext", "restore"} => loc[c].op = "Refresh"
  /\ pc[c] \in {"replace", "replaceRefresh", "findOthers", "deleteOthers", "saveAccess"}
       => loc[c].op \in Issuing
  /\ pc[c] \in {"nonce", "judgeNonce"} =>
       loc[c].op # "Refresh" /\ loc[c].op # "GenerateNonce" /\ loc[c].nonce \in issued
  /\ pc[c] = "judgeNonce" => StateShaped(loc[c].snap)
  /\ pc[c] = "saveNonce" => loc[c].op = "GenerateNonce"
  /\ pc[c] = "saveRefresh" => loc[c].op = "LoginWithRefresh"
  /\ pc[c] = "restore" => ~RotateRefreshToken
  /\ pc[c] \in {"get", "update"} => loc[c].ttl \in Nat /\ loc[c].op \in LookupOps
  /\ pc[c] = "update" => loc[c].snap.status = "active"
  /\ pc[c] = "revoke" => loc[c].snap.kind = "refresh"
  /\ loc[c].op = "Refresh" => loc[c].ref \in issued
  /\ NewAccess(c) \subseteq used

\* The callers are the careful ones, or careless only in a way that Refresh notices.
Typed ==
  /\ setup \in Setups /\ ~ReuseArgs
  /\ DOMAIN pc = Client /\ DOMAIN loc = Client /\ DOMAIN redeemed = TokenValue
  /\ issued \subseteq used /\ used \subseteq TokenValue
  /\ StoreShaped
  /\ \A t \in TokenValue : OneTimeStored(t) => t \in issued
  /\ \A c \in Client : Located(c)

\* What is offered as new is offered by nobody else and not yet issued, or the offer
\* will be refused.
Pending(c) ==
  \A t \in Offered(c) :
    IF t \in issued THEN pc[c] \in {"load", "claim"} /\ Doomed(c)
    ELSE t \in used /\ \A d \in Client \ {c} : t \notin Offered(d)

\* A one-time token, before it is stored, while it is and once it is redeemed, is no
\* access token.
IsOneTime(t) ==
  \/ OneTimeStored(t) \/ redeemed[t] = 1
  \/ \E c \in Client : Holds(c, t) \/ (t \in Offered(c) /\ t \notin issued)

Disjoint ==
  \A t \in TokenValue : IsOneTime(t) =>
    /\ \A d \in Client : t \notin NewAccess(d)
    /\ \A k \in Token : tokens[k] # NoEntry => tokens[k].state.access # StoreKey(t)

\* Unless callers pass a token of the chain as new, an access token that is about to
\* be stored has not been handed out and is stored by nobody else.
AccessIsNew ==
  ~AliasArgs =>
    \A c \in Client : \A t \in NewAccess(c) :
      t \notin issued /\ \A d \in Client \ {c} : t \notin NewAccess(d)

\* What a request holds is out of use and nobody else's.
Held(c, t) ==
  Holds(c, t) =>
    /\ t \in issued
    /\ ~Usable(StoreKey(t))
    /\ redeemed[t] = 0
    /\ \A d \in Client : Holds(d, t) => d = c

\* A redeemed token is out of use for good.
Spent(t) ==
  /\ redeemed[t] \in {0, 1}
  /\ redeemed[t] = 1 => t \in issued /\ ~Usable(StoreKey(t))

Core ==
  /\ Typed
  /\ \A c \in Client : Pending(c)
  /\ Disjoint /\ AccessIsNew
  /\ \A c \in Client, t \in TokenValue : Held(c, t)
  /\ \A t \in TokenValue : Spent(t)

Inv == Atomic /\ Core

-----------------------------------------------------------------------------
LEMMA KeysDiffer ==
  /\ \A t, u : StoreKey(t) = StoreKey(u) => t = u
  /\ \A t \in TokenValue : StoreKey(t) \in Token /\ StoreKey(t) # NoKey
BY ManagerAssumption DEF StoreKey, Token, NoKey

LEMMA SetupTyped ==
  ASSUME setup \in Setups
  PROVE  /\ Timeout \in Nat /\ ActiveTimeout \in Nat /\ RefreshTimeout \in Nat
         /\ NonceTimeout \in Nat \ {0} /\ RenewTTL \subseteq Nat
         /\ MaxTokens \in Nat /\ MaxTokens <= Cardinality(TokenValue)
  <1>1. setup \in Setup /\ setup.maxTokens <= Cardinality(TokenValue)
    BY ManagerAssumption
  <1> QED
    BY <1>1 DEF Setup, Timeout, ActiveTimeout, RefreshTimeout, NonceTimeout, RenewTTL, MaxTokens

\* A lifetime that begins now has not ended.
LEMMA NotYet ==
  ASSUME NEW t \in Nat, NEW ttl \in Nat
  PROVE  DeadlineAfter(t, ttl) \in Deadline /\ ~Passed(DeadlineAfter(t, ttl), t)
BY DEF DeadlineAfter, Passed, Deadline, Never

-----------------------------------------------------------------------------
(* What a step does to a key of the store.                                  *)

\* Whose token it is and where it comes from.
SameBearer(k) ==
  /\ tokens'[k].state.subject = tokens[k].state.subject
  /\ tokens'[k].state.rotatedFrom = tokens[k].state.rotatedFrom

\* The state stays, with a later deadline; a one-time token may go out of use, and
\* from there only be revoked.
Kept(k) ==
  /\ tokens[k] # NoEntry
  /\ EntryShaped(tokens'[k])
  /\ tokens'[k].state.kind = tokens[k].state.kind
  /\ SameBearer(k)
  /\ tokens'[k].state.device = tokens[k].state.device
  /\ tokens'[k].state.access = tokens[k].state.access
  /\ \/ tokens'[k].state.status = tokens[k].state.status
     \/ /\ tokens[k].state.kind \in OneTime
        /\ \/ tokens'[k].state.status = "revoked"
           \/ tokens'[k].state.status = "consumed" /\ tokens[k].state.status = "active"
  /\ IsExpired(tokens'[k].state, now) => IsExpired(tokens[k].state, now)

PutAccess(c, k) ==
  /\ loc[c].op \in Issuing /\ k = StoreKey(loc[c].acc)
  /\ pc[c] = "saveAccess" /\ pc'[c] = "session" /\ UNCHANGED redeemed
  /\ EntryShaped(tokens'[k])
  /\ tokens'[k].state.subject = loc[c].subject /\ tokens'[k].state.rotatedFrom = NoKey
  /\ tokens'[k].state.kind = "access" /\ tokens'[k].state.access = NoKey
  /\ tokens'[k].state.status = "active"

\* A rotation: the token presented is redeemed for the next one.
Succeeds(c, k) ==
  /\ tokens'[k].state.rotatedFrom = StoreKey(loc[c].ref)
  /\ Holds(c, loc[c].ref) /\ Redeem(loc[c].ref)

PutOneTime(c, k) ==
  /\ pc[c] \notin Before /\ pc'[c] = "idle"
  /\ \E t \in Offered(c) : k = StoreKey(t) /\ t \in issued'
  /\ EntryShaped(tokens'[k])
  /\ tokens'[k].state.kind \in OneTime /\ ~IsExpired(tokens'[k].state, now)
  /\ \/ /\ tokens'[k].state.kind = "nonce"
        /\ tokens'[k].state.access = NoKey /\ tokens'[k].state.rotatedFrom = NoKey
     \/ /\ tokens'[k].state.kind = "refresh"
        /\ loc[c].op \in Issuing /\ pc[c] \in {"saveRefresh", "saveNext"}
        /\ tokens'[k].state.access = StoreKey(loc[c].acc) /\ loc[c].acc \in issued'
        /\ tokens'[k].state.subject = loc[c].subject
        /\ tokens'[k].state.rotatedFrom # NoKey => Succeeds(c, k)

PutBack(c, k) ==
  /\ ~RotateRefreshToken
  /\ loc[c].op = "Refresh" /\ k = StoreKey(loc[c].ref)
  /\ pc[c] \in {"saveNext", "restore"} /\ pc'[c] = "idle"
  /\ redeemed' = redeemed
  /\ tokens[k] # NoEntry /\ tokens[k].state.status = "consumed"
  /\ EntryShaped(tokens'[k])
  /\ tokens'[k].state.kind = tokens[k].state.kind
  /\ SameBearer(k) /\ tokens'[k].state.subject = loc[c].snap.subject
  /\ \/ tokens'[k].state.access = tokens[k].state.access
     \/ /\ tokens'[k].state.access = StoreKey(loc[c].acc)
        /\ pc[c] = "saveNext" /\ loc[c].acc \in issued'
  /\ IsExpired(tokens'[k].state, now) => IsExpired(tokens[k].state, now)

Effect(c) ==
  /\ DOMAIN tokens' = Token
  /\ \A k \in Token :
       \/ tokens'[k] = tokens[k] \/ tokens'[k] = NoEntry
       \/ Kept(k) \/ PutAccess(c, k) \/ PutOneTime(c, k) \/ PutBack(c, k)

(* What it does to its request.                                             *)

SameTokens(c) ==
  /\ DOMAIN loc'[c] = DOMAIN Blank /\ loc'[c].at \in Nat
  /\ loc'[c].op = loc[c].op /\ loc'[c].acc = loc[c].acc /\ loc'[c].ref = loc[c].ref
  /\ loc'[c].next = loc[c].next /\ loc'[c].nonce = loc[c].nonce

Leaves(c) ==
  /\ pc'[c] = "idle" /\ loc'[c] = Blank
  /\ issued \subseteq issued' /\ issued' \subseteq issued \cup NewAccess(c) \cup Offered(c)

\* A refresh that is to be refused does not get past the claim.
Stays(c) ==
  /\ pc'[c] # "idle"
  /\ SameTokens(c)
  /\ UNCHANGED issued
  /\ pc[c] \in Before /\ loc[c].op = "Refresh" /\ RotateRefreshToken /\ Doomed(c)
       => pc'[c] \in Before

Frame(c) ==
  /\ UNCHANGED <<setup, now, used>>
  /\ DOMAIN pc' = Client /\ DOMAIN loc' = Client
  /\ \A d \in Client \ {c} : pc'[d] = pc[d] /\ loc'[d] = loc[d]

\* The token it comes to hold was in use, and is not any more.
Acquires(c) ==
  \A t \in TokenValue : Holds(c, t)' =>
    \/ Holds(c, t)
    \/ /\ OneTimeStored(t) /\ Usable(StoreKey(t)) /\ ~Usable(StoreKey(t))'
       /\ ~(loc[c].op = "Refresh" /\ RotateRefreshToken /\ Doomed(c))

\* The token it redeems it held, and holds no more.
Redeems(c) ==
  \/ UNCHANGED redeemed
  \/ \E t \in TokenValue : /\ Holds(c, t) /\ ~Holds(c, t)'
                           /\ redeemed' = [redeemed EXCEPT ![t] = IF @ < 2 THEN @ + 1 ELSE @]

-----------------------------------------------------------------------------
(* Steps of a request, by what they do to the store...                      *)

Advances(c) ==
  /\ Effect(c) /\ Frame(c) /\ Located(c)'
  /\ Leaves(c) \/ Stays(c)
  /\ Acquires(c) /\ Redeems(c)

LEMMA IdleEffect ==
  ASSUME Typed, NEW c \in Client, UNCHANGED tokens
  PROVE  Effect(c)
BY DEF Typed, StoreShaped, Effect

LEMMA DropEffect ==
  ASSUME NEW c \in Client, NEW K, tokens' = Drop(tokens, K)
  PROVE  Effect(c)
BY DEF Effect, Drop

LEMMA PutEffect ==
  ASSUME Typed, NEW c \in Client, NEW k, NEW state, NEW deadline,
         tokens' = Put(tokens, k, state, deadline),
         k \in Token => Kept(k) \/ PutAccess(c, k) \/ PutOneTime(c, k) \/ PutBack(c, k)
  PROVE  Effect(c)
BY DEF Typed, StoreShaped, Effect, Put

LEMMA PutReads ==
  ASSUME Typed, NEW k \in Token, NEW state, NEW deadline,
         tokens' = Put(tokens, k, state, deadline)
  PROVE  tokens'[k] = [state |-> state, expiresAt |-> deadline]
BY DEF Typed, StoreShaped, Put

LEMMA ConsumeEffect ==
  ASSUME Typed, NEW c \in Client, NEW k \in Token, NEW kinds,
         kinds # {}, kinds \subseteq OneTime,
         tokens[k] # NoEntry, tokens' = Consume(tokens, k, kinds, now)
  PROVE  Effect(c)
  <1>1. EntryShaped(tokens[k]) /\ DOMAIN tokens = Token
    BY DEF Typed, StoreShaped
  <1>2. CASE UNCHANGED tokens
    BY <1>2, IdleEffect
  <1>3. CASE /\ tokens' = Rewrite(tokens, k, MarkConsumed(tokens[k].state))
             /\ Consumable(tokens[k].state, kinds, now)
    <2>1. \A j \in Token \ {k} : tokens'[j] = tokens[j]
      BY <1>1, <1>3 DEF Rewrite
    <2>2. DOMAIN tokens' = Token
      BY <1>1, <1>3 DEF Rewrite
    <2>3. tokens'[k] = [tokens[k] EXCEPT !.state = MarkConsumed(tokens[k].state)]
      BY <1>1, <1>3 DEF Rewrite
    <2>4. /\ DOMAIN tokens'[k] = DOMAIN tokens[k]
          /\ tokens'[k].state = MarkConsumed(tokens[k].state)
      BY <1>1, <2>3 DEF EntryShaped
    <2>5. Kept(k)
      BY <1>1, <1>3, <2>4 DEF EntryShaped, StateShaped, StateFields, MarkConsumed, Kept, SameBearer, IsExpired,
                              Consumable, IsActive, MatchKind
    <2> QED
      BY <2>1, <2>2, <2>5 DEF Effect
  <1> QED
    BY <1>2, <1>3 DEF Consume

\* What was active and of the wanted kind is not, once consumed.
LEMMA ConsumeTakes ==
  ASSUME Typed, NEW k \in Token, NEW kinds, tokens[k] # NoEntry,
         Consumable(tokens[k].state, kinds, now),
         tokens' = Consume(tokens, k, kinds, now)
  PROVE  ~Usable(k)'
  <1>1. EntryShaped(tokens[k]) /\ DOMAIN tokens = Token
    BY DEF Typed, StoreShaped
  <1>2. tokens'[k] = [tokens[k] EXCEPT !.state = MarkConsumed(tokens[k].state)]
    BY <1>1 DEF Consume, Rewrite
  <1>3. tokens'[k].state.status = "consumed"
    BY <1>1, <1>2 DEF EntryShaped, StateShaped, StateFields, MarkConsumed
  <1> QED
    BY <1>3 DEF Usable

(* ...and by what they do to the request.                                   *)

LEMMA Departs ==
  ASSUME Typed, NEW c \in Client, Leave(c), NEW new,
         new \subseteq NewAccess(c) \cup Offered(c), issued' = issued \cup new,
         UNCHANGED <<setup, used>>
  PROVE  /\ Frame(c) /\ Leaves(c) /\ Located(c)'
         /\ \A t \in TokenValue : ~Holds(c, t)'
  <1>1. Frame(c) /\ Leaves(c)
    BY DEF Typed, Leave, Frame, Leaves
  <1>2. Located(c)' /\ \A t \in TokenValue : ~Holds(c, t)'
    <2>1. pc'[c] = "idle" /\ loc'[c] = Blank /\ Blank.op = "none" /\ Blank.at \in Nat
      BY <1>1 DEF Leaves, Blank
    <2>2. NewAccess(c)' = {}
      BY <2>1 DEF NewAccess, Issuing, LoginOps
    <2>3. Located(c)'
      BY <2>1, <2>2 DEF Located
    <2> QED
      BY <2>1, <2>3 DEF Holds, Before
  <1> QED
    BY <1>1, <1>2

LEMMA FailAdvances ==
  ASSUME Typed, NEW c \in Client, Effect(c), Fail(c), UNCHANGED setup
  PROVE  Advances(c)
  <1>1. Leave(c) /\ UNCHANGED <<issued, used, redeemed>>
    BY DEF Fail, ghost, budget
  <1>2. /\ Frame(c) /\ Leaves(c) /\ Located(c)'
        /\ \A t \in TokenValue : ~Holds(c, t)'
    <2>1. {} \subseteq NewAccess(c) \cup Offered(c) /\ issued' = issued \cup {}
      BY <1>1
    <2> QED
      BY <1>1, <2>1, Departs
  <1> QED
    BY <1>1, <1>2 DEF Advances, Acquires, Redeems

LEMMA SucceedAdvances ==
  ASSUME Typed, NEW c \in Client, Effect(c), UNCHANGED setup, NEW new, NEW gone,
         Succeed(c, new, gone), new \subseteq NewAccess(c) \cup Offered(c)
  PROVE  Advances(c)
  <1>1. Leave(c) /\ issued' = issued \cup new /\ UNCHANGED <<used, redeemed>>
    BY DEF Succeed, budget
  <1>2. /\ Frame(c) /\ Leaves(c) /\ Located(c)'
        /\ \A t \in TokenValue : ~Holds(c, t)'
    BY <1>1, Departs
  <1> QED
    BY <1>1, <1>2 DEF Advances, Acquires, Redeems

LEMMA GoFrame ==
  ASSUME Typed, NEW c \in Client, UNCHANGED setup, NEW label, NEW locals,
         Go(c, label, locals)
  PROVE  /\ Frame(c) /\ pc'[c] = label /\ loc'[c] = locals
         /\ UNCHANGED <<issued, redeemed>>
BY DEF Typed, Go, Frame, ghost, budget

LEMMA GoAdvances ==
  ASSUME Typed, NEW c \in Client, Effect(c), UNCHANGED setup, NEW label, NEW locals,
         Go(c, label, locals), pc[c] \notin Before, label \notin Before,
         label # "judgeNonce", loc'[c] = locals => SameTokens(c), Located(c)'
  PROVE  Advances(c)
  <1>1. Frame(c) /\ pc'[c] = label /\ loc'[c] = locals /\ UNCHANGED <<issued, redeemed>>
    BY GoFrame
  <1>2. Stays(c)
    BY <1>1 DEF Stays, Before
  <1>3. Acquires(c)
    BY <1>1 DEF Acquires, Holds, SameTokens
  <1> QED
    BY <1>1, <1>2, <1>3 DEF Advances, Redeems

-----------------------------------------------------------------------------
(* Every store call of a login, a refresh or a lookup is such a step.        *)

LEMMA Fields ==
  ASSUME Typed, NEW c \in Client
  PROVE  DOMAIN loc[c] = {"op", "acc", "ref", "next", "nonce", "subject", "device", "ttl",
                          "dropSession", "at", "snap", "cur", "todo", "targets", "covered"}
BY DEF Typed, Located, Blank

LEMMA SaveNonceAdvances ==
  ASSUME Typed, NEW c \in Client, UNCHANGED setup, SaveNonce(c)
  PROVE  Advances(c)
  <1> DEFINE t == loc[c].nonce
             k == StoreKey(t)
  <1>1. loc[c].op = "GenerateNonce" /\ pc[c] = "saveNonce" /\ t \in Offered(c)
    BY DEF Typed, Located, SaveNonce, Calls, Offered
  <1>2. Effect(c)
    <2>1. /\ tokens' = Put(tokens, k, NonceState, EffectiveExpiresAt(NonceState, now, NonceTimeout))
          /\ pc'[c] = "idle" /\ t \in issued'
      BY DEF SaveNonce, Succeed, Leave, Typed
    <2>2. k \in Token => PutOneTime(c, k)
      <3> SUFFICES ASSUME k \in Token PROVE PutOneTime(c, k)
        OBVIOUS
      <3>1. tokens'[k].state = NonceState /\ "state" \in DOMAIN tokens'[k]
                /\ "expiresAt" \in DOMAIN tokens'[k]
        <4>1. tokens'[k] = [state |-> NonceState,
                            expiresAt |-> EffectiveExpiresAt(NonceState, now, NonceTimeout)]
          BY <2>1, PutReads
        <4> QED
          BY <4>1
      <3>2. NonceTimeout \in Nat /\ now \in Nat
        BY SetupTyped DEF Typed, StoreShaped
      <3>3. /\ NonceState.expiresAt = DeadlineAfter(now, NonceTimeout)
            /\ NonceState.access = NoKey /\ NonceState.kind \in OneTime
            /\ NonceState.rotatedFrom = NoKey /\ NonceState.kind = "nonce"
            /\ StateFields \subseteq DOMAIN NonceState
        BY DEF NonceState, NewState, OneTime, StateFields
      <3>4. NonceState.expiresAt \in Deadline /\ ~IsExpired(NonceState, now)
        BY <3>2, <3>3, NotYet DEF IsExpired
      <3>5. EntryShaped(tokens'[k])
        BY <3>1, <3>3, <3>4 DEF EntryShaped, StateShaped, StateFields
      <3> QED
        BY <1>1, <2>1, <3>1, <3>3, <3>4, <3>5 DEF PutOneTime, Before
    <2> QED
      BY <2>1, <2>2, PutEffect
  <1> QED
    BY <1>1, <1>2, SucceedAdvances DEF SaveNonce

LEMMA ConsumeNonceStateAdvances ==
  ASSUME Typed, NEW c \in Client, UNCHANGED setup, Atomic, ConsumeNonceState(c)
  PROVE  Advances(c)
  <1> DEFINE t == loc[c].nonce
             k == StoreKey(t)
  <1>1. /\ loc[c].op # "Refresh" /\ pc[c] = "nonce" /\ t \in issued
        /\ loc[c].op # "GenerateNonce"
    BY DEF Typed, Located, ConsumeNonceState, Calls
  <1>2. k \in Token
    BY <1>1, KeysDiffer DEF Typed
  <1>3. CASE tokens[k] = NoEntry
    <2>1. Fail(c) /\ UNCHANGED tokens
      BY <1>3 DEF ConsumeNonceState
    <2> QED
      BY <2>1, IdleEffect, FailAdvances
  <1>4. CASE tokens[k] # NoEntry
    <2>1. /\ tokens' = Consume(tokens, k, {"nonce"}, now)
          /\ Go(c, "judgeNonce", [loc[c] EXCEPT !.snap = tokens[k].state])
      BY <1>4 DEF ConsumeNonceState, ConsumedKinds
    <2>2. Effect(c)
      BY <1>2, <1>4, <2>1, ConsumeEffect DEF OneTime
    <2>3. /\ Frame(c) /\ pc'[c] = "judgeNonce"
          /\ loc'[c] = [loc[c] EXCEPT !.snap = tokens[k].state]
          /\ UNCHANGED <<issued, redeemed>>
      BY <2>1, GoFrame
    <2>4. SameTokens(c) /\ loc'[c].snap = tokens[k].state
      BY <2>3, Fields DEF SameTokens, Typed, Located
    <2>5. StateShaped(tokens[k].state)
      BY <1>2, <1>4 DEF Typed, StoreShaped, EntryShaped
    <2>6. Located(c)'
      BY <1>1, <2>3, <2>4, <2>5
         DEF Typed, Located, SameTokens, NewAccess, Frame, Issuing, LoginOps, StateShaped, StateFields
    <2>7. Acquires(c)
      <3> SUFFICES ASSUME NEW u \in TokenValue, Holds(c, u)'
                   PROVE  OneTimeStored(u) /\ Usable(StoreKey(u)) /\ ~Usable(StoreKey(u))'
        BY <1>1 DEF Acquires
      <3>1. /\ u = t /\ tokens[k].state.kind = "nonce"
            /\ IsActive(tokens[k].state, now)
        BY <1>1, <2>3, <2>4 DEF Holds, SameTokens, Frame
      <3>2. Consumable(tokens[k].state, {"nonce"}, now)
        BY <3>1 DEF Consumable, MatchKind
      <3>3. ~Usable(StoreKey(u))'
        BY <1>2, <1>4, <2>1, <3>1, <3>2, ConsumeTakes
      <3>4. OneTimeStored(u) /\ Usable(StoreKey(u))
        BY <1>4, <3>1 DEF OneTimeStored, OneTime, Usable, IsActive
      <3> QED
        BY <3>3, <3>4
    <2>8. Stays(c)
      BY <1>1, <2>3, <2>4 DEF Stays
    <2> QED
      BY <2>2, <2>3, <2>6, <2>7, <2>8 DEF Advances, Redeems
  <1> QED
    BY <1>3, <1>4

LEMMA JudgeNonceAdvances ==
  ASSUME Typed, NEW c \in Client, UNCHANGED setup, JudgeNonce(c)
  PROVE  Advances(c)
  <1> DEFINE t == loc[c].nonce
  <1>1. /\ loc[c].op # "Refresh" /\ pc[c] = "judgeNonce" /\ t \in issued
        /\ UNCHANGED tokens
    BY DEF Typed, Located, JudgeNonce, store
  <1>2. Effect(c)
    BY <1>1, IdleEffect
  <1>3. CASE Fail(c)
    BY <1>2, <1>3, FailAdvances
  <1>4. CASE /\ loc[c].snap.kind = "nonce" /\ IsActive(loc[c].snap, now)
             /\ Redeem(t)
             /\ UNCHANGED <<now, issued, budget>>
             /\ \/ Leave(c)
                \/ /\ loc[c].op \in LoginOps
                   /\ pc' = [pc EXCEPT ![c] = LoginEntry]
                   /\ loc' = [loc EXCEPT ![c].snap = NoEntry]
    <2>1. Holds(c, t) /\ t \in TokenValue /\ UNCHANGED used
      BY <1>1, <1>4 DEF Holds, Typed, budget
    <2>2. Redeems(c) /\ Frame(c) /\ Located(c)' /\ (Leaves(c) \/ Stays(c)) /\ Acquires(c)
      <3>1. CASE Leave(c)
        <4>1. {} \subseteq NewAccess(c) \cup Offered(c) /\ issued' = issued \cup {}
          BY <1>4
        <4>2. /\ Frame(c) /\ Leaves(c) /\ Located(c)'
              /\ \A u \in TokenValue : ~Holds(c, u)'
          BY <2>1, <3>1, <4>1, Departs
        <4> QED
          BY <1>4, <2>1, <4>2 DEF Redeems, Redeem, Acquires
      <3>2. CASE /\ loc[c].op \in LoginOps
                 /\ pc' = [pc EXCEPT ![c] = LoginEntry]
                 /\ loc' = [loc EXCEPT ![c].snap = NoEntry]
        <4>1. Frame(c) /\ pc'[c] = LoginEntry /\ loc'[c] = [loc[c] EXCEPT !.snap = NoEntry]
          BY <1>4, <2>1, <3>2 DEF Frame, Typed
        <4>2. SameTokens(c) /\ LoginEntry \in {"saveAccess", "replace"}
          BY <4>1, Fields DEF SameTokens, Typed, Located, LoginEntry
        <4>3. Located(c)'
          BY <1>1, <1>4, <2>1, <3>2, <4>1, <4>2
             DEF Typed, Located, SameTokens, NewAccess, Frame, Issuing, LoginOps
        <4>4. Acquires(c)
          BY <1>1, <4>1, <4>2 DEF Holds, SameTokens, Acquires
        <4>5. Stays(c)
          BY <1>1, <1>4, <4>1, <4>2 DEF Stays
        <4>6. Redeems(c)
          <5>1. Holds(c, t) /\ t \in TokenValue /\ Redeem(t)
            BY <1>4, <2>1
          <5>2. \A u : u = t => ~Holds(c, u)'
            BY <1>1, <4>1, <4>2 DEF Holds, SameTokens
          <5> QED
            BY <5>1, <5>2 DEF Redeems, Redeem
        <4> QED
          BY <4>1, <4>3, <4>4, <4>5, <4>6
      <3> QED
        BY <1>4, <3>1, <3>2
    <2> QED
      BY <1>2, <2>2 DEF Advances
  <1> QED
    BY <1>3, <1>4 DEF JudgeNonce, Leave

\* What the next call asks of the operation that makes it.
Fits(c, label) ==
  /\ label \in {"revokeOld", "saveNext", "restore"} => loc[c].op = "Refresh"
  /\ label \in {"replace", "replaceRefresh", "findOthers", "deleteOthers", "saveAccess"}
       => loc[c].op \in Issuing
  /\ label = "saveRefresh" => loc[c].op = "LoginWithRefresh"
  /\ label = "restore" => ~RotateRefreshToken
  /\ label \notin {"idle", "load", "claim", "nonce", "judgeNonce", "saveNonce", "get",
                   "update", "peekNonce", "peekClaim", "revoke"}

\* The fields that a step between two calls of a flow does not touch.
SameFields(c, locals) ==
  /\ DOMAIN locals = DOMAIN loc[c] /\ locals.at \in Nat
  /\ locals.op = loc[c].op /\ locals.acc = loc[c].acc /\ locals.ref = loc[c].ref
  /\ locals.next = loc[c].next /\ locals.nonce = loc[c].nonce

LEMMA GoOnAdvances ==
  ASSUME Typed, NEW c \in Client, Effect(c), UNCHANGED setup, NEW label, NEW locals,
         Go(c, label, locals), pc[c] \notin Before, Fits(c, label), SameFields(c, locals)
  PROVE  Advances(c)
  <1>1. Frame(c) /\ pc'[c] = label /\ loc'[c] = locals /\ UNCHANGED <<issued, redeemed>>
    BY GoFrame
  <1>2. SameTokens(c)
    BY <1>1 DEF SameFields, SameTokens, Typed, Located
  <1>3. loc[c].op # "none"
    BY DEF Typed, Located, Before
  <1>4. Located(c)'
    BY <1>1, <1>2, <1>3
       DEF Typed, Located, SameTokens, Fits, NewAccess, Frame, Issuing, LoginOps,
                                RotateRefreshToken
  <1>5. label \notin Before /\ label # "judgeNonce"
    BY DEF Fits, Before
  <1> QED
    BY <1>2, <1>4, <1>5, GoAdvances

LEMMA ReplaceAdvances ==
  ASSUME Typed, NEW c \in Client, UNCHANGED setup,
         Replace(c) \/ ReplaceRefresh(c) \/ FindOthers(c) \/ DeleteOthers(c)
  PROVE  Advances(c)
  <1>1. loc[c].op \in Issuing /\ pc[c] \notin Before
    BY DEF Typed, Located, Replace, ReplaceRefresh, FindOthers, DeleteOthers, Calls, Before
  <1>2. CASE Replace(c)
    <2> DEFINE label == IF ~RevokeRefreshOnLogout THEN "saveAccess"
                        ELSE IF KeepsRefresh(c) THEN "findOthers" ELSE "replaceRefresh"
               locals == [loc[c] EXCEPT !.at = now]
    <2>1. Effect(c) /\ Go(c, label, locals)
      BY <1>2, DropEffect DEF Replace
    <2>2. Fits(c, label) /\ SameFields(c, locals)
      BY <1>1, Fields DEF Fits, SameFields, Typed, Located, StoreShaped
    <2> HIDE DEF label, locals
    <2> QED
      BY <1>1, <2>1, <2>2, GoOnAdvances
  <1>3. CASE ReplaceRefresh(c)
    <2>1. Effect(c) /\ Go(c, "saveAccess", loc[c])
      BY <1>3, DropEffect DEF ReplaceRefresh
    <2> QED
      BY <1>1, <2>1, GoOnAdvances DEF Fits, SameFields, Typed, Located, StoreShaped
  <1>4. CASE FindOthers(c)
    <2>1. UNCHANGED tokens
      BY <1>4 DEF FindOthers, store
    <2>2. PICK others :
            Go(c, IF others = {} THEN "saveAccess" ELSE "deleteOthers",
               [loc[c] EXCEPT !.todo = others])
      BY <1>4 DEF FindOthers
    <2> DEFINE label == IF others = {} THEN "saveAccess" ELSE "deleteOthers"
               locals == [loc[c] EXCEPT !.todo = others]
    <2>3. Fits(c, label) /\ SameFields(c, locals) /\ Go(c, label, locals)
      BY <1>1, <2>2, Fields DEF Fits, SameFields, Typed, Located, StoreShaped
    <2> HIDE DEF label, locals
    <2> QED
      BY <1>1, <2>1, <2>3, IdleEffect, GoOnAdvances
  <1>5. CASE DeleteOthers(c)
    <2>1. PICK k :
            /\ tokens' = Drop(tokens, {k})
            /\ Go(c, IF loc[c].todo = {k} THEN "saveAccess" ELSE "deleteOthers",
                  [loc[c] EXCEPT !.todo = @ \ {k}])
      BY <1>5 DEF DeleteOthers
    <2> DEFINE label == IF loc[c].todo = {k} THEN "saveAccess" ELSE "deleteOthers"
               locals == [loc[c] EXCEPT !.todo = @ \ {k}]
    <2>2. Effect(c) /\ Go(c, label, locals)
      BY <2>1, DropEffect
    <2>3. Fits(c, label) /\ SameFields(c, locals)
      BY <1>1, Fields DEF Fits, SameFields, Typed, Located, StoreShaped
    <2> HIDE DEF label, locals
    <2> QED
      BY <1>1, <2>2, <2>3, GoOnAdvances
  <1> QED
    BY <1>2, <1>3, <1>4, <1>5

LEMMA SaveAccessAdvances ==
  ASSUME Typed, NEW c \in Client, UNCHANGED setup, SaveAccess(c)
  PROVE  Advances(c)
  <1> DEFINE at == IF Concurrent THEN now ELSE loc[c].at
             state == AccessState(loc[c].subject, LoginDevice(c), at)
             k == StoreKey(loc[c].acc)
             locals == [loc[c] EXCEPT !.ttl = Timeout]
  <1>1. loc[c].op \in Issuing /\ pc[c] \notin Before
    BY DEF Typed, Located, SaveAccess, Calls, Before
  <1>2. /\ tokens' = Put(tokens, k, state, EffectiveExpiresAt(state, now, Timeout))
        /\ Go(c, "session", locals)
    BY DEF SaveAccess
  <1>0. pc[c] = "saveAccess" /\ pc'[c] = "session" /\ UNCHANGED redeemed
    BY <1>2, GoFrame DEF SaveAccess, Calls
  <1>3. ASSUME k \in Token PROVE PutAccess(c, k)
    <2>1. tokens'[k] = [state |-> state, expiresAt |-> EffectiveExpiresAt(state, now, Timeout)]
      BY <1>2, <1>3, PutReads
    <2>2. /\ state.kind = "access" /\ state.access = NoKey /\ state.status = "active"
          /\ state.expiresAt = DeadlineAfter(at, Timeout)
          /\ state.subject = loc[c].subject /\ state.rotatedFrom = NoKey
          /\ StateFields \subseteq DOMAIN state
      BY DEF AccessState, NewState, StateFields
    <2>3. DeadlineAfter(at, Timeout) \in Deadline
      BY SetupTyped DEF Typed, StoreShaped, DeadlineAfter, Deadline, Never, Located
    <2> QED
      BY <1>0, <1>1, <2>1, <2>2, <2>3 DEF PutAccess, EntryShaped, StateShaped, StateFields
  <1>4. Effect(c)
    BY <1>2, <1>3, PutEffect
  <1>5. Fits(c, "session") /\ SameFields(c, locals)
    BY Fields DEF Fits, SameFields, Typed, Located, StoreShaped
  <1> QED
    BY <1>1, <1>2, <1>4, <1>5, GoOnAdvances

LEMMA SyncSessionAdvances ==
  ASSUME Typed, NEW c \in Client, UNCHANGED setup, SyncSession(c)
  PROVE  Advances(c)
  <1>1. Effect(c) /\ pc[c] \notin Before
    BY IdleEffect DEF SyncSession, Calls, Before
  <1>2. CASE Fail(c)
    BY <1>1, <1>2, FailAdvances
  <1>3. CASE loc[c].op = "LoginWithRefresh" /\ Go(c, "saveRefresh", loc[c])
    BY <1>1, <1>3, GoOnAdvances DEF Fits, SameFields, Typed, Located, StoreShaped
  <1>4. CASE loc[c].op = "Refresh" /\ Go(c, "saveNext", loc[c])
    BY <1>1, <1>4, GoOnAdvances DEF Fits, SameFields, Typed, Located, StoreShaped
  <1>5. CASE loc[c].op = "Login" /\ Succeed(c, {loc[c].acc}, loc[c].covered)
    <2>1. {loc[c].acc} \subseteq NewAccess(c) \cup Offered(c)
      BY <1>5 DEF NewAccess, Issuing, LoginOps
    <2> QED
      BY <1>1, <1>5, <2>1, SucceedAdvances
  <1>6. CASE Succeed(c, {}, {})
    BY <1>1, <1>6, SucceedAdvances
  <1> QED
    BY <1>2, <1>3, <1>4, <1>5, <1>6 DEF SyncSession

\* The state of a refresh token that is about to be stored.
LEMMA NewRefreshFits ==
  ASSUME Typed, NEW c \in Client, loc[c].op \in Issuing, pc[c] \notin Before,
         pc'[c] = "idle", NEW t \in Offered(c), t \in issued',
         NEW subject, NEW device, NEW from, NEW deadline,
         pc[c] \in {"saveRefresh", "saveNext"}, loc[c].acc \in issued',
         subject = loc[c].subject,
         \/ from = NoKey
         \/ from = StoreKey(loc[c].ref) /\ Holds(c, loc[c].ref) /\ Redeem(loc[c].ref),
         tokens' = Put(tokens, StoreKey(t),
                       NewRefreshState(subject, device, StoreKey(loc[c].acc), from), deadline)
  PROVE  Effect(c)
  <1> DEFINE k == StoreKey(t)
             state == NewRefreshState(subject, device, StoreKey(loc[c].acc), from)
  <1>1. ASSUME k \in Token PROVE PutOneTime(c, k)
    <2>1. tokens'[k] = [state |-> state, expiresAt |-> deadline]
      BY <1>1, PutReads
    <2>2. /\ state.access = StoreKey(loc[c].acc) /\ state.kind \in OneTime
          /\ state.expiresAt = DeadlineAfter(now, RefreshTimeout)
          /\ state.subject = subject /\ state.rotatedFrom = from /\ state.kind = "refresh"
          /\ StateFields \subseteq DOMAIN state
      BY DEF NewRefreshState, NewState, OneTime, StateFields
    <2>3. state.expiresAt \in Deadline /\ ~IsExpired(state, now)
      BY <2>2, SetupTyped, NotYet DEF Typed, StoreShaped, IsExpired
    <2> QED
      BY <2>1, <2>2, <2>3 DEF PutOneTime, Succeeds, EntryShaped, StateShaped, StateFields
  <1> HIDE DEF state
  <1> QED
    BY <1>1, PutEffect DEF state

LEMMA SaveRefreshAdvances ==
  ASSUME Typed, NEW c \in Client, UNCHANGED setup, SaveRefresh(c)
  PROVE  Advances(c)
  <1>1. loc[c].op = "LoginWithRefresh" /\ pc[c] = "saveRefresh"
    BY DEF Typed, Located, SaveRefresh, Calls
  <1>2. loc[c].op \in Issuing /\ loc[c].ref \in Offered(c) /\ pc[c] \notin Before
    BY <1>1 DEF Issuing, LoginOps, Offered, Before
  <1>3. Succeed(c, {loc[c].acc, loc[c].ref}, loc[c].covered)
    BY DEF SaveRefresh
  <1>4. pc'[c] = "idle" /\ loc[c].ref \in issued' /\ loc[c].acc \in issued'
    BY <1>3 DEF Succeed, Leave, Typed
  <1>5. Effect(c)
    BY <1>1, <1>2, <1>4, NewRefreshFits DEF SaveRefresh
  <1>6. {loc[c].acc, loc[c].ref} \subseteq NewAccess(c) \cup Offered(c)
    BY <1>2 DEF NewAccess
  <1> QED
    BY <1>3, <1>5, <1>6, SucceedAdvances

LEMMA LoadRefreshAdvances ==
  ASSUME Typed, NEW c \in Client, UNCHANGED setup, Atomic, LoadRefresh(c)
  PROVE  Advances(c)
  <1>1. Effect(c) /\ pc[c] = "load" /\ loc[c].op = "Refresh"
    BY IdleEffect DEF LoadRefresh, store, Calls, Typed, Located
  <1>2. CASE Fail(c)
    BY <1>1, <1>2, FailAdvances
  <1>3. ASSUME NEW snap, NEW cur,
               Go(c, "claim", [loc[c] EXCEPT !.snap = snap, !.cur = cur])
        PROVE  Advances(c)
    <2> DEFINE locals == [loc[c] EXCEPT !.snap = snap, !.cur = cur]
    <2>1. /\ Frame(c) /\ pc'[c] = "claim" /\ loc'[c] = locals
          /\ UNCHANGED <<issued, redeemed>>
      BY <1>3, GoFrame
    <2>2. SameTokens(c)
      BY <2>1, Fields DEF SameTokens, Typed, Located
    <2>3. Located(c)'
      BY <1>1, <2>1, <2>2 DEF Typed, Located, SameTokens, NewAccess, Frame, Issuing, LoginOps
    <2>4. Stays(c) /\ Acquires(c)
      BY <1>1, <2>1, <2>2 DEF Stays, Before, Acquires, Holds
    <2> QED
      BY <1>1, <2>1, <2>3, <2>4 DEF Advances, Redeems
  <1> QED
    BY <1>2, <1>3 DEF LoadRefresh, ClaimEntry

LEMMA ClaimRefreshAdvances ==
  ASSUME Typed, NEW c \in Client, UNCHANGED setup, Atomic, ClaimRefresh(c)
  PROVE  Advances(c)
  <1> DEFINE k == StoreKey(loc[c].ref)
             entry == tokens[k]
             claimed == [loc[c] EXCEPT !.snap = entry.state, !.subject = entry.state.subject]
  <1>1. pc[c] = "claim" /\ loc[c].op = "Refresh" /\ loc[c].ref \in TokenValue
    BY DEF ClaimRefresh, Calls, Typed, Located
  <1>2. k \in Token
    BY <1>1, KeysDiffer
  <1>3. CASE entry = NoEntry
    BY <1>3, IdleEffect, FailAdvances DEF ClaimRefresh
  <1>4. CASE entry # NoEntry
    <2>1. tokens' = Consume(tokens, k, {"refresh"}, now)
      BY <1>4 DEF ClaimRefresh, ConsumedKinds
    <2>2. Effect(c)
      BY <1>2, <1>4, <2>1, ConsumeEffect DEF OneTime
    <2>3. CASE Fail(c)
      BY <2>2, <2>3, FailAdvances
    <2>4. ASSUME NEW label, Go(c, label, claimed), UsableRefresh(entry.state),
                 RotateRefreshToken => ValidNext(c, entry.state),
                 label \in {"revokeOld", "saveAccess", "replace", "restore"},
                 label = "restore" => ~RotateRefreshToken
          PROVE  Advances(c)
      <3>1. /\ Frame(c) /\ pc'[c] = label /\ loc'[c] = claimed
            /\ UNCHANGED <<issued, redeemed>>
        BY <2>4, GoFrame
      <3>2. SameTokens(c)
        BY <3>1, Fields DEF SameTokens, Typed, Located
      <3>3. Located(c)'
        BY <1>1, <2>4, <3>1, <3>2
           DEF Typed, Located, SameTokens, NewAccess, Frame, Issuing, LoginOps,
                                      RotateRefreshToken
      <3>4. ~(RotateRefreshToken /\ Doomed(c))
        BY <1>4, <2>4 DEF ValidNext, UsableRefresh, Doomed
      <3>5. Stays(c)
        BY <2>4, <3>1, <3>2, <3>4 DEF Stays
      <3>6. Acquires(c)
        <4> SUFFICES ASSUME NEW t \in TokenValue, Holds(c, t)'
                     PROVE  OneTimeStored(t) /\ Usable(StoreKey(t)) /\ ~Usable(StoreKey(t))'
          BY <3>4 DEF Acquires
        <4>1. t = loc[c].ref
          BY <2>4, <3>1, <3>2 DEF Holds, SameTokens
        <4>2. OneTimeStored(t) /\ Usable(StoreKey(t))
          BY <1>4, <2>4, <4>1 DEF OneTimeStored, OneTime, Usable, UsableRefresh
        <4>3. Consumable(tokens[k].state, {"refresh"}, now)
          BY <1>2, <1>4, <2>4
             DEF Typed, StoreShaped, Consumable, MatchKind, UsableRefresh, IsActive,
                 OneTime
        <4>4. ~Usable(StoreKey(t))'
          BY <1>2, <1>4, <2>1, <4>1, <4>3, ConsumeTakes
        <4> QED
          BY <4>2, <4>4
      <3> QED
        BY <2>2, <3>1, <3>3, <3>5, <3>6 DEF Advances, Redeems
    <2>5. AfterClaim \in {"revokeOld", "saveAccess", "replace"}
      BY DEF AfterClaim, LoginEntry
    <2>6. \/ Fail(c)
          \/ UsableRefresh(entry.state) /\ ValidNext(c, entry.state) /\ Go(c, AfterClaim, claimed)
          \/ UsableRefresh(entry.state) /\ ~RotateRefreshToken /\ Go(c, "restore", claimed)
      BY <1>4 DEF ClaimRefresh
    <2> QED
      BY <2>3, <2>4, <2>5, <2>6
  <1> QED
    BY <1>3, <1>4

LEMMA SaveRotatedAdvances ==
  ASSUME Typed, NEW c \in Client, UNCHANGED setup, SaveRotated(c)
  PROVE  Advances(c)
  <1>1. pc[c] = "saveNext" /\ loc[c].op = "Refresh" /\ loc[c].ref \in TokenValue
    BY DEF SaveRotated, Calls, Typed, Located
  <1>2. /\ loc[c].op \in Issuing /\ pc[c] \notin Before
        /\ loc[c].next \in Offered(c) /\ Holds(c, loc[c].ref)
    BY <1>1 DEF Issuing, LoginOps, Before, Offered, Holds, SaveRotated
  <1>3. /\ Leave(c) /\ issued' = issued \cup {loc[c].acc, loc[c].next}
        /\ Redeem(loc[c].ref) /\ UNCHANGED used
    BY DEF SaveRotated, budget
  <1>4. pc'[c] = "idle" /\ loc[c].next \in issued' /\ loc[c].acc \in issued'
    BY <1>3 DEF Leave, Typed
  <1>5. Effect(c)
    BY <1>1, <1>2, <1>3, <1>4, NewRefreshFits DEF SaveRotated
  <1>6. {loc[c].acc, loc[c].next} \subseteq NewAccess(c) \cup Offered(c)
    BY <1>2 DEF NewAccess
  <1>7. /\ Frame(c) /\ Leaves(c) /\ Located(c)'
        /\ \A t \in TokenValue : ~Holds(c, t)'
    BY <1>3, <1>6, Departs
  <1> QED
    BY <1>1, <1>2, <1>3, <1>5, <1>7 DEF Advances, Acquires, Redeems, Redeem

\* A claimed token is only swapped for a state built from the one that was claimed.
LEMMA SwapFits ==
  ASSUME Typed, NEW c \in Client, Atomic, ~RotateRefreshToken, loc[c].op = "Refresh",
         pc[c] \in {"saveNext", "restore"}, UNCHANGED redeemed, NEW state, SwapRefresh(c, state),
         DOMAIN state = DOMAIN loc[c].snap,
         "kind" \in DOMAIN state => state.kind = loc[c].snap.kind,
         "expiresAt" \in DOMAIN state => state.expiresAt = loc[c].snap.expiresAt,
         "subject" \in DOMAIN state => state.subject = loc[c].snap.subject,
         "rotatedFrom" \in DOMAIN state => state.rotatedFrom = loc[c].snap.rotatedFrom,
         "access" \in DOMAIN state =>
           \/ state.access = loc[c].snap.access
           \/ state.access = StoreKey(loc[c].acc) /\ pc[c] = "saveNext"
              /\ (MayUpdate(StoreKey(loc[c].ref), ClaimedState(c)) => loc[c].acc \in issued'),
         MayUpdate(StoreKey(loc[c].ref), ClaimedState(c)) => pc'[c] = "idle"
  PROVE  Effect(c)
  <1> DEFINE k == StoreKey(loc[c].ref)
             snap == loc[c].snap
             deadline == EffectiveExpiresAt(state, now, RemainingTTL(state, now))
  <1>1. CASE ~MayUpdate(k, ClaimedState(c))
    BY <1>1, IdleEffect DEF SwapRefresh
  <1>2. CASE MayUpdate(k, ClaimedState(c))
    <2>1. k \in Token /\ tokens[k] # NoEntry /\ tokens[k].state = MarkConsumed(snap)
      BY <1>2 DEF MayUpdate, Matches, ClaimedState, Live, Stored
    <2>2. EntryShaped(tokens[k])
      BY <2>1 DEF Typed, StoreShaped
    <2>3. /\ DOMAIN snap = DOMAIN tokens[k].state
          /\ StateFields \subseteq DOMAIN snap
          /\ snap.kind = tokens[k].state.kind
          /\ snap.subject = tokens[k].state.subject
          /\ snap.rotatedFrom = tokens[k].state.rotatedFrom
          /\ snap.access = tokens[k].state.access
          /\ snap.expiresAt = tokens[k].state.expiresAt
          /\ tokens[k].state.status = "consumed"
      BY <2>1, <2>2 DEF EntryShaped, StateShaped, StateFields, MarkConsumed
    <2>4. tokens' = Put(tokens, k, state, deadline)
      BY <1>2 DEF SwapRefresh
    <2> HIDE DEF deadline
    <2>5. tokens'[k] = [state |-> state, expiresAt |-> deadline]
      BY <2>1, <2>4, PutReads
    <2>6. PutBack(c, k)
      BY <1>2, <2>1, <2>2, <2>3, <2>5
         DEF PutBack, SameBearer, EntryShaped, StateShaped, StateFields, IsExpired
    <2> QED
      BY <2>4, <2>6, PutEffect
  <1> QED
    BY <1>1, <1>2

LEMMA SaveReusedAdvances ==
  ASSUME Typed, NEW c \in Client, UNCHANGED setup, Atomic, SaveReused(c)
  PROVE  Advances(c)
  <1> DEFINE may == MayUpdate(StoreKey(loc[c].ref), ClaimedState(c))
             snap == loc[c].snap
             state == [Touch(snap) EXCEPT !.access = StoreKey(loc[c].acc),
                                          !.device = LoginDevice(c)]
  <1>1. /\ pc[c] = "saveNext" /\ loc[c].op = "Refresh" /\ ~RotateRefreshToken
        /\ loc[c].op \in Issuing /\ pc[c] \notin Before
    BY DEF SaveReused, Calls, Typed, Located, Issuing, LoginOps, Before
  <1>2. may => Succeed(c, {loc[c].acc}, Replaced(c) \ {StoreKey(loc[c].acc)})
    BY DEF SaveReused
  <1>3. ~may => Go(c, "rollback", loc[c])
    BY DEF SaveReused
  <1>4. UNCHANGED redeemed /\ (may => pc'[c] = "idle" /\ loc[c].acc \in issued')
    BY <1>2, <1>3 DEF Succeed, Leave, Go, ghost, Typed
  <1>5. SwapRefresh(c, state)
    BY DEF SaveReused
  <1>6. /\ DOMAIN state = DOMAIN snap
        /\ "kind" \in DOMAIN state => state.kind = snap.kind
        /\ "expiresAt" \in DOMAIN state => state.expiresAt = snap.expiresAt
        /\ "subject" \in DOMAIN state => state.subject = snap.subject
        /\ "rotatedFrom" \in DOMAIN state => state.rotatedFrom = snap.rotatedFrom
        /\ "access" \in DOMAIN state => state.access = StoreKey(loc[c].acc)
    BY DEF Touch
  <1> HIDE DEF state
  <1>7. Effect(c)
    BY <1>1, <1>4, <1>5, <1>6, SwapFits
  <1>8. CASE may
    <2>1. {loc[c].acc} \subseteq NewAccess(c) \cup Offered(c)
      BY <1>1 DEF NewAccess
    <2> QED
      BY <1>2, <1>7, <1>8, <2>1, SucceedAdvances
  <1>9. CASE ~may
    BY <1>1, <1>3, <1>7, <1>9, GoOnAdvances DEF Fits, SameFields, Typed, Located
  <1> QED
    BY <1>8, <1>9

LEMMA GiveUpAdvances ==
  ASSUME Typed, NEW c \in Client, UNCHANGED setup, Effect(c), GiveUp(c), pc[c] \notin Before
  PROVE  Advances(c)
  <1>1. CASE Fail(c)
    BY <1>1, FailAdvances
  <1>2. CASE OwesRelease(c) /\ Go(c, "restore", loc[c])
    BY <1>2, GoOnAdvances DEF OwesRelease, Fits, SameFields, Typed, Located
  <1> QED
    BY <1>1, <1>2 DEF GiveUp

LEMMA CallErrorAdvances ==
  ASSUME Typed, NEW c \in Client, UNCHANGED setup, CallError(c)
  PROVE  Advances(c)
  <1>1. UNCHANGED <<now, tokens, issued, redeemed, used>> /\ Effect(c) /\ pc[c] # "idle"
    BY IdleEffect DEF CallError, store, ghost
  <1>2. CASE Leave(c)
    <2>1. {} \subseteq NewAccess(c) \cup Offered(c) /\ issued' = issued \cup {}
      BY <1>1
    <2>2. /\ Frame(c) /\ Leaves(c) /\ Located(c)'
          /\ \A t \in TokenValue : ~Holds(c, t)'
      BY <1>1, <1>2, <2>1, Departs
    <2> QED
      BY <1>1, <2>2 DEF Advances, Acquires, Redeems
  <1>3. ASSUME NEW label, pc' = [pc EXCEPT ![c] = label], UNCHANGED loc,
               label \in {"rollback", "restore"}, pc[c] \notin Before,
               label = "restore" => OwesRelease(c)
        PROVE  Advances(c)
    <2>1. Frame(c) /\ pc'[c] = label /\ loc'[c] = loc[c]
      BY <1>1, <1>3 DEF Frame, Typed
    <2>2. SameTokens(c) /\ Stays(c)
      BY <1>1, <1>3, <2>1 DEF SameTokens, Stays, Typed, Located
    <2>3. Located(c)'
      BY <1>1, <1>3, <2>1 DEF Typed, Located, NewAccess, Frame, Issuing, LoginOps,
                              OwesRelease, RotateRefreshToken
    <2>4. Acquires(c)
      BY <1>3, <2>1 DEF Acquires, Holds
    <2> QED
      BY <1>1, <2>1, <2>2, <2>3, <2>4 DEF Advances, Redeems
  <1>4. pc[c] \in {"saveRefresh", "saveNext"} \/ OwesRelease(c) => pc[c] \notin Before
    BY <1>1 DEF OwesRelease, Before
  <1> QED
    BY <1>2, <1>3, <1>4 DEF CallError

LEMMA RefreshStepAdvances ==
  ASSUME Typed, NEW c \in Client, UNCHANGED setup, Atomic, RefreshStep(c)
  PROVE  Advances(c)
  <1>1. CASE PeekRefresh(c)
    BY <1>1 DEF PeekRefresh, Calls, Typed, Located
  <1>2. CASE ClaimExpired(c)
    BY <1>2, IdleEffect, FailAdvances DEF ClaimExpired, store
  <1>3. CASE RevokeOldAccess(c)
    <2>1. Effect(c) /\ Go(c, LoginEntry, loc[c]) /\ pc[c] = "revokeOld" /\ loc[c].op = "Refresh"
      BY <1>3, DropEffect DEF RevokeOldAccess, Calls, Typed, Located
    <2>2. Fits(c, LoginEntry) /\ SameFields(c, loc[c]) /\ pc[c] \notin Before
      BY <2>1 DEF LoginEntry, Fits, SameFields, Typed, Located, Before, Issuing
    <2> QED
      BY <2>1, <2>2, GoOnAdvances
  <1>4. CASE Rollback(c)
    BY <1>4, DropEffect, GiveUpAdvances DEF Rollback, Calls, Before
  <1>5. CASE RestoreRefresh(c)
    <2>1. pc[c] = "restore" /\ loc[c].op = "Refresh" /\ ~RotateRefreshToken /\ pc[c] \notin Before
      BY <1>5 DEF RestoreRefresh, Calls, Typed, Located, Before
    <2>2. Fail(c) /\ SwapRefresh(c, loc[c].snap)
      BY <1>5 DEF RestoreRefresh
    <2>3. UNCHANGED redeemed /\ pc'[c] = "idle"
      BY <2>2 DEF Fail, Leave, ghost, Typed
    <2>4. Effect(c)
      BY <2>1, <2>2, <2>3, SwapFits
    <2> QED
      BY <2>2, <2>4, FailAdvances
  <1> QED
    BY <1>1, <1>2, <1>3, <1>4, <1>5, LoadRefreshAdvances, ClaimRefreshAdvances,
       SaveRotatedAdvances, SaveReusedAdvances DEF RefreshStep

LEMMA LoginStepAdvances ==
  ASSUME Typed, NEW c \in Client, UNCHANGED setup, Atomic, LoginStep(c)
  PROVE  Advances(c)
  <1>1. CASE PeekNonce(c)
    BY <1>1 DEF PeekNonce, Calls, Typed, Located
  <1> QED
    BY <1>1, SaveNonceAdvances, ConsumeNonceStateAdvances, JudgeNonceAdvances,
       ReplaceAdvances, SaveAccessAdvances, SyncSessionAdvances, SaveRefreshAdvances
       DEF LoginStep

LEMMA GetAdvances ==
  ASSUME Typed, NEW c \in Client, UNCHANGED setup, Get(c)
  PROVE  Advances(c)
  <1> DEFINE entry == tokens[loc[c].cur]
             found == [loc[c] EXCEPT !.snap = entry.state, !.subject = entry.state.subject]
  <1>1. Effect(c) /\ pc[c] = "get" /\ loc[c].op \in LookupOps /\ loc[c].ttl \in Nat
    BY IdleEffect DEF Get, store, Calls, Typed, Located
  <1>2. pc[c] \notin Before
    BY <1>1 DEF Before
  <1>3. CASE Fail(c)
    BY <1>1, <1>3, FailAdvances
  <1>4. CASE Succeed(c, {}, {})
    BY <1>1, <1>4, SucceedAdvances
  <1>5. SameFields(c, found) /\ DOMAIN found = DOMAIN loc[c] /\ found.snap = entry.state
        /\ found.ttl = loc[c].ttl
    BY Fields DEF SameFields, Typed, Located
  <1>6. CASE Go(c, "deleteAccess", found)
    <2> HIDE DEF found
    <2> QED
      BY <1>1, <1>2, <1>5, <1>6, GoOnAdvances DEF Fits
  <1>7. CASE entry.state.status = "active" /\ Go(c, "update", found)
    <2> HIDE DEF found
    <2>1. /\ Frame(c) /\ pc'[c] = "update" /\ loc'[c] = found
          /\ UNCHANGED <<issued, redeemed>>
      BY <1>7, GoFrame
    <2>2. SameTokens(c)
      BY <1>5, <2>1 DEF SameTokens, SameFields, Typed, Located
    <2>3. Located(c)'
      BY <1>1, <1>5, <1>7, <2>1, <2>2 DEF Typed, Located, SameTokens, NewAccess, Frame, Issuing,
                                          LoginOps, LookupOps
    <2> QED
      BY <1>1, <1>2, <1>7, <2>2, <2>3, GoAdvances DEF Before
  <1> QED
    BY <1>3, <1>4, <1>6, <1>7 DEF Get

\* What a renewal or an online mark writes differs from what it read by the deadline
\* and the marks.
LEMMA UpdatedFits ==
  ASSUME Typed, NEW c \in Client, pc[c] = "update", StateShaped(loc[c].snap)
  PROVE  /\ StateShaped(Updated(c))
         /\ Updated(c).kind = loc[c].snap.kind
         /\ Updated(c).subject = loc[c].snap.subject
         /\ Updated(c).device = loc[c].snap.device
         /\ Updated(c).access = loc[c].snap.access
         /\ Updated(c).rotatedFrom = loc[c].snap.rotatedFrom
         /\ Updated(c).status = "active"
         /\ IsExpired(Updated(c), now) => IsExpired(loc[c].snap, now)
  <1> DEFINE s == loc[c].snap
  <1>0. s.status = "active"
    BY DEF Typed, Located
  <1>1. /\ loc[c].ttl \in Nat /\ ActiveTimeout \in Nat /\ now \in Nat
        /\ StateFields \subseteq DOMAIN s
        /\ s.expiresAt \in Deadline
    BY SetupTyped DEF Typed, Located, StoreShaped, StateShaped, StateFields
  <1>2. CASE loc[c].op = "Renew"
    <2>1. Updated(c) = [Touch(s) EXCEPT !.expiresAt = DeadlineAfter(now, loc[c].ttl)]
      BY <1>2 DEF Updated
    <2>2. /\ DeadlineAfter(now, loc[c].ttl) \in Deadline
          /\ ~Passed(DeadlineAfter(now, loc[c].ttl), now)
      BY <1>1, NotYet
    <2> QED
      BY <1>0, <1>1, <2>1, <2>2 DEF Touch, StateShaped, StateFields, IsExpired
  <1>3. CASE loc[c].op = "GetTokenState"
    <2> DEFINE e == IF ActiveTimeout > 0 THEN now + ActiveTimeout ELSE s.expiresAt
    <2>1. Updated(c) = [Touch(s) EXCEPT !.expiresAt = e]
      BY <1>1, <1>3 DEF Updated, Touch
    <2>2. e \in Deadline /\ (Passed(e, now) => Passed(s.expiresAt, now))
      BY <1>1 DEF Deadline, Never, Passed
    <2> QED
      BY <1>0, <1>1, <2>1, <2>2 DEF Touch, StateShaped, StateFields, IsExpired
  <1>4. CASE loc[c].op = "MarkOnline"
    <2>1. Updated(c) = MarkOnline(s)
      BY <1>4 DEF Updated
    <2> QED
      BY <1>0, <1>1, <2>1 DEF MarkOnline, Touch, StateShaped, StateFields, IsExpired
  <1>5. CASE loc[c].op \notin {"Renew", "GetTokenState", "MarkOnline"}
    <2>1. Updated(c) = MarkOffline(s)
      BY <1>5 DEF Updated
    <2> QED
      BY <1>0, <1>1, <2>1 DEF MarkOffline, Touch, StateShaped, StateFields, IsExpired
  <1> QED
    BY <1>2, <1>3, <1>4, <1>5

LEMMA UpdateAdvances ==
  ASSUME Typed, NEW c \in Client, UNCHANGED setup, Atomic, Update(c)
  PROVE  Advances(c)
  <1> DEFINE k == loc[c].cur
             snap == loc[c].snap
             ttl == IF loc[c].op = "Renew" THEN loc[c].ttl ELSE RemainingTTL(Updated(c), now)
             deadline == EffectiveExpiresAt(Updated(c), now, ttl)
             locals == [loc[c] EXCEPT !.ttl = ttl]
  <1>1. pc[c] = "update" /\ pc[c] \notin Before /\ snap.status = "active"
    BY DEF Update, Calls, Typed, Located, Before
  <1>2. CASE ~MayUpdate(k, snap)
    BY <1>2, IdleEffect, FailAdvances DEF Update
  <1>3. CASE MayUpdate(k, snap)
    <2>1. k \in Token /\ tokens[k] # NoEntry /\ tokens[k].state = snap
      BY <1>3 DEF MayUpdate, Matches, Live, Stored
    <2>2. StateShaped(snap)
      BY <2>1 DEF Typed, StoreShaped, EntryShaped
    <2>3. /\ tokens' = Put(tokens, k, Updated(c), deadline)
          /\ Go(c, "session", locals) \/ Succeed(c, {}, {})
      BY <1>3 DEF Update
    <2>4. SameFields(c, locals)
      BY Fields DEF SameFields, Typed, Located
    <2> HIDE DEF deadline, locals
    <2>5. tokens'[k] = [state |-> Updated(c), expiresAt |-> deadline]
      BY <2>1, <2>3, PutReads
    <2>6. Kept(k)
      BY <1>1, <2>1, <2>2, <2>5, UpdatedFits DEF Kept, SameBearer, EntryShaped
    <2>7. Effect(c)
      BY <2>3, <2>6, PutEffect
    <2> QED
      BY <1>1, <2>3, <2>4, <2>7, GoOnAdvances, SucceedAdvances DEF Fits
  <1> QED
    BY <1>2, <1>3

LEMMA RevokeAdvances ==
  ASSUME Typed, NEW c \in Client, UNCHANGED setup, Atomic, Revoke(c)
  PROVE  Advances(c)
  <1> DEFINE k == StoreKey(loc[c].ref)
             snap == loc[c].snap
             next == MarkRevoked(snap)
             deadline == EffectiveExpiresAt(next, now, RemainingTTL(next, now))
  <1> snap.kind = "refresh"
    BY DEF Revoke, Calls, Typed, Located
  <1>1. CASE ~MayUpdate(k, snap)
    BY <1>1, IdleEffect, FailAdvances DEF Revoke
  <1>2. CASE MayUpdate(k, snap)
    <2>1. k \in Token /\ tokens[k] # NoEntry /\ tokens[k].state = snap
      BY <1>2 DEF MayUpdate, Matches, Live, Stored
    <2>2. StateShaped(snap)
      BY <2>1 DEF Typed, StoreShaped, EntryShaped
    <2>3. tokens' = Put(tokens, k, next, deadline) /\ Succeed(c, {}, {k})
      BY <1>2 DEF Revoke
    <2>4. /\ StateShaped(next) /\ next.status = "revoked"
          /\ next.kind = snap.kind /\ next.access = snap.access
          /\ next.subject = snap.subject /\ next.device = snap.device
          /\ next.rotatedFrom = snap.rotatedFrom
          /\ next.expiresAt = snap.expiresAt
      BY <2>2 DEF MarkRevoked, StateShaped, StateFields
    <2> HIDE DEF deadline, next
    <2>5. tokens'[k] = [state |-> next, expiresAt |-> deadline]
      BY <2>1, <2>3, PutReads
    <2>6. Kept(k)
      BY <2>1, <2>4, <2>5 DEF Kept, SameBearer, EntryShaped, IsExpired, OneTime
    <2>7. Effect(c)
      BY <2>3, <2>6, PutEffect
    <2> QED
      BY <2>3, <2>7, SucceedAdvances
  <1> QED
    BY <1>1, <1>2

\* The flows that only delete: what they have in common.
Deletes(c) ==
  /\ pc[c] \notin Before
  /\ UNCHANGED tokens \/ \E K : tokens' = Drop(tokens, K)
  /\ \/ Fail(c)
     \/ \E gone : Succeed(c, {}, gone)
     \/ \E label \in {"deleteAccess", "findLinked", "deleteLinked", "logoutRefresh",
                      "dropSession"} :
          \E locals : SameFields(c, locals) /\ Go(c, label, locals)

LEMMA DeletesAdvances ==
  ASSUME Typed, NEW c \in Client, UNCHANGED setup, Deletes(c)
  PROVE  Advances(c)
  <1>1. Effect(c)
    BY IdleEffect, DropEffect DEF Deletes
  <1> QED
    BY <1>1, FailAdvances, SucceedAdvances, GoOnAdvances DEF Deletes, Fits

LEMMA LinkedDoneDeletes ==
  ASSUME Typed, NEW c \in Client, NEW todo, LinkedDone(c, todo), pc[c] \notin Before,
         UNCHANGED tokens \/ \E K : tokens' = Drop(tokens, K)
  PROVE  Deletes(c)
  <1>1. /\ SameFields(c, [loc[c] EXCEPT !.todo = todo])
        /\ SameFields(c, [loc[c] EXCEPT !.todo = {}])
    BY Fields DEF SameFields, Typed, Located
  <1> QED
    BY <1>1 DEF LinkedDone, Deletes

LEMMA GetRefreshAdvances ==
  ASSUME Typed, NEW c \in Client, UNCHANGED setup, GetRefresh(c)
  PROVE  Advances(c)
  <1> DEFINE entry == tokens[StoreKey(loc[c].ref)]
             locals == [loc[c] EXCEPT !.snap = entry.state]
  <1>1. Effect(c) /\ pc[c] = "getRefresh" /\ loc[c].op # "none"
    BY IdleEffect DEF GetRefresh, store, Calls, Typed, Located
  <1>2. CASE Fail(c)
    BY <1>1, <1>2, FailAdvances
  <1>3. CASE entry.state.kind = "refresh" /\ Go(c, "revoke", locals)
    <2>1. /\ Frame(c) /\ pc'[c] = "revoke" /\ loc'[c] = locals
          /\ UNCHANGED <<issued, redeemed>>
      BY <1>3, GoFrame
    <2>2. SameTokens(c) /\ loc'[c].snap = entry.state
      BY <2>1, Fields DEF SameTokens, Typed, Located
    <2>3. Located(c)'
      BY <1>1, <1>3, <2>1, <2>2
         DEF Typed, Located, SameTokens, NewAccess, Frame, Issuing, LoginOps
    <2> QED
      BY <1>1, <1>3, <2>2, <2>3, GoAdvances DEF Before
  <1> QED
    BY <1>2, <1>3 DEF GetRefresh

LEMMA AccessStepAdvances ==
  ASSUME Typed, NEW c \in Client, UNCHANGED setup, Atomic, AccessStep(c)
  PROVE  Advances(c)
  <1>1. CASE EvictExpired(c)
    BY <1>1, DropEffect, FailAdvances DEF EvictExpired
  <1>2. CASE DeleteAccess(c)
    <2>1. Deletes(c)
      BY <1>2 DEF DeleteAccess, Deletes, Calls, Before, SameFields, Typed, Located
    <2> QED
      BY <2>1, DeletesAdvances
  <1>3. CASE FindLinked(c)
    BY <1>3, LinkedDoneDeletes, DeletesAdvances DEF FindLinked, Calls, Before, store
  <1>4. CASE DeleteLinked(c)
    BY <1>4, LinkedDoneDeletes, DeletesAdvances DEF DeleteLinked, Calls, Before
  <1>5. CASE FindDevice(c)
    <2>1. PICK found :
            Succeed(c, {}, loc[c].covered)
            \/ Go(c, "deleteAccess", [loc[c] EXCEPT !.targets = found])
      BY <1>5 DEF FindDevice
    <2>2. SameFields(c, [loc[c] EXCEPT !.targets = found])
      BY Fields DEF SameFields, Typed, Located
    <2>3. Deletes(c)
      BY <1>5, <2>1, <2>2 DEF FindDevice, Deletes, Calls, Before, store
    <2> QED
      BY <2>3, DeletesAdvances
  <1>6. CASE DeleteOnDevice(c)
    <2>1. PICK k :
            LET rest == loc[c].targets \ {k} IN
            /\ tokens' = Drop(tokens, {k})
            /\ \/ Go(c, "findLinked", [loc[c] EXCEPT !.targets = rest, !.cur = k])
               \/ Go(c, "deleteAccess", [loc[c] EXCEPT !.targets = rest])
               \/ Succeed(c, {}, loc[c].covered)
      BY <1>6 DEF DeleteOnDevice
    <2>2. /\ SameFields(c, [loc[c] EXCEPT !.targets = loc[c].targets \ {k}, !.cur = k])
          /\ SameFields(c, [loc[c] EXCEPT !.targets = loc[c].targets \ {k}])
      BY Fields DEF SameFields, Typed, Located
    <2>3. pc[c] \notin Before
      BY <1>6 DEF DeleteOnDevice, Calls, Before
    <2>4. Deletes(c)
      BY <2>1, <2>2, <2>3 DEF Deletes
    <2> QED
      BY <2>4, DeletesAdvances
  <1>7. CASE LogoutAccess(c) \/ LogoutRefresh(c)
    <2>1. SameFields(c, loc[c]) /\ pc[c] \notin Before
      BY <1>7 DEF LogoutAccess, LogoutRefresh, Calls, Before, SameFields, Typed, Located
    <2>2. Deletes(c)
      BY <1>7, <2>1 DEF LogoutAccess, LogoutRefresh, Deletes
    <2> QED
      BY <2>2, DeletesAdvances
  <1>8. CASE DropSession(c) \/ RevokeAll(c)
    <2>1. Deletes(c)
      BY <1>8 DEF DropSession, RevokeAll, Deletes, Calls, Before
    <2> QED
      BY <2>1, DeletesAdvances
  <1>9. CASE GetRefresh(c)
    BY <1>9, GetRefreshAdvances
  <1> QED
    BY <1>1, <1>2, <1>3, <1>4, <1>5, <1>6, <1>7, <1>8, <1>9,
       GetAdvances, UpdateAdvances, RevokeAdvances DEF AccessStep

LEMMA StepAdvances ==
  ASSUME Typed, NEW c \in Client, UNCHANGED setup, Atomic, Step(c)
  PROVE  Advances(c)
BY LoginStepAdvances, RefreshStepAdvances, AccessStepAdvances, CallErrorAdvances DEF Step

LEMMA CrashAdvances ==
  ASSUME Typed, NEW c \in Client, UNCHANGED setup, Crash(c)
  PROVE  Advances(c)
  <1>1. Effect(c) /\ Leave(c) /\ UNCHANGED <<issued, redeemed, used>>
    BY IdleEffect DEF Crash, store, ghost
  <1>2. {} \subseteq NewAccess(c) \cup Offered(c) /\ issued' = issued \cup {}
    BY <1>1
  <1>3. /\ Frame(c) /\ Leaves(c) /\ Located(c)'
        /\ \A t \in TokenValue : ~Holds(c, t)'
    BY <1>1, <1>2, Departs
  <1> QED
    BY <1>1, <1>3 DEF Advances, Acquires, Redeems

-----------------------------------------------------------------------------
(* A request that begins offers tokens nobody offered before, or tokens that *)
(* are no one-time tokens.                                                  *)

LEMMA Fresh ==
  ASSUME setup \in Setups, used \subseteq TokenValue, NEW n \in {1, 2}, Unused(n)
  PROVE  /\ Fresh1 \in TokenValue /\ Fresh1 \notin used
         /\ n = 2 => Fresh2 \in TokenValue /\ Fresh2 \notin used /\ Fresh2 # Fresh1
  <1>1. /\ MaxTokens \in Nat /\ MaxTokens <= Cardinality(TokenValue)
        /\ IsFiniteSet(TokenValue)
    BY SetupTyped, ManagerAssumption
  <1>2. Cardinality(TokenValue) \in Nat /\ IsFiniteSet(used) /\ Cardinality(used) \in Nat
    BY <1>1, FS_CardinalityType, FS_Subset
  <1>3. Cardinality(used) + n <= Cardinality(TokenValue)
    BY <1>1, <1>2 DEF Unused
  <1>4. used # TokenValue
    BY <1>2, <1>3
  <1>5. Fresh1 \in TokenValue /\ Fresh1 \notin used
    BY <1>4 DEF Fresh1
  <1>6. ASSUME n = 2
        PROVE  Fresh2 \in TokenValue /\ Fresh2 \notin used /\ Fresh2 # Fresh1
    <2>1. Cardinality(used \cup {Fresh1}) = Cardinality(used) + 1
      BY <1>2, <1>5, FS_AddElement
    <2>2. used \cup {Fresh1} # TokenValue
      BY <1>2, <1>3, <1>6, <2>1
    <2>3. \E t : t \in TokenValue \ (used \cup {Fresh1})
      BY <1>5, <2>2
    <2> QED
      BY <2>3 DEF Fresh2
  <1> QED
    BY <1>5, <1>6

Linked(t) == \E k \in Token : tokens[k] # NoEntry /\ tokens[k].state.access = StoreKey(t)

Opens(c) ==
  /\ pc[c] = "idle"
  /\ UNCHANGED <<setup, now, tokens, issued, redeemed>>
  /\ used \subseteq used' /\ used' \subseteq TokenValue
  /\ DOMAIN pc' = Client /\ DOMAIN loc' = Client
  /\ \A d \in Client \ {c} : pc'[d] = pc[d] /\ loc'[d] = loc[d]
  /\ Located(c)'
  /\ \A t \in TokenValue : ~Holds(c, t)'
  /\ \A t \in NewAccess(c)' : t \notin used \/ (AliasArgs /\ Linked(t))
  /\ \A t \in Offered(c)' :
       /\ t \notin NewAccess(c)' /\ t \in used'
       /\ t \notin used \/ (t \in issued /\ pc'[c] = "load" /\ Doomed(c)')

LEMMA BeginFrame ==
  ASSUME Typed, NEW c \in Client, UNCHANGED setup, NEW label, NEW new, NEW locals,
         Begin(c, label, new, locals), new \subseteq TokenValue
  PROVE  /\ pc[c] = "idle"
         /\ UNCHANGED <<setup, now, tokens, issued, redeemed>>
         /\ used' = used \cup new /\ used \subseteq used' /\ used' \subseteq TokenValue
         /\ DOMAIN pc' = Client /\ DOMAIN loc' = Client
         /\ \A d \in Client \ {c} : pc'[d] = pc[d] /\ loc'[d] = loc[d]
         /\ pc'[c] = label /\ loc'[c] = locals
BY DEF Typed, Begin, store, ghost

\* The requests that offer nothing.
Asking == LookupOps \cup {"LogoutByLoginID", "LogoutByDevice", "RevokeRefreshToken",
                          "RevokeRefreshByLoginID", "ConsumeNonce"}

LEMMA AskOpens ==
  ASSUME Typed, NEW c \in Client, UNCHANGED setup, NEW label, NEW locals,
         Begin(c, label, {}, locals), DOMAIN locals = DOMAIN Blank, locals.at = 0,
         locals.op \in Asking,
         label \in {"get", "logoutAccess", "findDevice", "getRefresh", "revokeAll", "nonce"},
         label = "get" => locals.op \in LookupOps /\ locals.ttl \in Nat,
         label = "nonce" => locals.nonce \in issued
  PROVE  Opens(c)
  <1>1. /\ pc[c] = "idle"
        /\ UNCHANGED <<setup, now, tokens, issued, redeemed>>
        /\ used \subseteq used' /\ used' \subseteq TokenValue
        /\ DOMAIN pc' = Client /\ DOMAIN loc' = Client
        /\ \A d \in Client \ {c} : pc'[d] = pc[d] /\ loc'[d] = loc[d]
        /\ pc'[c] = label /\ loc'[c] = locals
    <2>1. {} \subseteq TokenValue
      OBVIOUS
    <2> QED
      BY <2>1, BeginFrame
  <1>2. /\ locals.op \notin Issuing /\ locals.op # "none"
        /\ locals.op \notin {"LoginWithRefresh", "GenerateNonce", "Refresh"}
    BY DEF Asking, LookupOps, Issuing, LoginOps
  <1>3. NewAccess(c)' = {} /\ Offered(c)' = {}
    BY <1>1, <1>2 DEF NewAccess, Offered
  <1>4. Located(c)'
    BY <1>1, <1>2, <1>3 DEF Located
  <1>5. \A t \in TokenValue : ~Holds(c, t)'
    BY <1>1, <1>2 DEF Holds
  <1> QED
    BY <1>1, <1>3, <1>4, <1>5 DEF Opens

LEMMA AskingOpens ==
  ASSUME Typed, NEW c \in Client, UNCHANGED setup, Atomic,
         \/ Lookup(c) \/ LogoutByLoginID(c) \/ LogoutByDevice(c)
         \/ RevokeRefreshToken(c) \/ RevokeRefreshByLoginID(c) \/ ConsumeNonce(c)
  PROVE  Opens(c)
  <1>1. CASE Lookup(c)
    <2>1. PICK op \in LookupOps, t \in issued, ttl \in RenewTTL :
            Begin(c, "get", {}, [Blank EXCEPT !.op = op, !.acc = t, !.cur = StoreKey(t),
                                              !.ttl = ttl])
      BY <1>1 DEF Lookup
    <2> DEFINE locals == [Blank EXCEPT !.op = op, !.acc = t, !.cur = StoreKey(t), !.ttl = ttl]
    <2>2. /\ DOMAIN locals = DOMAIN Blank /\ locals.at = 0
          /\ locals.op \in Asking /\ locals.op \in LookupOps /\ locals.ttl \in Nat
      BY SetupTyped DEF Blank, Asking, Typed
    <2> HIDE DEF locals
    <2> QED
      BY <2>1, <2>2, AskOpens DEF locals
  <1>2. CASE LogoutByLoginID(c)
    <2>1. PICK s \in Subject, drop \in BOOLEAN :
            Begin(c, "logoutAccess", {},
                  [Blank EXCEPT !.op = "LogoutByLoginID", !.subject = s, !.dropSession = drop,
                                !.covered = SubjectLogout(s)])
      BY <1>2 DEF LogoutByLoginID
    <2> DEFINE locals == [Blank EXCEPT !.op = "LogoutByLoginID", !.subject = s,
                                       !.dropSession = drop, !.covered = SubjectLogout(s)]
    <2>2. DOMAIN locals = DOMAIN Blank /\ locals.at = 0 /\ locals.op \in Asking
      BY DEF Blank, Asking
    <2> HIDE DEF locals
    <2> QED
      BY <2>1, <2>2, AskOpens DEF locals
  <1>3. CASE LogoutByDevice(c)
    <2>1. PICK s, d, covered :
            Begin(c, "findDevice", {},
                  [Blank EXCEPT !.op = "LogoutByDevice", !.subject = s, !.device = d,
                                !.covered = covered])
      BY <1>3 DEF LogoutByDevice
    <2> DEFINE locals == [Blank EXCEPT !.op = "LogoutByDevice", !.subject = s, !.device = d,
                                       !.covered = covered]
    <2>2. DOMAIN locals = DOMAIN Blank /\ locals.at = 0 /\ locals.op \in Asking
      BY DEF Blank, Asking
    <2> HIDE DEF locals
    <2> QED
      BY <2>1, <2>2, AskOpens DEF locals
  <1>4. CASE RevokeRefreshToken(c)
    <2>1. PICK t \in issued :
            Begin(c, "getRefresh", {}, [Blank EXCEPT !.op = "RevokeRefreshToken", !.ref = t])
      BY <1>4 DEF RevokeRefreshToken
    <2> DEFINE locals == [Blank EXCEPT !.op = "RevokeRefreshToken", !.ref = t]
    <2>2. DOMAIN locals = DOMAIN Blank /\ locals.at = 0 /\ locals.op \in Asking
      BY DEF Blank, Asking
    <2> HIDE DEF locals
    <2> QED
      BY <2>1, <2>2, AskOpens DEF locals
  <1>5. CASE RevokeRefreshByLoginID(c)
    <2>1. PICK s \in Subject :
            Begin(c, "revokeAll", {},
                  [Blank EXCEPT !.op = "RevokeRefreshByLoginID", !.subject = s,
                                !.covered = IssuedTo(s, {"refresh"})])
      BY <1>5 DEF RevokeRefreshByLoginID
    <2> DEFINE locals == [Blank EXCEPT !.op = "RevokeRefreshByLoginID", !.subject = s,
                                       !.covered = IssuedTo(s, {"refresh"})]
    <2>2. DOMAIN locals = DOMAIN Blank /\ locals.at = 0 /\ locals.op \in Asking
      BY DEF Blank, Asking
    <2> HIDE DEF locals
    <2> QED
      BY <2>1, <2>2, AskOpens DEF locals
  <1>6. CASE ConsumeNonce(c)
    <2>1. PICK t \in issued :
            Begin(c, "nonce", {}, [Blank EXCEPT !.op = "ConsumeNonce", !.nonce = t])
      BY <1>6 DEF ConsumeNonce, NonceEntry
    <2> DEFINE locals == [Blank EXCEPT !.op = "ConsumeNonce", !.nonce = t]
    <2>2. /\ DOMAIN locals = DOMAIN Blank /\ locals.at = 0 /\ locals.op \in Asking
          /\ locals.nonce = t
      BY DEF Blank, Asking
    <2> HIDE DEF locals
    <2> QED
      BY <2>1, <2>2, AskOpens DEF locals
  <1> QED
    BY <1>1, <1>2, <1>3, <1>4, <1>5, <1>6

LEMMA NewTokensAreFresh ==
  ASSUME Typed, NEW fresh
  PROVE  NewToken(fresh) = {fresh}
BY DEF Typed, NewToken

LEMMA LoginBegins ==
  ASSUME Typed, NEW c \in Client, Login(c)
  PROVE  /\ Unused(1)
         /\ \E s \in Subject, d \in Devices \cup {NoDevice}, n \in Nonces :
              Begin(c, IF RequireNonce THEN NonceEntry ELSE LoginEntry, {Fresh1},
                    [Blank EXCEPT !.op = "Login", !.acc = Fresh1, !.nonce = n,
                           !.subject = s, !.device = d,
                           !.covered = IF Concurrent THEN {} ELSE SubjectLogout(s)])
  <1>1. \A acc \in NewToken(Fresh1) : acc = Fresh1
    BY NewTokensAreFresh
  <1>2. PICK s \in Subject, d \in Devices \cup {NoDevice}, n \in Nonces,
             acc \in NewToken(Fresh1) :
          Begin(c, IF RequireNonce THEN NonceEntry ELSE LoginEntry, {acc},
                [Blank EXCEPT !.op = "Login", !.acc = acc, !.nonce = n,
                       !.subject = s, !.device = d,
                       !.covered = IF Concurrent THEN {} ELSE SubjectLogout(s)])
    BY Zenon DEF Login
  <1>3. acc = Fresh1 /\ Unused(1)
    BY <1>1 DEF Login
  <1> QED
    BY <1>2, <1>3, Zenon

LEMMA LoginWithRefreshBegins ==
  ASSUME Typed, NEW c \in Client, LoginWithRefresh(c)
  PROVE  /\ Unused(2)
         /\ \E s \in Subject, d \in Devices \cup {NoDevice}, n \in Nonces, r \in {Fresh1, Fresh2} :
              /\ StoreKey(Fresh1) # StoreKey(r)
              /\ Begin(c, IF RequireNonce THEN NonceEntry ELSE LoginEntry, {Fresh1, r},
                       [Blank EXCEPT !.op = "LoginWithRefresh", !.acc = Fresh1, !.ref = r,
                              !.nonce = n, !.subject = s, !.device = d,
                              !.covered = IF Concurrent THEN {} ELSE SubjectLogout(s)])
  <1>1. /\ \A acc \in NewToken(Fresh1) : acc = Fresh1
        /\ \A r \in NewToken(Fresh2) \cup (IF AliasArgs THEN {Fresh1} ELSE {}) :
              r \in {Fresh1, Fresh2}
    BY NewTokensAreFresh
  <1>2. PICK s \in Subject, d \in Devices \cup {NoDevice}, n \in Nonces,
             acc \in NewToken(Fresh1),
             r \in NewToken(Fresh2) \cup (IF AliasArgs THEN {Fresh1} ELSE {}) :
          /\ StoreKey(acc) # StoreKey(r)
          /\ Begin(c, IF RequireNonce THEN NonceEntry ELSE LoginEntry, {acc, r},
                   [Blank EXCEPT !.op = "LoginWithRefresh", !.acc = acc, !.ref = r,
                          !.nonce = n, !.subject = s, !.device = d,
                          !.covered = IF Concurrent THEN {} ELSE SubjectLogout(s)])
    BY Zenon DEF LoginWithRefresh
  <1>3. acc = Fresh1 /\ r \in {Fresh1, Fresh2} /\ Unused(2)
    BY <1>1 DEF LoginWithRefresh
  <1> QED
    BY <1>2, <1>3, Zenon

LEMMA GenerateNonceBegins ==
  ASSUME Typed, NEW c \in Client, GenerateNonce(c)
  PROVE  /\ Unused(1)
         /\ Begin(c, "saveNonce", {Fresh1},
                  [Blank EXCEPT !.op = "GenerateNonce", !.nonce = Fresh1])
BY NewTokensAreFresh DEF GenerateNonce

LEMMA GenerateNonceOpens ==
  ASSUME Typed, NEW c \in Client, UNCHANGED setup, GenerateNonce(c)
  PROVE  Opens(c)
  <1> DEFINE locals == [Blank EXCEPT !.op = "GenerateNonce", !.nonce = Fresh1]
  <1>1. Fresh1 \in TokenValue /\ Fresh1 \notin used
    BY Fresh DEF GenerateNonce, Typed
  <1>2. /\ DOMAIN locals = DOMAIN Blank /\ locals.at = 0 /\ locals.op = "GenerateNonce"
        /\ locals.nonce = Fresh1
    BY DEF Blank
  <1>3. Begin(c, "saveNonce", {Fresh1}, locals)
    BY GenerateNonceBegins
  <1> HIDE DEF locals
  <1>4. /\ pc[c] = "idle"
        /\ UNCHANGED <<setup, now, tokens, issued, redeemed>>
        /\ used' = used \cup {Fresh1} /\ used \subseteq used' /\ used' \subseteq TokenValue
        /\ DOMAIN pc' = Client /\ DOMAIN loc' = Client
        /\ \A d \in Client \ {c} : pc'[d] = pc[d] /\ loc'[d] = loc[d]
        /\ pc'[c] = "saveNonce" /\ loc'[c] = locals
    BY <1>1, <1>3, BeginFrame
  <1>5. NewAccess(c)' = {} /\ Offered(c)' = {Fresh1}
    <2>1. loc'[c].op = "GenerateNonce" /\ loc'[c].nonce = Fresh1
      BY <1>2, <1>4
    <2>2. \A x : x = loc'[c].nonce => Offered(c)' = {x}
      BY <2>1 DEF Offered
    <2> QED
      BY <2>1, <2>2 DEF NewAccess, Issuing, LoginOps
  <1>6. Located(c)'
    BY <1>2, <1>4, <1>5 DEF Located
  <1>7. \A t \in TokenValue : ~Holds(c, t)'
    BY <1>2, <1>4 DEF Holds
  <1> QED
    BY <1>1, <1>4, <1>5, <1>6, <1>7 DEF Opens

LEMMA LoginOpens ==
  ASSUME Typed, NEW c \in Client, UNCHANGED setup, Atomic, NEW label, NEW new, NEW locals,
         Begin(c, label, new, locals), new \subseteq TokenValue,
         label = IF RequireNonce THEN NonceEntry ELSE LoginEntry,
         DOMAIN locals = DOMAIN Blank, locals.at = 0, locals.op \in LoginOps,
         RequireNonce => locals.nonce \in issued,
         locals.acc \in new, locals.acc \notin used,
         locals.op = "LoginWithRefresh" =>
           locals.ref \in new /\ locals.ref \notin used /\ locals.ref # locals.acc
  PROVE  Opens(c)
  <1>1. /\ pc[c] = "idle"
        /\ UNCHANGED <<setup, now, tokens, issued, redeemed>>
        /\ used' = used \cup new /\ used \subseteq used' /\ used' \subseteq TokenValue
        /\ DOMAIN pc' = Client /\ DOMAIN loc' = Client
        /\ \A d \in Client \ {c} : pc'[d] = pc[d] /\ loc'[d] = loc[d]
        /\ pc'[c] = label /\ loc'[c] = locals
    BY BeginFrame
  <1>2. NewAccess(c)' = {locals.acc}
        /\ Offered(c)' \subseteq (IF locals.op = "LoginWithRefresh" THEN {locals.ref} ELSE {})
    BY <1>1 DEF NewAccess, Issuing, LoginOps, Offered
  <1>3. label \in {"nonce", "saveAccess", "replace"} /\ (label = "nonce" => RequireNonce)
    BY DEF NonceEntry, LoginEntry
  <1>4. Located(c)'
    BY <1>1, <1>2, <1>3 DEF Located, LoginOps, Issuing
  <1>5. \A t \in TokenValue : ~Holds(c, t)'
    BY <1>1, <1>3 DEF Holds, LoginOps
  <1> QED
    BY <1>1, <1>2, <1>4, <1>5 DEF Opens

LEMMA LoginsOpen ==
  ASSUME Typed, NEW c \in Client, UNCHANGED setup, Atomic, Login(c) \/ LoginWithRefresh(c)
  PROVE  Opens(c)
  <1>1. CASE Login(c)
    <2>1. PICK s, d, n, covered :
            /\ n \in Nonces
            /\ Unused(1)
            /\ Begin(c, IF RequireNonce THEN NonceEntry ELSE LoginEntry, {Fresh1},
                     [Blank EXCEPT !.op = "Login", !.acc = Fresh1, !.nonce = n,
                                   !.subject = s, !.device = d, !.covered = covered])
      BY <1>1, LoginBegins
    <2> DEFINE locals == [Blank EXCEPT !.op = "Login", !.acc = Fresh1, !.nonce = n,
                                       !.subject = s, !.device = d, !.covered = covered]
    <2>2. Fresh1 \in TokenValue /\ Fresh1 \notin used
      BY <2>1, Fresh DEF Typed
    <2>3. /\ DOMAIN locals = DOMAIN Blank /\ locals.at = 0 /\ locals.op = "Login"
          /\ locals.acc = Fresh1 /\ locals.nonce = n
      BY DEF Blank
    <2>4. RequireNonce => n \in issued
      BY <2>1 DEF Nonces
    <2>5. Begin(c, IF RequireNonce THEN NonceEntry ELSE LoginEntry, {Fresh1}, locals)
      BY <2>1
    <2> HIDE DEF locals
    <2> QED
      BY <2>2, <2>3, <2>4, <2>5, LoginOpens DEF LoginOps
  <1>2. CASE LoginWithRefresh(c)
    <2>1. PICK s, d, n, r, covered :
            /\ n \in Nonces /\ r \in {Fresh2, Fresh1}
            /\ Unused(2)
            /\ StoreKey(Fresh1) # StoreKey(r)
            /\ Begin(c, IF RequireNonce THEN NonceEntry ELSE LoginEntry, {Fresh1, r},
                     [Blank EXCEPT !.op = "LoginWithRefresh", !.acc = Fresh1, !.ref = r,
                                   !.nonce = n, !.subject = s, !.device = d,
                                   !.covered = covered])
      BY <1>2, LoginWithRefreshBegins
    <2> DEFINE locals == [Blank EXCEPT !.op = "LoginWithRefresh", !.acc = Fresh1, !.ref = r,
                                       !.nonce = n, !.subject = s, !.device = d,
                                       !.covered = covered]
    <2>2. r = Fresh2
      BY <2>1
    <2>3. /\ Fresh1 \in TokenValue /\ Fresh1 \notin used
          /\ r \in TokenValue /\ r \notin used /\ r # Fresh1
      BY <2>1, <2>2, Fresh DEF Typed
    <2>4. /\ DOMAIN locals = DOMAIN Blank /\ locals.at = 0 /\ locals.op = "LoginWithRefresh"
          /\ locals.acc = Fresh1 /\ locals.ref = r /\ locals.nonce = n
      BY DEF Blank
    <2>5. RequireNonce => n \in issued
      BY <2>1 DEF Nonces
    <2>6. Begin(c, IF RequireNonce THEN NonceEntry ELSE LoginEntry, {Fresh1, r}, locals)
      BY <2>1
    <2> HIDE DEF locals
    <2> QED
      BY <2>3, <2>4, <2>5, <2>6, LoginOpens DEF LoginOps
  <1> QED
    BY <1>1, <1>2

LEMMA AliasesAreLinked ==
  ASSUME Typed, NEW ref \in issued, NEW t \in Aliases(ref), t # ref
  PROVE  /\ t \in issued /\ AliasArgs /\ Linked(t)
         /\ tokens[StoreKey(ref)].state.access = StoreKey(t)
  <1>1. StoreKey(ref) \in Token
    BY KeysDiffer DEF Typed
  <1> QED
    BY <1>1 DEF Aliases, Linked, Typed

LEMMA RefreshOpens ==
  ASSUME Typed, NEW c \in Client, UNCHANGED setup, Refresh(c)
  PROVE  Opens(c)
  <1>1. PICK ref \in issued, d \in Devices \cup {NoDevice} :
          /\ Unused(IF RotateRefreshToken THEN 2 ELSE 1)
          /\ \E acc \in {Fresh1} \cup Aliases(ref),
                next \in IF RotateRefreshToken THEN {Fresh2} \cup Aliases(ref) ELSE {NoToken} :
               /\ DistinctArgs(ref, acc, next)
               /\ Begin(c, "load", {acc, next} \ {NoToken},
                        [Blank EXCEPT !.op = "Refresh", !.ref = ref, !.acc = acc,
                                      !.next = next, !.device = d])
    BY DEF Refresh
  <1>2. PICK acc \in {Fresh1} \cup Aliases(ref),
             next \in IF RotateRefreshToken THEN {Fresh2} \cup Aliases(ref) ELSE {NoToken} :
          /\ DistinctArgs(ref, acc, next)
          /\ Begin(c, "load", {acc, next} \ {NoToken},
                   [Blank EXCEPT !.op = "Refresh", !.ref = ref, !.acc = acc,
                                 !.next = next, !.device = d])
    BY <1>1
  <1> DEFINE locals == [Blank EXCEPT !.op = "Refresh", !.ref = ref, !.acc = acc,
                                     !.next = next, !.device = d]
             new == {acc, next} \ {NoToken}
  <1>3. /\ Fresh1 \in TokenValue /\ Fresh1 \notin used
        /\ RotateRefreshToken =>
             Fresh2 \in TokenValue /\ Fresh2 \notin used /\ Fresh2 # Fresh1
    <2>1. CASE RotateRefreshToken
      BY <1>1, <2>1, Fresh DEF Typed
    <2>2. CASE ~RotateRefreshToken
      BY <1>1, <2>2, Fresh DEF Typed
    <2> QED
      BY <2>1, <2>2
  <1>4. acc \in TokenValue /\ (acc \notin used \/ (AliasArgs /\ Linked(acc)))
    BY <1>2, <1>3, AliasesAreLinked DEF DistinctArgs, Typed
  <1>5. ASSUME RotateRefreshToken
        PROVE  /\ next \in TokenValue /\ next # acc
               /\ \/ next \notin used
                  \/ /\ next \in issued
                     /\ tokens[StoreKey(ref)].state.access = StoreKey(next)
    BY <1>2, <1>3, <1>5, AliasesAreLinked DEF DistinctArgs, Typed
  <1>6. NoToken \notin TokenValue /\ new \subseteq TokenValue /\ acc \in new
        /\ (RotateRefreshToken => next \in new)
    BY <1>2, <1>4, <1>5, ManagerAssumption
  <1>7. /\ DOMAIN locals = DOMAIN Blank /\ locals.at = 0 /\ locals.op = "Refresh"
        /\ locals.ref = ref /\ locals.acc = acc /\ locals.next = next
    BY DEF Blank
  <1>8. Begin(c, "load", new, locals)
    BY <1>2
  <1> HIDE DEF locals, new
  <1>9. /\ pc[c] = "idle"
        /\ UNCHANGED <<setup, now, tokens, issued, redeemed>>
        /\ used' = used \cup new /\ used \subseteq used' /\ used' \subseteq TokenValue
        /\ DOMAIN pc' = Client /\ DOMAIN loc' = Client
        /\ \A e \in Client \ {c} : pc'[e] = pc[e] /\ loc'[e] = loc[e]
        /\ pc'[c] = "load" /\ loc'[c] = locals
    BY <1>6, <1>8, BeginFrame
  <1>10. NewAccess(c)' = {acc} /\ Offered(c)' = IF RotateRefreshToken THEN {next} ELSE {}
    BY <1>7, <1>9 DEF NewAccess, Issuing, Offered, RotateRefreshToken
  <1>11. Located(c)'
    BY <1>6, <1>7, <1>9, <1>10 DEF Located, LoginOps
  <1>12. \A t \in TokenValue : ~Holds(c, t)'
    BY <1>7, <1>9 DEF Holds, Before
  <1>13. tokens[StoreKey(ref)].state.access = StoreKey(next) => Doomed(c)'
    BY <1>7, <1>9 DEF Doomed
  <1>14. \A t \in Offered(c)' :
           /\ t \notin NewAccess(c)' /\ t \in used'
           /\ t \notin used \/ (t \in issued /\ pc'[c] = "load" /\ Doomed(c)')
    BY <1>5, <1>6, <1>9, <1>10, <1>13
  <1>15. \A t \in NewAccess(c)' : t \notin used \/ (AliasArgs /\ Linked(t))
    BY <1>4, <1>10
  <1> QED
    BY <1>9, <1>11, <1>12, <1>14, <1>15 DEF Opens

LEMMA StartOpens ==
  ASSUME Typed, NEW c \in Client, UNCHANGED setup, Atomic, Start(c)
  PROVE  Opens(c)
BY AskingOpens, GenerateNonceOpens, LoginsOpen, RefreshOpens DEF Start

-----------------------------------------------------------------------------
(* A step of a request keeps the invariant.                                 *)

LEMMA OneTimeIsUsed ==
  ASSUME Core, NEW t \in TokenValue, IsOneTime(t)
  PROVE  t \in used
  <1>1. CASE OneTimeStored(t) \/ redeemed[t] = 1
    BY <1>1 DEF Core, Typed, Spent
  <1>2. ASSUME NEW c \in Client, Holds(c, t) PROVE t \in used
    BY <1>2 DEF Core, Holds, Typed, Located, Before
  <1>3. ASSUME NEW c \in Client, t \in Offered(c), t \notin issued PROVE t \in used
    BY <1>3 DEF Core, Pending
  <1> QED
    BY <1>1, <1>2, <1>3 DEF IsOneTime

LEMMA NothingMore ==
  ASSUME NEW c \in Client, Advances(c), NEW d \in Client
  PROVE  /\ Offered(d)' \subseteq Offered(d)
         /\ NewAccess(d)' \subseteq NewAccess(d)
         /\ \A t \in TokenValue : d # c /\ Holds(d, t)' => Holds(d, t)
         /\ loc'[d] = Blank => Offered(d)' = {}
  <1>1. CASE loc'[d] = Blank /\ pc'[d] = "idle"
    <2>1. Blank.op = "none"
      BY DEF Blank
    <2> QED
      BY <1>1, <2>1 DEF Offered, NewAccess, Issuing, LoginOps, Holds, Before
  <1>2. CASE SameTokens(d) \/ (d # c /\ loc'[d] = loc[d] /\ pc'[d] = pc[d])
    <2>1. loc'[d].op = loc[d].op /\ loc'[d].acc = loc[d].acc /\ loc'[d].ref = loc[d].ref
          /\ loc'[d].next = loc[d].next /\ loc'[d].nonce = loc[d].nonce
          /\ UNCHANGED setup /\ UNCHANGED now
      BY <1>2 DEF SameTokens, Advances, Frame
    <2>2. Offered(d)' = Offered(d) /\ NewAccess(d)' = NewAccess(d)
      BY <2>1 DEF Offered, NewAccess, RotateRefreshToken
    <2>3. d # c => loc'[d] = loc[d] /\ pc'[d] = pc[d]
      BY DEF Advances, Frame
    <2>4. \A t \in TokenValue : d # c /\ Holds(d, t)' => Holds(d, t)
      BY <2>1, <2>3 DEF Holds
    <2>5. Blank.op = "none"
      BY DEF Blank
    <2> QED
      BY <2>1, <2>2, <2>4, <2>5 DEF Offered
  <1> QED
    BY <1>1, <1>2 DEF Advances, Leaves, Stays, Frame

LEMMA StepTyped ==
  ASSUME Core, NEW c \in Client, Advances(c)
  PROVE  Typed'
  <1>1. Frame(c) /\ Effect(c) /\ Typed /\ Pending(c)
    BY DEF Advances, Core
  <1>2. \A t \in Offered(c) : t \in used
    BY <1>1 DEF Pending, Typed
  <1>3. NewAccess(c) \subseteq used
    BY <1>1 DEF Typed, Located
  <1>4. issued \subseteq issued' /\ issued' \subseteq used
    BY <1>1, <1>2, <1>3 DEF Advances, Leaves, Stays, Typed
  <1>5. StoreShaped'
    <2> SUFFICES ASSUME NEW k \in Token, tokens'[k] # NoEntry
                 PROVE  /\ EntryShaped(tokens'[k])
                        /\ tokens'[k].state.access \in {StoreKey(t) : t \in used} \cup {NoKey}
                        /\ k \in {StoreKey(t) : t \in used}
                        /\ tokens'[k].state.kind \in OneTime => ~IsExpired(tokens'[k].state, now)
                        /\ tokens'[k].state.status # "active" => tokens'[k].state.kind \in OneTime
      BY <1>1 DEF StoreShaped, Frame, Effect, Typed
    <2>1. CASE tokens'[k] = tokens[k]
      BY <1>1, <2>1 DEF Typed, StoreShaped
    <2>2. CASE Kept(k)
      BY <1>1, <2>2 DEF Typed, StoreShaped, Kept
    <2>3. CASE PutAccess(c, k)
      BY <1>3, <2>3 DEF PutAccess, NewAccess, OneTime
    <2>4. CASE PutOneTime(c, k)
      BY <1>2, <1>3, <2>4 DEF PutOneTime, NewAccess
    <2>5. CASE PutBack(c, k)
      <3>1. loc[c].acc \in used
        BY <1>3, <2>5 DEF PutBack, NewAccess, Issuing
      <3> QED
        BY <1>1, <2>5, <3>1 DEF Typed, StoreShaped, PutBack
    <2> QED
      BY <1>1, <2>1, <2>2, <2>3, <2>4, <2>5 DEF Effect
  <1>6. ASSUME NEW d \in Client PROVE Located(d)'
    <2>1. CASE d = c
      BY <2>1 DEF Advances
    <2>2. CASE d # c
      <3>1. pc'[d] = pc[d] /\ loc'[d] = loc[d] /\ UNCHANGED <<used, setup>>
        BY <1>1, <2>2 DEF Frame
      <3>2. Located(d)
        BY <1>1 DEF Typed
      <3>3. NewAccess(d)' = NewAccess(d)
        BY <3>1 DEF NewAccess
      <3> QED
        BY <1>4, <3>1, <3>2, <3>3 DEF Located, RotateRefreshToken
    <2> QED
      BY <2>1, <2>2
  <1>7. DOMAIN redeemed' = TokenValue
    BY <1>1 DEF Advances, Redeems, Typed
  <1>8. ASSUME NEW t \in TokenValue, OneTimeStored(t)' PROVE t \in issued'
    <2> DEFINE k == StoreKey(t)
    <2>1. k \in Token /\ tokens'[k] # NoEntry /\ tokens'[k].state.kind \in OneTime
      BY <1>8, KeysDiffer DEF OneTimeStored
    <2>2. CASE OneTimeStored(t)
      BY <1>1, <1>4, <2>2 DEF Typed
    <2>3. CASE PutOneTime(c, k)
      BY <2>3, KeysDiffer DEF PutOneTime
    <2> QED
      BY <1>1, <2>1, <2>2, <2>3 DEF Effect, OneTimeStored, OneTime, Kept, PutAccess, PutBack
  <1> QED
    BY <1>1, <1>4, <1>5, <1>6, <1>7, <1>8 DEF Typed, Frame, ReuseArgs

LEMMA StoringIsNew ==
  ASSUME Core, NEW c \in Client, NEW k \in Token, PutOneTime(c, k), NEW t, k = StoreKey(t)
  PROVE  t \in Offered(c) /\ t \notin issued
BY KeysDiffer DEF PutOneTime, Core, Pending, Before

LEMMA PuttingBackIsHolding ==
  ASSUME NEW c \in Client, NEW k \in Token, PutBack(c, k), NEW t, k = StoreKey(t)
  PROVE  Holds(c, t)
BY KeysDiffer DEF PutBack, Holds, Before

LEMMA RedeemsOnlyHeld ==
  ASSUME Core, NEW c \in Client, Advances(c), NEW t \in TokenValue,
         ~Holds(c, t) \/ Holds(c, t)'
  PROVE  redeemed'[t] = redeemed[t]
  <1>1. CASE UNCHANGED redeemed
    BY <1>1
  <1>2. CASE \E u \in TokenValue :
               /\ Holds(c, u) /\ ~Holds(c, u)'
               /\ redeemed' = [redeemed EXCEPT ![u] = IF @ < 2 THEN @ + 1 ELSE @]
    <2>1. PICK u \in TokenValue :
            /\ Holds(c, u) /\ ~Holds(c, u)'
            /\ redeemed' = [redeemed EXCEPT ![u] = IF @ < 2 THEN @ + 1 ELSE @]
      BY <1>2
    <2>2. u # t
      BY <2>1
    <2> QED
      BY <2>1, <2>2 DEF Core, Typed
  <1> QED
    BY <1>1, <1>2 DEF Advances, Redeems

LEMMA StepOneTime ==
  ASSUME Core, NEW c \in Client, Advances(c), NEW t \in TokenValue, IsOneTime(t)'
  PROVE  IsOneTime(t)
  <1> DEFINE k == StoreKey(t)
  <1>1. k \in Token
    BY KeysDiffer
  <1>2. ASSUME OneTimeStored(t)' PROVE IsOneTime(t)
    <2>1. /\ tokens'[k] # NoEntry /\ tokens'[k].state.kind \in OneTime
      BY <1>2 DEF OneTimeStored
    <2>2. CASE tokens'[k] = tokens[k] \/ Kept(k)
      BY <2>1, <2>2 DEF Kept, OneTimeStored, IsOneTime
    <2>3. CASE PutAccess(c, k)
      BY <2>1, <2>3 DEF PutAccess, OneTime
    <2>4. CASE PutOneTime(c, k)
      BY <1>1, <2>4, StoringIsNew DEF IsOneTime
    <2>5. CASE PutBack(c, k)
      BY <1>1, <2>5, PuttingBackIsHolding DEF IsOneTime
    <2> QED
      BY <1>1, <2>1, <2>2, <2>3, <2>4, <2>5 DEF Advances, Effect
  <1>3. ASSUME NEW d \in Client, Holds(d, t)' PROVE IsOneTime(t)
    <2>1. Holds(d, t) \/ OneTimeStored(t)
      BY <1>3, NothingMore DEF Advances, Acquires
    <2> QED
      BY <2>1 DEF IsOneTime
  <1>4. ASSUME NEW d \in Client, t \in Offered(d)', t \notin issued' PROVE IsOneTime(t)
    <2>1. t \in Offered(d) /\ t \notin issued
      BY <1>4, NothingMore DEF Advances, Leaves, Stays
    <2> QED
      BY <2>1 DEF IsOneTime
  <1>5. ASSUME redeemed'[t] = 1 PROVE IsOneTime(t)
    <2>1. redeemed[t] = 1 \/ Holds(c, t)
      BY <1>5, RedeemsOnlyHeld
    <2> QED
      BY <2>1 DEF IsOneTime
  <1> QED
    BY <1>2, <1>3, <1>4, <1>5 DEF IsOneTime

LEMMA StepDisjoint ==
  ASSUME Core, NEW c \in Client, Advances(c)
  PROVE  Disjoint'
  <1> SUFFICES ASSUME NEW t \in TokenValue, IsOneTime(t)'
               PROVE  /\ \A d \in Client : t \notin NewAccess(d)'
                      /\ \A k \in Token : tokens'[k] # NoEntry
                                            => tokens'[k].state.access # StoreKey(t)
    BY DEF Disjoint
  <1>1. IsOneTime(t)
    BY StepOneTime
  <1>2. /\ \A d \in Client : t \notin NewAccess(d)
        /\ \A k \in Token : tokens[k] # NoEntry => tokens[k].state.access # StoreKey(t)
    BY <1>1 DEF Core, Disjoint
  <1>3. \A d \in Client : t \notin NewAccess(d)'
    BY <1>2, NothingMore
  <1>4. ASSUME NEW k \in Token, tokens'[k] # NoEntry
        PROVE  tokens'[k].state.access # StoreKey(t)
    <2>1. StoreKey(t) # NoKey
      BY KeysDiffer
    <2>2. loc[c].op \in Issuing => StoreKey(loc[c].acc) # StoreKey(t)
      BY <1>2, KeysDiffer DEF NewAccess
    <2>3. PutBack(c, k) => loc[c].op \in Issuing
      BY DEF PutBack, Issuing
    <2> QED
      BY <1>2, <1>4, <2>1, <2>2, <2>3 DEF Advances, Effect, Kept, PutAccess, PutOneTime, PutBack
  <1> QED
    BY <1>3, <1>4

LEMMA StepAccessIsNew ==
  ASSUME Core, NEW c \in Client, Advances(c)
  PROVE  AccessIsNew'
  <1> SUFFICES ASSUME ~AliasArgs, NEW d \in Client, NEW t, t \in NewAccess(d)'
               PROVE  t \notin issued' /\ \A e \in Client \ {d} : t \notin NewAccess(e)'
    BY DEF AccessIsNew, AliasArgs, Advances, Frame
  <1>1. \A e \in Client : NewAccess(e)' \subseteq NewAccess(e)
    BY NothingMore
  <1>2. /\ t \in NewAccess(d) /\ t \in TokenValue /\ t \notin issued
        /\ \A e \in Client \ {d} : t \notin NewAccess(e)
    BY <1>1 DEF Core, AccessIsNew, Typed, Located
  <1>3. t \notin Offered(c)
    BY <1>2 DEF Core, Disjoint, IsOneTime
  <1>4. CASE d = c
    <2>1. loc'[c] = Blank => NewAccess(c)' = {}
      BY DEF NewAccess, Blank, Issuing, LoginOps
    <2> QED
      BY <1>1, <1>2, <1>4, <2>1 DEF Advances, Leaves, Stays
  <1>5. CASE d # c
    BY <1>1, <1>2, <1>3, <1>5 DEF Advances, Leaves, Stays
  <1> QED
    BY <1>4, <1>5

LEMMA DoomedStays ==
  ASSUME Core, NEW c \in Client, Advances(c), NEW d \in Client,
         loc[d].op = "Refresh", RotateRefreshToken, Doomed(d),
         loc'[d].ref = loc[d].ref, loc'[d].next = loc[d].next
  PROVE  Doomed(d)'
  <1> DEFINE k == StoreKey(loc[d].ref)
  <1>1. loc[d].ref \in issued /\ k \in Token
    BY KeysDiffer DEF Core, Typed, Located
  <1>2. ~PutOneTime(c, k)
    BY <1>1, StoringIsNew
  <1>3. ~PutBack(c, k)
    BY DEF PutBack
  <1>4. \/ tokens'[k] = tokens[k] \/ tokens'[k] = NoEntry
        \/ Kept(k) \/ PutAccess(c, k)
    BY <1>1, <1>2, <1>3 DEF Advances, Effect
  <1>5. \/ tokens'[k] = NoEntry
        \/ tokens'[k].state.kind # "refresh"
        \/ tokens'[k].state.access = StoreKey(loc[d].next)
    BY <1>4 DEF Doomed, Kept, PutAccess
  <1> QED
    BY <1>5 DEF Doomed

LEMMA StepPending ==
  ASSUME Core, NEW c \in Client, Advances(c), NEW d \in Client
  PROVE  Pending(d)'
  <1> SUFFICES ASSUME NEW t, t \in Offered(d)'
               PROVE  IF t \in issued' THEN pc'[d] \in {"load", "claim"} /\ Doomed(d)'
                      ELSE t \in used' /\ \A e \in Client \ {d} : t \notin Offered(e)'
    BY DEF Pending
  <1>1. /\ t \in Offered(d) /\ Pending(d) /\ Frame(c)
        /\ \A e \in Client : Offered(e)' \subseteq Offered(e)
    BY NothingMore DEF Core, Advances
  <1>2. CASE t \in issued
    <2>1. pc[d] \in {"load", "claim"} /\ Doomed(d)
      BY <1>1, <1>2 DEF Pending
    <2>2. loc[d].op = "Refresh" /\ RotateRefreshToken
      BY <1>1, <2>1 DEF Core, Typed, Located, Offered
    <2>3. /\ loc'[d].ref = loc[d].ref /\ loc'[d].next = loc[d].next
          /\ pc'[d] \in {"load", "claim"}
      <3>1. CASE d # c
        BY <1>1, <2>1, <3>1 DEF Frame
      <3>2. CASE d = c
        <4>1. Stays(c)
          BY <3>2, NothingMore DEF Advances, Leaves
        <4> QED
          BY <2>1, <2>2, <3>2, <4>1 DEF Stays, SameTokens, Before
      <3> QED
        BY <3>1, <3>2
    <2>4. Doomed(d)'
      BY <2>1, <2>2, <2>3, DoomedStays
    <2>5. t \in issued'
      BY <1>2 DEF Advances, Leaves, Stays
    <2> QED
      BY <2>3, <2>4, <2>5
  <1>3. CASE t \notin issued
    <2>1. t \in used /\ \A e \in Client \ {d} : t \notin Offered(e)
      BY <1>1, <1>3 DEF Pending
    <2>2. t \notin issued'
      <3>1. CASE d = c
        BY <1>3, <3>1, NothingMore DEF Advances, Leaves, Stays
      <3>2. CASE d # c
        <4>1. t \in TokenValue /\ IsOneTime(t)
          BY <1>1, <1>3, <2>1 DEF IsOneTime, Core, Typed
        <4>2. t \notin NewAccess(c) /\ t \notin Offered(c)
          BY <2>1, <3>2, <4>1 DEF Core, Disjoint
        <4> QED
          BY <1>3, <4>2 DEF Advances, Leaves, Stays
      <3> QED
        BY <3>1, <3>2
    <2> QED
      BY <1>1, <2>1, <2>2 DEF Frame
  <1> QED
    BY <1>2, <1>3

\* Out of use, a token comes back only when its holder lets go of it.
LEMMA StaysUnusable ==
  ASSUME Core, NEW c \in Client, Advances(c), NEW t \in TokenValue, t \in issued,
         ~Usable(StoreKey(t)), IsOneTime(t),
         Holds(c, t) => pc'[c] # "idle" \/ redeemed' # redeemed
  PROVE  ~Usable(StoreKey(t))'
  <1> DEFINE k == StoreKey(t)
  <1>1. k \in Token
    BY KeysDiffer
  <1>2. ~PutOneTime(c, k)
    BY <1>1, StoringIsNew
  <1>3. ~PutBack(c, k)
    BY <1>1, PuttingBackIsHolding DEF PutBack
  <1>4. ~PutAccess(c, k)
    BY KeysDiffer DEF Core, Disjoint, PutAccess, NewAccess
  <1>5. tokens'[k] = tokens[k] \/ tokens'[k] = NoEntry \/ Kept(k)
    BY <1>1, <1>2, <1>3, <1>4 DEF Advances, Effect
  <1> QED
    BY <1>5 DEF Usable, Kept

LEMMA HeldNotOffered ==
  ASSUME Core, NEW c \in Client, NEW d \in Client, NEW t \in TokenValue, Holds(d, t)
  PROVE  ~PutAccess(c, StoreKey(t))
BY KeysDiffer DEF Core, Disjoint, IsOneTime, PutAccess, NewAccess

LEMMA StepHeld ==
  ASSUME Core, NEW c \in Client, Advances(c), NEW d \in Client, NEW t \in TokenValue
  PROVE  Held(d, t)'
  <1> DEFINE k == StoreKey(t)
  <1> SUFFICES ASSUME Holds(d, t)'
               PROVE  /\ t \in issued' /\ ~Usable(k)' /\ redeemed'[t] = 0
                      /\ \A e \in Client : Holds(e, t)' => e = d
    BY DEF Held
  <1>1. k \in Token /\ issued \subseteq issued' /\ Typed'
    BY KeysDiffer, StepTyped DEF Advances, Leaves, Stays
  <1>2. \A e \in Client : Held(e, t)
    BY DEF Core
  <1>3. CASE Holds(d, t)
    <2>1. /\ t \in issued /\ ~Usable(k) /\ redeemed[t] = 0
          /\ \A e \in Client : Holds(e, t) => e = d
      BY <1>2, <1>3 DEF Held
    <2>2. Holds(c, t) => pc'[c] # "idle"
      BY <2>1 DEF Holds, Before
    <2>3. ~Usable(k)'
      <3>1. ~PutAccess(c, k)
        BY <1>3, HeldNotOffered
      <3>2. ~PutOneTime(c, k)
        BY <1>1, <2>1, StoringIsNew
      <3>3. ~PutBack(c, k)
        BY <1>1, <2>2, PuttingBackIsHolding DEF PutBack
      <3> QED
        BY <1>1, <2>1, <3>1, <3>2, <3>3 DEF Advances, Effect, Usable, Kept
    <2>4. redeemed'[t] = 0
      <3>1. ASSUME Holds(c, t) PROVE Holds(c, t)'
        BY <2>1, <3>1
      <3> QED
        BY <2>1, <3>1, RedeemsOnlyHeld
    <2>5. ASSUME NEW e \in Client, Holds(e, t)' PROVE e = d
      <3>1. Holds(e, t) \/ Usable(k)
        BY <2>5, NothingMore DEF Advances, Acquires
      <3> QED
        BY <2>1, <3>1
    <2> QED
      BY <1>1, <2>1, <2>3, <2>4, <2>5
  <1>4. CASE ~Holds(d, t)
    <2>1. d = c
      BY <1>4, NothingMore
    <2>2. OneTimeStored(t) /\ Usable(k) /\ ~Usable(k)'
      BY <1>4, <2>1 DEF Advances, Acquires
    <2>3. t \in issued'
      <3>1. Located(c)'
        BY DEF Advances
      <3> QED
        BY <2>1, <3>1 DEF Holds, Located
    <2>4. \A e \in Client : ~Holds(e, t)
      BY <1>2, <2>2 DEF Held
    <2>5. redeemed'[t] = 0
      <3>1. Spent(t)
        BY DEF Core
      <3>2. redeemed[t] = 0
        BY <2>2, <3>1 DEF Spent
      <3> QED
        BY <2>4, <3>2, RedeemsOnlyHeld
    <2>6. ASSUME NEW e \in Client, Holds(e, t)' PROVE e = d
      BY <2>1, <2>4, <2>6, NothingMore
    <2> QED
      BY <2>2, <2>3, <2>5, <2>6
  <1> QED
    BY <1>3, <1>4

LEMMA StepSpent ==
  ASSUME Core, NEW c \in Client, Advances(c), NEW t \in TokenValue
  PROVE  Spent(t)'
  <1>1. Spent(t) /\ Held(c, t) /\ issued \subseteq issued' /\ DOMAIN redeemed = TokenValue
    BY DEF Core, Typed, Advances, Leaves, Stays
  <1>2. CASE redeemed'[t] = redeemed[t]
    <2>1. redeemed[t] = 1 => ~Holds(c, t)
      BY <1>1 DEF Held
    <2>2. redeemed[t] = 1 => ~Usable(StoreKey(t))'
      BY <1>1, <2>1, StaysUnusable DEF Spent, IsOneTime
    <2> QED
      BY <1>1, <1>2, <2>2 DEF Spent
  <1>3. CASE redeemed'[t] # redeemed[t]
    <2>1. Holds(c, t) /\ redeemed' = [redeemed EXCEPT ![t] = IF @ < 2 THEN @ + 1 ELSE @]
      BY <1>1, <1>3 DEF Advances, Redeems
    <2>2. t \in issued /\ ~Usable(StoreKey(t)) /\ redeemed[t] = 0
      BY <1>1, <2>1 DEF Held
    <2>3. redeemed'[t] = 1
      BY <1>1, <2>1, <2>2
    <2>4. ~Usable(StoreKey(t))'
      BY <1>3, <2>1, <2>2, StaysUnusable DEF IsOneTime
    <2> QED
      BY <1>1, <2>2, <2>3, <2>4 DEF Spent
  <1> QED
    BY <1>2, <1>3

LEMMA StepKeeps ==
  ASSUME Core, NEW c \in Client, Advances(c)
  PROVE  Core'
BY StepTyped, StepPending, StepDisjoint, StepAccessIsNew, StepHeld, StepSpent DEF Core

-----------------------------------------------------------------------------
(* So do a beginning, a tick of the clock and the end of a context.          *)

LEMMA OpenTyped ==
  ASSUME Core, NEW c \in Client, Opens(c)
  PROVE  Typed'
  <1>1. UNCHANGED <<setup, now, tokens, issued, redeemed>> /\ used \subseteq used' /\ Typed
    BY DEF Opens, Core
  <1>2. StoreShaped'
    BY <1>1 DEF Typed, StoreShaped
  <1>3. ASSUME NEW d \in Client PROVE Located(d)'
    <2>1. CASE d = c
      BY <2>1 DEF Opens
    <2>2. CASE d # c
      <3>1. pc'[d] = pc[d] /\ loc'[d] = loc[d]
        BY <2>2 DEF Opens
      <3>2. NewAccess(d)' = NewAccess(d) /\ Located(d)
        BY <1>1, <3>1 DEF NewAccess, Typed
      <3> QED
        BY <1>1, <3>1, <3>2 DEF Located, RotateRefreshToken
    <2> QED
      BY <2>1, <2>2
  <1> QED
    BY <1>1, <1>2, <1>3 DEF Typed, Opens, OneTimeStored, ReuseArgs

LEMMA OthersOffer ==
  ASSUME NEW c \in Client, Opens(c), NEW d \in Client \ {c}
  PROVE  /\ Offered(d)' = Offered(d) /\ NewAccess(d)' = NewAccess(d)
         /\ \A t \in TokenValue : Holds(d, t)' = Holds(d, t)
         /\ Doomed(d)' = Doomed(d) /\ pc'[d] = pc[d]
  <1>1. pc'[d] = pc[d] /\ loc'[d] = loc[d] /\ UNCHANGED <<setup, now, tokens>>
    BY DEF Opens
  <1>2. Offered(d)' = Offered(d) /\ NewAccess(d)' = NewAccess(d)
    BY <1>1 DEF Offered, NewAccess, RotateRefreshToken
  <1>3. \A t \in TokenValue : Holds(d, t)' = Holds(d, t)
    BY <1>1 DEF Holds
  <1>4. Doomed(d)' = Doomed(d)
    BY <1>1 DEF Doomed
  <1> QED
    BY <1>1, <1>2, <1>3, <1>4

LEMMA OpenDisjoint ==
  ASSUME Core, NEW c \in Client, Opens(c)
  PROVE  Disjoint'
  <1> SUFFICES ASSUME NEW t \in TokenValue, IsOneTime(t)'
               PROVE  /\ \A d \in Client : t \notin NewAccess(d)'
                      /\ \A k \in Token : tokens[k] # NoEntry
                                            => tokens[k].state.access # StoreKey(t)
    BY DEF Disjoint, Opens
  <1>1. Typed /\ (\A d \in Client : Pending(d)) /\ UNCHANGED <<tokens, issued>>
    BY DEF Core, Opens
  <1>2. CASE IsOneTime(t)
    <2>1. /\ \A d \in Client : t \notin NewAccess(d)
          /\ \A k \in Token : tokens[k] # NoEntry => tokens[k].state.access # StoreKey(t)
      BY <1>2 DEF Core, Disjoint
    <2>2. t \in used
      BY <1>2, OneTimeIsUsed
    <2>3. t \notin NewAccess(c)'
      BY <2>1, <2>2 DEF Opens, Linked
    <2> QED
      BY <2>1, <2>3, OthersOffer
  <1>3. CASE t \in Offered(c)' /\ t \notin issued
    <2>1. t \notin used /\ t \notin NewAccess(c)'
      BY <1>3 DEF Opens
    <2>2. \A d \in Client : NewAccess(d) \subseteq used
      BY <1>1 DEF Typed, Located
    <2>3. \A k \in Token : tokens[k] # NoEntry => tokens[k].state.access # StoreKey(t)
      <3>1. \A u \in used : StoreKey(u) # StoreKey(t)
        BY <2>1, KeysDiffer
      <3> QED
        BY <1>1, <3>1, KeysDiffer DEF Typed, StoreShaped
    <2> QED
      BY <2>1, <2>2, <2>3, OthersOffer
  <1>4. OneTimeStored(t)' = OneTimeStored(t)
    BY <1>1 DEF OneTimeStored
  <1>5. \A d \in Client : Holds(d, t)' => d # c /\ Holds(d, t)
    BY OthersOffer DEF Opens
  <1>6. IsOneTime(t) \/ (t \in Offered(c)' /\ t \notin issued)
    BY <1>1, <1>4, <1>5, OthersOffer DEF IsOneTime, Opens
  <1> QED
    BY <1>2, <1>3, <1>6

LEMMA OpenAccessIsNew ==
  ASSUME Core, NEW c \in Client, Opens(c)
  PROVE  AccessIsNew'
  <1> SUFFICES ASSUME ~AliasArgs
               PROVE  \A d \in Client : \A t \in NewAccess(d)' :
                        t \notin issued /\ \A e \in Client \ {d} : t \notin NewAccess(e)'
    BY DEF AccessIsNew, AliasArgs, Opens
  <1>1. \A t \in NewAccess(c)' : t \notin used
    BY DEF Opens
  <1>2. issued \subseteq used /\ \A d \in Client : NewAccess(d) \subseteq used
    BY DEF Core, Typed, Located
  <1> QED
    BY <1>1, <1>2, OthersOffer DEF Core, AccessIsNew

LEMMA OpenPending ==
  ASSUME Core, NEW c \in Client, Opens(c), NEW d \in Client
  PROVE  Pending(d)'
  <1> SUFFICES ASSUME NEW t, t \in Offered(d)'
               PROVE  IF t \in issued THEN pc'[d] \in {"load", "claim"} /\ Doomed(d)'
                      ELSE t \in used' /\ \A e \in Client \ {d} : t \notin Offered(e)'
    BY DEF Pending, Opens
  <1>1. issued \subseteq used /\ used \subseteq used' /\ \A e \in Client : Pending(e)
    BY DEF Core, Typed, Opens
  <1>2. CASE d = c
    <2>1. t \in used' /\ (t \notin used \/ (t \in issued /\ pc'[d] = "load" /\ Doomed(d)'))
      BY <1>2 DEF Opens
    <2>2. t \notin used => \A e \in Client : t \notin Offered(e)
      BY <1>1 DEF Pending
    <2> QED
      BY <1>1, <1>2, <2>1, <2>2, OthersOffer
  <1>3. CASE d # c
    <2>1. t \in Offered(d) /\ Doomed(d)' = Doomed(d) /\ pc'[d] = pc[d]
      BY <1>3, OthersOffer
    <2>2. CASE t \in issued
      BY <1>1, <2>1, <2>2 DEF Pending
    <2>3. CASE t \notin issued
      <3>1. t \in used /\ \A e \in Client \ {d} : t \notin Offered(e)
        BY <1>1, <2>1, <2>3 DEF Pending
      <3>2. t \notin Offered(c)'
        BY <2>3, <3>1 DEF Opens
      <3> QED
        BY <1>1, <2>3, <3>1, <3>2, OthersOffer
    <2> QED
      BY <2>2, <2>3
  <1> QED
    BY <1>2, <1>3

LEMMA OpenKeeps ==
  ASSUME Core, NEW c \in Client, Opens(c)
  PROVE  Core'
  <1>1. UNCHANGED <<tokens, issued, redeemed>>
    BY DEF Opens
  <1>2. ASSUME NEW d \in Client, NEW t \in TokenValue PROVE Held(d, t)'
    <2>1. Held(d, t) /\ \A e \in Client : Holds(e, t)' => e # c /\ Holds(e, t)
      BY OthersOffer DEF Core, Opens
    <2> QED
      BY <1>1, <2>1 DEF Held, Usable
  <1>3. ASSUME NEW t \in TokenValue PROVE Spent(t)'
    <2>1. Spent(t)
      BY DEF Core
    <2> QED
      BY <1>1, <2>1 DEF Spent, OneTimeStored, Usable
  <1> QED
    BY <1>2, <1>3, OpenTyped, OpenDisjoint, OpenAccessIsNew, OpenPending DEF Core

LEMMA TickKeeps ==
  ASSUME Core, UNCHANGED setup, Tick
  PROVE  Core'
  <1>1. /\ now \in Nat /\ now' = now + 1 /\ Typed
        /\ UNCHANGED <<setup, pc, loc, issued, redeemed, used>>
        /\ tokens' = Drop(tokens, Stored(tokens) \ Live(tokens, now + 1))
    BY DEF Core, Typed, StoreShaped, Tick, ghost, budget
  <1>2. \A k \in Token : \/ tokens'[k] = NoEntry
                         \/ tokens'[k] = tokens[k] /\ ~IsExpired(tokens[k].state, now + 1)
    BY <1>1 DEF Drop, Live, Stored, EntryExpired
  <1>3. DOMAIN tokens' = Token
    BY <1>1 DEF Drop
  <1>4. \A d \in Client : Offered(d)' = Offered(d) /\ NewAccess(d)' = NewAccess(d)
    BY <1>1 DEF Offered, NewAccess, RotateRefreshToken
  <1>5. ASSUME NEW d \in Client, NEW t \in TokenValue, Holds(d, t)' PROVE Holds(d, t)
    <2>1. CASE loc[d].op = "Refresh" /\ loc[d].ref = t /\ pc[d] \notin Before
      BY <2>1 DEF Holds
    <2>2. CASE /\ pc[d] = "judgeNonce" /\ loc[d].nonce = t
               /\ loc[d].snap.kind = "nonce" /\ IsActive(loc[d].snap, now + 1)
      <3>1. loc[d].snap.expiresAt \in Deadline
        BY <1>1, <2>2 DEF Typed, Located, StateShaped, StateFields
      <3>2. IsActive(loc[d].snap, now)
        BY <1>1, <2>2, <3>1 DEF IsActive, IsExpired, Passed, Deadline, Never
      <3> QED
        BY <2>2, <3>2 DEF Holds
    <2> QED
      BY <1>1, <1>5, <2>1, <2>2 DEF Holds
  <1>6. \A t \in TokenValue : OneTimeStored(t)' => OneTimeStored(t)
    BY <1>2, KeysDiffer DEF OneTimeStored
  <1>7. \A t \in TokenValue : Usable(StoreKey(t))' => Usable(StoreKey(t))
    BY <1>2, KeysDiffer DEF Usable
  <1>8. Typed'
    <2>1. StoreShaped'
      <3>1. now' \in Nat
        BY <1>1
      <3>2. ASSUME NEW k \in Token, tokens'[k] # NoEntry
            PROVE  /\ EntryShaped(tokens'[k])
                   /\ tokens'[k].state.access \in {StoreKey(t) : t \in used} \cup {NoKey}
                   /\ k \in {StoreKey(t) : t \in used}
                   /\ ~IsExpired(tokens'[k].state, now')
                   /\ tokens'[k].state.status # "active" => tokens'[k].state.kind \in OneTime
        BY <1>1, <1>2, <3>2 DEF Typed, StoreShaped
      <3> QED
        BY <1>1, <1>3, <3>1, <3>2 DEF StoreShaped
    <2>2. \A d \in Client : Located(d)'
      BY <1>1, <1>4 DEF Typed, Located, RotateRefreshToken
    <2> QED
      BY <1>1, <1>6, <2>1, <2>2 DEF Typed, ReuseArgs
  <1>9. ASSUME NEW d \in Client PROVE Pending(d)'
    <2>1. loc[d].op = "Refresh" /\ Doomed(d) => Doomed(d)'
      <3>1. loc[d].op = "Refresh" => StoreKey(loc[d].ref) \in Token
        BY <1>1, KeysDiffer DEF Typed, Located
      <3> QED
        BY <1>1, <1>2, <3>1 DEF Doomed
    <2>2. pc[d] \in {"load", "claim"} => loc[d].op = "Refresh"
      BY <1>1 DEF Typed, Located
    <2> QED
      BY <1>1, <1>4, <2>1, <2>2 DEF Core, Pending
  <1>10. Disjoint' /\ AccessIsNew'
    <2>1. \A t \in TokenValue : IsOneTime(t)' => IsOneTime(t)
      BY <1>1, <1>4, <1>5, <1>6 DEF IsOneTime
    <2>2. Disjoint'
      BY <1>2, <1>4, <2>1 DEF Core, Disjoint
    <2>3. AccessIsNew'
      BY <1>1, <1>4 DEF Core, AccessIsNew, AliasArgs
    <2> QED
      BY <2>2, <2>3
  <1>11. \A d \in Client, t \in TokenValue : Held(d, t)'
    BY <1>1, <1>5, <1>7 DEF Core, Held
  <1>12. \A t \in TokenValue : Spent(t)'
    BY <1>1, <1>6, <1>7 DEF Core, Spent
  <1> QED
    BY <1>8, <1>9, <1>10, <1>11, <1>12 DEF Core

LEMMA QuietKeeps ==
  ASSUME Core, UNCHANGED <<setup, now, tokens, pc, loc, issued, used, redeemed>>
  PROVE  Core'
  <1>1. Typed' = Typed
    BY DEF Typed, ReuseArgs, StoreShaped, OneTimeStored, Located, NewAccess, RotateRefreshToken
  <1>2. \A c \in Client : Pending(c)' = Pending(c)
    BY DEF Pending, Offered, Doomed, RotateRefreshToken
  <1>3. Disjoint' = Disjoint /\ AccessIsNew' = AccessIsNew
    BY DEF Disjoint, IsOneTime, OneTimeStored, Holds, Offered, NewAccess, RotateRefreshToken,
           AccessIsNew, AliasArgs
  <1>4. \A c \in Client, t \in TokenValue : Held(c, t)' = Held(c, t)
    BY DEF Held, Holds, Usable
  <1>5. \A t \in TokenValue : Spent(t)' = Spent(t)
    BY DEF Spent, OneTimeStored, Usable
  <1> QED
    BY <1>1, <1>2, <1>3, <1>4, <1>5 DEF Core

-----------------------------------------------------------------------------
(* The theorems.                                                           *)

LEMMA InitInv ==
  ASSUME Init, Atomic, ~ReuseArgs
  PROVE  Inv
  <1>1. \A k \in Token : tokens[k] = NoEntry
    BY DEF Init
  <1>2. \A c \in Client : pc[c] = "idle" /\ loc[c] = Blank
    BY DEF Init
  <1>3. Blank.op = "none" /\ Blank.at = 0
    BY DEF Blank
  <1>4. \A c \in Client : NewAccess(c) = {} /\ Offered(c) = {}
    BY <1>2, <1>3 DEF NewAccess, Offered, Issuing, LoginOps
  <1>5. \A c \in Client, t \in TokenValue : ~Holds(c, t)
    BY <1>2 DEF Holds, Before
  <1>6. \A t \in TokenValue : ~OneTimeStored(t)
    BY <1>1, KeysDiffer DEF OneTimeStored
  <1>7. Typed
    <2>1. \A c \in Client : Located(c)
      BY <1>2, <1>3, <1>4 DEF Located
    <2>2. StoreShaped
      BY <1>1 DEF Init, StoreShaped
    <2> QED
      BY <1>6, <2>1, <2>2 DEF Init, Typed
  <1>8. \A t \in TokenValue : Spent(t)
    BY DEF Init, Spent
  <1>9. \A t \in TokenValue : redeemed[t] # 1
    BY DEF Init
  <1> QED
    BY <1>4, <1>5, <1>6, <1>7, <1>8, <1>9 DEF Inv, Core, Pending, Disjoint, AccessIsNew, IsOneTime, Held

\* How a step of the system carries on, whichever it is.
Carries ==
  \/ UNCHANGED <<setup, now, tokens, pc, loc, issued, used, redeemed>>
  \/ Tick
  \/ \E c \in Client : Opens(c) \/ Advances(c)

LEMMA NextCarries ==
  ASSUME Inv, [Next]_vars
  PROVE  UNCHANGED setup /\ Carries
  <1>1. UNCHANGED setup
    BY DEF Next, vars
  <1>2. Typed /\ Atomic
    BY DEF Inv, Core
  <1>3. CASE Tick
    BY <1>1, <1>3 DEF Carries
  <1>4. ASSUME NEW c \in Client, Start(c) PROVE Carries
    BY <1>1, <1>2, <1>4, StartOpens DEF Carries
  <1>5. ASSUME NEW c \in Client, Step(c) PROVE Carries
    BY <1>1, <1>2, <1>5, StepAdvances DEF Carries
  <1>6. ASSUME NEW c \in Client, Crash(c) PROVE Carries
    BY <1>1, <1>2, <1>6, CrashAdvances DEF Carries
  <1>7. ASSUME NEW c \in Client, Cancel(c) PROVE Carries
    BY <1>1, <1>7 DEF Cancel, store, ghost, Carries
  <1>8. CASE UNCHANGED vars
    BY <1>8 DEF vars, store, ghost, budget, Carries
  <1> QED
    BY <1>1, <1>3, <1>4, <1>5, <1>6, <1>7, <1>8 DEF Next

LEMMA NextInv ==
  ASSUME Inv, [Next]_vars
  PROVE  Inv'
  <1>1. UNCHANGED setup /\ Carries
    BY NextCarries
  <1>2. Core /\ Atomic'
    BY <1>1 DEF Inv, Atomic
  <1>3. Core'
    BY <1>1, <1>2, TickKeeps, QuietKeeps, OpenKeeps, StepKeeps DEF Carries
  <1> QED
    BY <1>2, <1>3 DEF Inv

LEMMA CarefulCallers == ~AliasArgs => ~ReuseArgs
BY DEF AliasArgs, ReuseArgs

LEMMA InvHolds == Spec /\ Atomic /\ ~ReuseArgs => []Inv
  <1>1. Init /\ Atomic /\ ~ReuseArgs => Inv
    BY InitInv
  <1>2. Inv /\ [Next]_vars => Inv'
    BY NextInv
  <1> QED
    BY <1>1, <1>2, PTL DEF Spec

\* A nonce, and under rotation a refresh token, is redeemed at most once, whatever is
\* presented at the same time, retried, cancelled or interrupted by a crash: the
\* atomic consumption decides (ConsumeNonce, RefreshAccessToken).
THEOREM OneTimeRedeemedOnce == Spec /\ Atomic /\ ~ReuseArgs => []RedeemedOnce
  <1>1. Inv => RedeemedOnce
    BY DEF Inv, Core, Spent, RedeemedOnce
  <1> QED
    BY <1>1, InvHolds, PTL

\* Of all refreshes that present the same refresh token at most one gets past the
\* claim, and while it is there nobody can use the token.
THEOREM RefreshClaimExclusive == Spec /\ Atomic /\ ~ReuseArgs => []ClaimExclusive
  <1>1. Inv => ClaimExclusive
    <2> SUFFICES ASSUME Core PROVE ClaimExclusive
      BY DEF Inv
    <2>1. \A c \in Client, r \in TokenValue : Claimed(c, r) => Holds(c, r)
      BY DEF Claimed, Holds, Before
    <2>2. issued \subseteq TokenValue
      BY DEF Core, Typed
    <2> QED
      BY <2>1, <2>2 DEF Core, Held, ClaimExclusive
  <1> QED
    BY <1>1, InvHolds, PTL

\* A token that is not active any more is revoked, removed, or, when it was consumed
\* by a reusable refresh, released by the request that claimed it: no renewal, mark or
\* release brings a revoked token back (updateTokenState, releaseRefreshClaim).
THEOREM RevocationIsFinal == Spec /\ Atomic /\ ~ReuseArgs => RevocationFinal
  <1> DEFINE Final ==
        \A k \in Stored(tokens) \ Recycled :
          tokens[k].state.status # "active" /\ tokens'[k] # NoEntry
            /\ tokens'[k].state.status # tokens[k].state.status =>
              \/ tokens'[k].state.status = "revoked"
              \/ /\ tokens[k].state.status = "consumed"
                 /\ ~RotateRefreshToken
                 /\ \E c \in Client : /\ pc[c] \in {"saveNext", "restore"}
                                      /\ StoreKey(loc[c].ref) = k
  <1>1. ASSUME Inv, [Next]_vars PROVE [Final]_vars
    <2>1. Carries /\ Core
      BY <1>1, NextCarries DEF Inv
    <2>2. CASE UNCHANGED tokens
      BY <2>2
    <2>3. CASE Tick
      BY <2>3 DEF Tick, Drop, Stored
    <2>4. ASSUME NEW c \in Client, Advances(c), NEW k \in Stored(tokens),
                 tokens[k].state.status # "active", tokens'[k] # NoEntry,
                 tokens'[k].state.status # tokens[k].state.status,
                 tokens'[k].state.status # "revoked"
          PROVE  PutBack(c, k)
      <3>1. k \in Token /\ tokens[k] # NoEntry
        BY DEF Stored
      <3>2. PICK t \in TokenValue : k = StoreKey(t)
        BY <3>1 DEF Token
      <3>3. OneTimeStored(t) /\ t \in issued
        BY <2>1, <2>4, <3>1, <3>2 DEF Core, Typed, StoreShaped, OneTimeStored
      <3>4. ~PutAccess(c, k)
        BY <2>1, <3>2, <3>3, KeysDiffer DEF Core, Disjoint, IsOneTime, PutAccess, NewAccess
      <3>5. ~PutOneTime(c, k)
        BY <2>1, <3>1, <3>2, <3>3, StoringIsNew
      <3>6. ~Kept(k)
        BY <2>4 DEF Kept
      <3> QED
        BY <2>4, <3>1, <3>4, <3>5, <3>6 DEF Advances, Effect
    <2>5. ASSUME NEW c \in Client, Advances(c) PROVE Final
      BY <2>4, <2>5 DEF PutBack
    <2> QED
      BY <2>1, <2>2, <2>3, <2>5 DEF Carries, Opens
  <1> QED
    BY <1>1, InvHolds, PTL DEF Spec, RevocationFinal

\* A token that was handed out and is gone is never stored again, as long as callers
\* bring new tokens: what a logout, a revocation or an expiry removed stays removed.
THEOREM GoneForGood == Spec /\ Atomic /\ ~AliasArgs => NeverResurrected
  <1> DEFINE Gone == \A t \in issued \ recycled :
                       tokens[StoreKey(t)] = NoEntry => tokens'[StoreKey(t)] = NoEntry
  <1>1. ASSUME Inv, ~AliasArgs, [Next]_vars PROVE [Gone]_vars /\ ~AliasArgs'
    <2>1. Carries /\ Core /\ UNCHANGED setup
      BY <1>1, NextCarries DEF Inv
    <2>2. ASSUME UNCHANGED tokens PROVE Gone
      BY <2>2
    <2>3. \A t \in issued : StoreKey(t) \in Token
      BY <2>1, KeysDiffer DEF Core, Typed
    <2>4. ASSUME Tick PROVE Gone
      BY <2>3, <2>4 DEF Tick, Drop
    <2>5. ASSUME NEW c \in Client, Advances(c) PROVE Gone
      <3> SUFFICES ASSUME NEW t \in issued, tokens[StoreKey(t)] = NoEntry
                   PROVE  tokens'[StoreKey(t)] = NoEntry
        OBVIOUS
      <3>1. ~PutAccess(c, StoreKey(t))
        BY <1>1, <2>1, KeysDiffer DEF Core, AccessIsNew, PutAccess, NewAccess
      <3>2. ~PutOneTime(c, StoreKey(t))
        BY <2>1, <2>3, <2>5, StoringIsNew
      <3> QED
        BY <2>3, <2>5, <3>1, <3>2 DEF Advances, Effect, Kept, PutBack
    <2> QED
      BY <1>1, <2>1, <2>2, <2>4, <2>5 DEF Carries, Opens, AliasArgs
  <1> QED
    BY <1>1, CarefulCallers, InvHolds, PTL DEF Spec, NeverResurrected

-----------------------------------------------------------------------------
(* Rotation.                                                               *)

\* What a stored refresh token descends from has been redeemed, for it alone.
Descends(j) ==
  LET from == tokens[j].state.rotatedFrom IN
  from # NoKey =>
    /\ \E t \in TokenValue : from = StoreKey(t) /\ redeemed[t] = 1
    /\ \A k \in Stored(tokens) : tokens[k].state.rotatedFrom = from => k = j

Rotated == \A j \in Stored(tokens) : Descends(j)

LEMMA RedeemedStays ==
  ASSUME Core, NEW c \in Client, Advances(c), NEW t \in TokenValue, redeemed[t] = 1
  PROVE  redeemed'[t] = 1
BY RedeemsOnlyHeld DEF Core, Held

\* A stored token was there and has the predecessor it had, or a refresh stores it.
LEMMA Predecessor ==
  ASSUME Core, NEW c \in Client, Advances(c), NEW j \in Stored(tokens)',
         tokens'[j].state.rotatedFrom # NoKey
  PROVE  \/ /\ j \in Stored(tokens)
            /\ tokens'[j].state.rotatedFrom = tokens[j].state.rotatedFrom
         \/ Succeeds(c, j) /\ \E t \in Offered(c) : j = StoreKey(t)
  <1>1. j \in Token /\ tokens'[j] # NoEntry
    BY DEF Stored
  <1> QED
    BY <1>1 DEF Advances, Effect, Stored, Kept, PutAccess, PutOneTime, PutBack, SameBearer

LEMMA OneOffered ==
  ASSUME NEW c \in Client, NEW t \in Offered(c), NEW u \in Offered(c)
  PROVE  t = u
BY DEF Offered

LEMMA StepRotated ==
  ASSUME Core, Rotated, NEW c \in Client, Advances(c)
  PROVE  Rotated'
  <1> SUFFICES ASSUME NEW j \in Stored(tokens)', tokens'[j].state.rotatedFrom # NoKey
               PROVE  Descends(j)'
    BY DEF Rotated, Descends
  <1> DEFINE from == tokens'[j].state.rotatedFrom
  <1>1. ASSUME Succeeds(c, j)
        PROVE  /\ loc[c].ref \in TokenValue /\ from = StoreKey(loc[c].ref)
               /\ redeemed[loc[c].ref] = 0 /\ redeemed'[loc[c].ref] = 1
    <2>1. loc[c].ref \in TokenValue /\ DOMAIN redeemed = TokenValue
      BY <1>1 DEF Core, Typed, Located, Succeeds, Holds
    <2>2. redeemed[loc[c].ref] = 0
      BY <1>1, <2>1 DEF Core, Held, Succeeds
    <2> QED
      BY <1>1, <2>1, <2>2 DEF Succeeds, Redeem
  <1>2. ASSUME NEW k \in Stored(tokens), tokens[k].state.rotatedFrom # NoKey
        PROVE  \E t \in TokenValue : /\ tokens[k].state.rotatedFrom = StoreKey(t)
                                     /\ redeemed[t] = 1 /\ redeemed'[t] = 1
    BY <1>2, RedeemedStays DEF Rotated, Descends
  <1>3. \E t \in TokenValue : from = StoreKey(t) /\ redeemed'[t] = 1
    BY <1>1, <1>2, Predecessor
  <1>4. ASSUME NEW k \in Stored(tokens)', tokens'[k].state.rotatedFrom = from PROVE k = j
    <2>1. CASE Succeeds(c, j) /\ \E t \in Offered(c) : j = StoreKey(t)
      <3>1. ~(k \in Stored(tokens) /\ tokens[k].state.rotatedFrom = from)
        BY <1>1, <1>2, <2>1, KeysDiffer
      <3> QED
        BY <1>4, <2>1, <3>1, Predecessor, OneOffered
    <2>2. CASE j \in Stored(tokens) /\ tokens[j].state.rotatedFrom = from
      <3>1. ~Succeeds(c, k)
        <4>1. ASSUME Succeeds(c, k) PROVE FALSE
          <5>1. loc[c].ref \in TokenValue /\ from = StoreKey(loc[c].ref)
            BY <1>4, <4>1 DEF Core, Typed, Located, Succeeds, Holds
          <5>2. redeemed[loc[c].ref] = 0
            BY <4>1, <5>1 DEF Core, Held, Succeeds
          <5> QED
            BY <1>2, <2>2, <5>1, <5>2, KeysDiffer
        <4> QED
          BY <4>1
      <3>2. k \in Stored(tokens) /\ tokens[k].state.rotatedFrom = from
        BY <1>4, <3>1, Predecessor
      <3> QED
        BY <2>2, <3>2 DEF Rotated, Descends
    <2> QED
      BY <2>1, <2>2, Predecessor
  <1> QED
    BY <1>3, <1>4 DEF Descends

LEMMA NextRotated ==
  ASSUME Inv, Rotated, [Next]_vars
  PROVE  Rotated'
  <1>1. Carries /\ Core
    BY NextCarries DEF Inv
  <1>2. CASE UNCHANGED <<tokens, redeemed>>
    BY <1>2 DEF Rotated, Descends, Stored
  <1>3. CASE Tick
    <2>1. UNCHANGED redeemed /\ \E K : tokens' = Drop(tokens, K)
      BY <1>3 DEF Tick, ghost
    <2>2. \A j \in Stored(tokens)' : j \in Stored(tokens) /\ tokens'[j] = tokens[j]
      BY <2>1 DEF Drop, Stored
    <2> QED
      BY <2>1, <2>2 DEF Rotated, Descends
  <1> QED
    BY <1>1, <1>2, <1>3, StepRotated DEF Carries, Opens

\* Rotation is a chain: the predecessor of a stored refresh token is unusable, and it
\* has no other successor, whichever refreshes raced for it.  The callers may offer the
\* presented token or its access token as the next one, because Refresh refuses both; an
\* earlier token of the chain it would save over (Manager.Refresh, SaveRotated).
THEOREM RotationLinear == Spec /\ Atomic /\ ~ReuseArgs => []RotationIsLinear
  <1>1. Init => Rotated
    BY DEF Init, Rotated, Stored
  <1>2. Inv /\ Rotated => RotationIsLinear
    BY DEF Inv, Core, Spent, Rotated, Descends, RotationIsLinear
  <1> QED
    BY <1>1, <1>2, InvHolds, NextRotated, PTL DEF Spec

-----------------------------------------------------------------------------
(* Nothing is left behind.                                                  *)

\* A request that has stored its access token and not yet returned it.
Bearing == {"session", "saveRefresh", "saveNext", "rollback"}
Bears(c, t) == pc[c] \in Bearing /\ t \in NewAccess(c)

\* What is stored was handed out, or is on its way to the caller.
Owned ==
  Undisturbed =>
    \A t \in TokenValue :
      tokens[StoreKey(t)] # NoEntry /\ t \notin issued => \E c \in Client : Bears(c, t)

\* A refresh token and a flow that logs in have a subject: the session call does not fail.
HasSubject(c) == loc[c].op \in Issuing /\ pc[c] \notin Before => loc[c].subject # NoSubject

Subjected ==
  /\ \A k \in Stored(tokens) :
       tokens[k].state.kind = "refresh" => tokens[k].state.subject # NoSubject
  /\ \A c \in Client : HasSubject(c)

\* Until something is cancelled, no context is done.
Counted ==
  /\ {faults, cancels, crashes} \subseteq Nat
  /\ DOMAIN ctx = Client
  /\ cancels = 0 => \A c \in Client : ctx[c] = "live"

Quiet == Owned /\ Subjected /\ Counted

\* A step that keeps a request going changes its subject only where it reads a token.
LEMMA SubjectStays ==
  ASSUME Typed, NEW c \in Client, Step(c), Atomic, loc[c].op \in Issuing
  PROVE  \/ loc'[c] = Blank
         \/ /\ loc'[c].subject = loc[c].subject
            /\ pc[c] \notin Before \/ pc'[c] \in Before
         \/ /\ tokens[StoreKey(loc[c].ref)] # NoEntry
            /\ tokens[StoreKey(loc[c].ref)].state.kind = "refresh"
            /\ loc'[c].subject = tokens[StoreKey(loc[c].ref)].state.subject
            /\ loc[c].ref \in TokenValue
  <1> DEFINE Same == loc'[c].subject = loc[c].subject
  <1>1. DOMAIN loc = Client /\ DOMAIN pc = Client /\ Located(c)
    BY DEF Typed
  <1>2. \A locals : (\E label : Go(c, label, locals)) => loc'[c] = locals
    BY <1>1 DEF Go
  <1>3. Leave(c) => loc'[c] = Blank
    BY <1>1 DEF Leave
  <1>4. CASE LoginStep(c)
    <2>1. pc[c] \notin Before
      BY <1>4 DEF LoginStep, SaveNonce, PeekNonce, ConsumeNonceState, JudgeNonce, Replace,
                  ReplaceRefresh, FindOthers, DeleteOthers, SaveAccess, SyncSession, SaveRefresh,
                  Calls, Before
    <2>2. loc'[c] = Blank \/ Same
      <3>1. CASE SaveNonce(c) \/ SaveRefresh(c) \/ PeekNonce(c) \/ ConsumeNonceState(c)
        BY <1>2, <1>3, <3>1, Fields DEF SaveNonce, SaveRefresh, PeekNonce, ConsumeNonceState,
                                        Succeed, Fail
      <3>2. CASE JudgeNonce(c)
        BY <1>1, <1>3, <3>2, Fields DEF JudgeNonce, Fail
      <3>3. CASE Replace(c) \/ ReplaceRefresh(c) \/ FindOthers(c) \/ DeleteOthers(c) \/ SaveAccess(c)
        BY <1>2, <3>3, Fields DEF Replace, ReplaceRefresh, FindOthers, DeleteOthers, SaveAccess
      <3>4. CASE SyncSession(c)
        BY <1>2, <1>3, <3>4 DEF SyncSession, Succeed, Fail
      <3> QED
        BY <1>4, <3>1, <3>2, <3>3, <3>4 DEF LoginStep
    <2> QED
      BY <2>1, <2>2
  <1>5. CASE RefreshStep(c)
    <2>1. CASE LoadRefresh(c)
      <3>1. \/ Fail(c)
            \/ Go(c, "claim", [loc[c] EXCEPT !.snap = tokens[StoreKey(loc[c].ref)].state,
                                             !.cur = StoreKey(loc[c].ref)])
        BY <2>1 DEF LoadRefresh, ClaimEntry
      <3>2. ASSUME NEW locals, Go(c, "claim", locals) PROVE pc'[c] = "claim"
        BY <1>1, <3>2 DEF Go
      <3> QED
        BY <1>2, <1>3, <3>1, <3>2, Fields DEF Fail, Before
    <2>2. CASE ClaimRefresh(c)
      <3>1. loc[c].op = "Refresh" /\ loc[c].ref \in TokenValue
        BY <1>1, <2>2 DEF ClaimRefresh, Calls, Located, Typed
      <3>2. \/ Fail(c)
            \/ /\ tokens[StoreKey(loc[c].ref)] # NoEntry
               /\ UsableRefresh(tokens[StoreKey(loc[c].ref)].state)
               /\ \E label : Go(c, label, [loc[c] EXCEPT !.snap = tokens[StoreKey(loc[c].ref)].state,
                                    !.subject = tokens[StoreKey(loc[c].ref)].state.subject])
        BY <2>2 DEF ClaimRefresh
      <3> QED
        BY <1>2, <1>3, <3>1, <3>2, Fields DEF UsableRefresh, Fail
    <2>3. CASE ClaimExpired(c)
      BY <1>3, <2>3 DEF ClaimExpired, Fail
    <2>4. CASE RevokeOldAccess(c) \/ SaveReused(c) \/ Rollback(c) \/ RestoreRefresh(c)
      <3>1. pc[c] \notin Before
        BY <2>4 DEF RevokeOldAccess, SaveReused, Rollback, RestoreRefresh, Calls, Before
      <3> QED
        BY <1>2, <1>3, <2>4, <3>1 DEF RevokeOldAccess, SaveReused, Rollback, RestoreRefresh, GiveUp,
                                      Succeed, Fail
    <2>5. CASE SaveRotated(c)
      BY <1>3, <2>5 DEF SaveRotated
    <2>6. ~PeekRefresh(c)
      BY <1>1 DEF PeekRefresh, Calls, Located
    <2> QED
      BY <1>5, <2>1, <2>2, <2>3, <2>4, <2>5, <2>6 DEF RefreshStep
  <1>6. CASE CallError(c)
    <2>1. loc'[c] = Blank \/ (UNCHANGED loc /\ pc[c] \notin Before)
      BY <1>1, <1>3, <1>6 DEF CallError, OwesRelease, Before
    <2> QED
      BY <2>1
  <1>7. CASE AccessStep(c)
    <2>1. CASE EvictExpired(c)
      BY <1>3, <2>1 DEF EvictExpired, Fail
    <2>2. CASE AccessStep(c) /\ ~EvictExpired(c)
      <3>1. pc[c] \notin Before
        BY <2>2 DEF AccessStep, Get, Update, DeleteAccess, FindLinked, DeleteLinked,
                    FindDevice, DeleteOnDevice, LogoutAccess, LogoutRefresh, DropSession, RevokeAll,
                    GetRefresh, Revoke, Calls, Before
      <3>2. ~Get(c)
        BY <1>1 DEF Get, Calls, Located, LookupOps, Issuing, LoginOps
      <3>3. CASE Update(c) \/ DeleteAccess(c) \/ FindDevice(c) \/ LogoutAccess(c)
                 \/ LogoutRefresh(c) \/ DropSession(c) \/ RevokeAll(c) \/ GetRefresh(c) \/ Revoke(c)
        BY <1>2, <1>3, <3>1, <3>3, Fields
           DEF Update, DeleteAccess, FindDevice, LogoutAccess,
               LogoutRefresh, DropSession, RevokeAll, GetRefresh, Revoke, Succeed, Fail
      <3>4. CASE FindLinked(c) \/ DeleteLinked(c)
        <4>1. PICK todo : LinkedDone(c, todo)
          BY <3>4 DEF FindLinked, DeleteLinked
        <4> QED
          BY <1>2, <1>3, <3>1, <4>1, Fields DEF LinkedDone, Succeed
      <3>5. ~DeleteOnDevice(c)
        BY DEF DeleteOnDevice, Issuing, LoginOps
      <3> QED
        BY <2>2, <3>2, <3>3, <3>4, <3>5 DEF AccessStep
    <2> QED
      BY <1>7, <2>1, <2>2
  <1> QED
    BY <1>4, <1>5, <1>6, <1>7 DEF Step

LEMMA BlankHasSubject ==
  ASSUME NEW c \in Client, loc'[c] = Blank
  PROVE  HasSubject(c)'
BY DEF HasSubject, Blank, Issuing, LoginOps

LEMMA StepSubjected ==
  ASSUME Core, Atomic, Subjected, NEW c \in Client, Advances(c),
         loc'[c] = Blank \/ Step(c)
  PROVE  Subjected'
  <1>1. HasSubject(c)'
    <2>1. CASE loc'[c] = Blank
      BY <2>1, BlankHasSubject
    <2>2. CASE loc'[c] # Blank
      <3>1. SameTokens(c) /\ Step(c)
        BY <2>2 DEF Advances, Leaves, Stays
      <3> SUFFICES ASSUME loc'[c].op \in Issuing, pc'[c] \notin Before
                   PROVE  loc'[c].subject # NoSubject
        BY DEF HasSubject
      <3>2. loc[c].op \in Issuing
        BY <3>1 DEF SameTokens
      <3>3. CASE loc'[c].subject = loc[c].subject /\ pc[c] \notin Before
        BY <3>2, <3>3 DEF Subjected, HasSubject
      <3>4. CASE /\ tokens[StoreKey(loc[c].ref)] # NoEntry
                 /\ tokens[StoreKey(loc[c].ref)].state.kind = "refresh"
                 /\ loc'[c].subject = tokens[StoreKey(loc[c].ref)].state.subject
                 /\ loc[c].ref \in TokenValue
        <4>1. StoreKey(loc[c].ref) \in Stored(tokens)
          BY <3>4, KeysDiffer DEF Stored, Core, Typed, StoreShaped
        <4> QED
          BY <3>4, <4>1 DEF Subjected
      <3> QED
        BY <2>2, <3>1, <3>2, <3>3, <3>4, SubjectStays DEF Core
    <2> QED
      BY <2>1, <2>2
  <1>2. ASSUME NEW d \in Client \ {c} PROVE HasSubject(d)'
    BY <1>2 DEF Subjected, HasSubject, Advances, Frame
  <1>3. ASSUME NEW k \in Stored(tokens)', tokens'[k].state.kind = "refresh"
        PROVE  tokens'[k].state.subject # NoSubject
    <2>1. k \in Token /\ tokens'[k] # NoEntry
      BY DEF Stored, Advances, Effect
    <2>2. CASE /\ tokens[k] # NoEntry /\ tokens[k].state.kind = "refresh"
               /\ tokens'[k].state.subject = tokens[k].state.subject
      BY <2>1, <2>2 DEF Subjected, Stored, Core, Typed, StoreShaped
    <2>3. CASE PutOneTime(c, k)
      BY <1>3, <2>3 DEF PutOneTime, Subjected, HasSubject
    <2>4. ~PutAccess(c, k)
      BY <1>3 DEF PutAccess
    <2> QED
      BY <1>3, <2>1, <2>2, <2>3, <2>4 DEF Advances, Effect, Kept, PutBack, SameBearer
  <1> QED
    BY <1>1, <1>2, <1>3 DEF Subjected

\* A flow that has stored its access token returns it or deletes it, unless a call fails.
LEMMA BearerDelivers ==
  ASSUME Core, Atomic, Counted, NEW c \in Client, HasSubject(c), Step(c), Advances(c),
         Undisturbed', NEW t \in TokenValue, Bears(c, t)
  PROVE  t \in issued' \/ Bears(c, t)' \/ tokens'[StoreKey(t)] = NoEntry
  <1>1. /\ DOMAIN loc = Client /\ DOMAIN pc = Client /\ Located(c)
        /\ StoreKey(t) \in Token /\ DOMAIN tokens = Token
    BY KeysDiffer DEF Core, Typed, StoreShaped
  <1>2. /\ t = loc[c].acc /\ loc[c].op \in Issuing /\ pc[c] \in Bearing
        /\ pc[c] \notin Before /\ loc[c].subject # NoSubject
    BY DEF Bears, NewAccess, Bearing, Before, HasSubject
  <1>3. ASSUME NEW label \in Bearing, NEW locals, Go(c, label, locals) PROVE Bears(c, t)'
    <2>1. pc'[c] = label
      BY <1>1, <1>3 DEF Go
    <2>2. SameTokens(c)
      BY <2>1 DEF Advances, Leaves, Stays, Bearing
    <2> QED
      BY <1>2, <2>1, <2>2 DEF Bears, NewAccess, SameTokens
  <1>4. ASSUME CallError(c) PROVE FALSE
    BY <1>4 DEF CallError, Undisturbed, Counted
  <1>5. CASE SyncSession(c)
    <2>1. \/ Go(c, "saveRefresh", loc[c]) \/ Go(c, "saveNext", loc[c])
          \/ Succeed(c, {loc[c].acc}, loc[c].covered)
      BY <1>2, <1>5 DEF SyncSession, Issuing, LoginOps
    <2> QED
      BY <1>2, <1>3, <2>1 DEF Succeed, Bearing
  <1>6. CASE SaveRefresh(c) \/ SaveRotated(c)
    BY <1>2, <1>6 DEF SaveRefresh, SaveRotated, Succeed
  <1>7. CASE SaveReused(c)
    BY <1>2, <1>3, <1>7 DEF SaveReused, Succeed, Bearing
  <1>8. CASE Rollback(c)
    BY <1>1, <1>2, <1>8 DEF Rollback, Drop
  <1>9. SyncSession(c) \/ SaveRefresh(c) \/ SaveRotated(c) \/ SaveReused(c) \/ Rollback(c)
    <2>1. \/ SyncSession(c) \/ SaveRefresh(c) \/ ~LoginStep(c)
      BY <1>2 DEF LoginStep, SaveNonce, PeekNonce, ConsumeNonceState, JudgeNonce, Replace,
                  ReplaceRefresh, FindOthers, DeleteOthers, SaveAccess, Calls, Bearing
    <2>2. SaveRotated(c) \/ SaveReused(c) \/ Rollback(c) \/ ~RefreshStep(c)
      BY <1>2 DEF RefreshStep, LoadRefresh, PeekRefresh, ClaimRefresh, ClaimExpired, AfterClaim,
                  LoginEntry, RevokeOldAccess, RestoreRefresh, Calls, Bearing
    <2>3. ~AccessStep(c)
      BY <1>2 DEF AccessStep, Get, EvictExpired, ClaimEntry, Update, DeleteAccess, FindLinked,
                  DeleteLinked, FindDevice, DeleteOnDevice, LogoutAccess, LogoutRefresh, DropSession,
                  RevokeAll, GetRefresh, Revoke, Calls, Bearing
    <2> QED
      BY <1>4, <2>1, <2>2, <2>3 DEF Step
  <1> QED
    BY <1>5, <1>6, <1>7, <1>8, <1>9

\* What a step does to the context of its request and to the counts of failures.
Accounts(c) ==
  /\ ctx' = ctx \/ ctx' = [ctx EXCEPT ![c] = "live"]
  /\ faults' \in {faults, faults + 1} /\ UNCHANGED <<started, recycled, cancels, crashes>>

LEMMA EndsAccount ==
  ASSUME NEW c \in Client
  PROVE  /\ Fail(c) => Accounts(c)
         /\ \A label, locals : Go(c, label, locals) => Accounts(c)
         /\ \A new, gone : Succeed(c, new, gone) => Accounts(c)
         /\ Leave(c) /\ UNCHANGED budget => Accounts(c)
BY DEF Fail, Go, Succeed, Leave, budget, Accounts

LEMMA StepAccounts ==
  ASSUME NEW c \in Client, Step(c)
  PROVE  Accounts(c)
  <1>1. CASE LoginStep(c)
    <2>1. CASE JudgeNonce(c)
      BY <2>1, EndsAccount DEF JudgeNonce, Accounts, budget
    <2>2. CASE LoginStep(c) /\ ~JudgeNonce(c)
      BY <2>2, EndsAccount DEF LoginStep, SaveNonce, PeekNonce, ConsumeNonceState, Replace,
                ReplaceRefresh, FindOthers, DeleteOthers, SaveAccess, SyncSession, SaveRefresh
    <2> QED
      BY <1>1, <2>1, <2>2
  <1>2. CASE RefreshStep(c)
    BY <1>2, EndsAccount DEF RefreshStep, LoadRefresh, PeekRefresh, ClaimRefresh, ClaimExpired,
              RevokeOldAccess, SaveRotated, SaveReused, Rollback, RestoreRefresh, GiveUp
  <1>3. CASE AccessStep(c)
    BY <1>3, EndsAccount DEF AccessStep, Get, EvictExpired, Update, DeleteAccess, FindLinked,
              DeleteLinked, LinkedDone, FindDevice, DeleteOnDevice, LogoutAccess, LogoutRefresh,
              DropSession, RevokeAll, GetRefresh, Revoke
  <1>4. CASE CallError(c)
    BY <1>4 DEF CallError, Leave, Accounts
  <1> QED
    BY <1>1, <1>2, <1>3, <1>4 DEF Step

LEMMA StepCounted ==
  ASSUME Counted, NEW c \in Client, Step(c)
  PROVE  Counted' /\ (Undisturbed' => Undisturbed)
BY StepAccounts DEF Counted, Accounts, Undisturbed

LEMMA StepOwned ==
  ASSUME Core, Atomic, Quiet, NEW c \in Client, Step(c), Advances(c),
         Undisturbed, Undisturbed'
  PROVE  Owned'
  <1> SUFFICES ASSUME NEW t \in TokenValue, tokens'[StoreKey(t)] # NoEntry, t \notin issued'
               PROVE  \E d \in Client : Bears(d, t)'
    BY DEF Owned
  <1>1. StoreKey(t) \in Token /\ t \notin issued
    BY KeysDiffer DEF Advances, Leaves, Stays
  <1>2. CASE PutAccess(c, StoreKey(t))
    <2>1. t = loc[c].acc /\ loc[c].op \in Issuing /\ pc'[c] = "session"
      BY <1>2, KeysDiffer DEF PutAccess
    <2>2. SameTokens(c)
      BY <2>1 DEF Advances, Leaves, Stays
    <2> QED
      BY <2>1, <2>2 DEF Bears, NewAccess, SameTokens, Bearing
  <1>3. CASE tokens[StoreKey(t)] # NoEntry
    <2>1. PICK d \in Client : Bears(d, t)
      BY <1>1, <1>3 DEF Quiet, Owned
    <2>2. CASE d = c
      BY <2>1, <2>2, BearerDelivers DEF Quiet, Subjected
    <2>3. CASE d # c
      BY <2>1, <2>3 DEF Bears, NewAccess, Advances, Frame
    <2> QED
      BY <2>2, <2>3
  <1>4. ~PutOneTime(c, StoreKey(t))
    BY KeysDiffer DEF PutOneTime
  <1> QED
    BY <1>1, <1>2, <1>3, <1>4 DEF Advances, Effect, Kept, PutBack

LEMMA StartCounted ==
  ASSUME NEW c \in Client, Start(c)
  PROVE  UNCHANGED <<ctx, faults, cancels, crashes>>
  <1>1. \A label, new, locals :
          Begin(c, label, new, locals) => UNCHANGED <<ctx, faults, cancels, crashes>>
    BY DEF Begin
  <1>2. ASSUME Login(c) PROVE UNCHANGED <<ctx, faults, cancels, crashes>>
    BY <1>1, <1>2, Zenon DEF Login
  <1>3. ASSUME LoginWithRefresh(c) PROVE UNCHANGED <<ctx, faults, cancels, crashes>>
    BY <1>1, <1>3, Zenon DEF LoginWithRefresh
  <1>4. ASSUME GenerateNonce(c) PROVE UNCHANGED <<ctx, faults, cancels, crashes>>
    BY <1>1, <1>4, Zenon DEF GenerateNonce
  <1>5. ASSUME Refresh(c) PROVE UNCHANGED <<ctx, faults, cancels, crashes>>
    BY <1>1, <1>5, Zenon DEF Refresh
  <1>6. ASSUME Lookup(c) \/ LogoutByLoginID(c) \/ LogoutByDevice(c) \/ ConsumeNonce(c)
        PROVE  UNCHANGED <<ctx, faults, cancels, crashes>>
    BY <1>1, <1>6, Zenon DEF Lookup, LogoutByLoginID, LogoutByDevice, ConsumeNonce
  <1>7. ASSUME RevokeRefreshToken(c) \/ RevokeRefreshByLoginID(c)
        PROVE  UNCHANGED <<ctx, faults, cancels, crashes>>
    BY <1>1, <1>7, Zenon DEF RevokeRefreshToken, RevokeRefreshByLoginID
  <1> QED
    BY <1>2, <1>3, <1>4, <1>5, <1>6, <1>7, Zenon DEF Start

\* A flow that logs in begins with a subject, or learns it from the refresh token.
LEMMA StartHasSubject ==
  ASSUME Typed, NEW c \in Client, Start(c)
  PROVE  HasSubject(c)'
  <1>1. \A label, new, locals : Begin(c, label, new, locals) => pc'[c] = label /\ loc'[c] = locals
    BY DEF Begin, Typed
  <1>2. CASE Login(c) \/ LoginWithRefresh(c)
    <2>1. CASE Login(c)
      <3>1. PICK s, d, n : s \in Subject /\
              Begin(c, IF RequireNonce THEN NonceEntry ELSE LoginEntry, {Fresh1},
                    [Blank EXCEPT !.op = "Login", !.acc = Fresh1, !.nonce = n,
                           !.subject = s, !.device = d,
                           !.covered = IF Concurrent THEN {} ELSE SubjectLogout(s)])
        BY <2>1, LoginBegins
      <3> DEFINE locals == [Blank EXCEPT !.op = "Login", !.acc = Fresh1, !.nonce = n,
                           !.subject = s, !.device = d,
                           !.covered = IF Concurrent THEN {} ELSE SubjectLogout(s)]
      <3>2. locals.subject = s
        BY DEF Blank
      <3> HIDE DEF locals
      <3>3. s # NoSubject
        BY <3>1, ManagerAssumption
      <3>4. loc'[c] = locals
        BY <1>1, <3>1 DEF locals
      <3> QED
        BY <3>2, <3>3, <3>4 DEF HasSubject
    <2>2. CASE LoginWithRefresh(c)
      <3>1. PICK s, d, n, r : s \in Subject /\
              Begin(c, IF RequireNonce THEN NonceEntry ELSE LoginEntry, {Fresh1, r},
                    [Blank EXCEPT !.op = "LoginWithRefresh", !.acc = Fresh1, !.ref = r,
                           !.nonce = n, !.subject = s, !.device = d,
                           !.covered = IF Concurrent THEN {} ELSE SubjectLogout(s)])
        BY <2>2, LoginWithRefreshBegins
      <3> DEFINE locals == [Blank EXCEPT !.op = "LoginWithRefresh", !.acc = Fresh1, !.ref = r,
                           !.nonce = n, !.subject = s, !.device = d,
                           !.covered = IF Concurrent THEN {} ELSE SubjectLogout(s)]
      <3>2. locals.subject = s
        BY DEF Blank
      <3> HIDE DEF locals
      <3>3. s # NoSubject
        BY <3>1, ManagerAssumption
      <3>4. loc'[c] = locals
        BY <1>1, <3>1 DEF locals
      <3> QED
        BY <3>2, <3>3, <3>4 DEF HasSubject
    <2> QED
      BY <1>2, <2>1, <2>2
  <1>3. CASE Refresh(c)
    <2>1. pc'[c] = "load"
      BY <1>1, <1>3 DEF Refresh
    <2> QED
      BY <2>1 DEF HasSubject, Before
  <1>4. CASE \/ Lookup(c) \/ LogoutByLoginID(c) \/ LogoutByDevice(c) \/ RevokeRefreshToken(c)
            \/ RevokeRefreshByLoginID(c) \/ GenerateNonce(c) \/ ConsumeNonce(c)
    <2>1. loc'[c].op \notin Issuing
      <3>1. ASSUME NEW op, NEW acc, NEW cur, NEW ttl, op \notin Issuing,
                   loc'[c] = [Blank EXCEPT !.op = op, !.acc = acc, !.cur = cur, !.ttl = ttl]
            PROVE  loc'[c].op \notin Issuing
        BY <3>1 DEF Blank
      <3>2. CASE Lookup(c)
        <4>1. PICK op, t, ttl :
                op \in LookupOps
                /\ loc'[c] = [Blank EXCEPT !.op = op, !.acc = t, !.cur = StoreKey(t), !.ttl = ttl]
          BY <1>1, <3>2 DEF Lookup
        <4>2. op \notin Issuing
          BY <4>1 DEF LookupOps, Issuing, LoginOps
        <4> QED
          BY <3>1, <4>1, <4>2
      <3>3. CASE LogoutByLoginID(c)
        <4>1. PICK s, drop :
                loc'[c] = [Blank EXCEPT !.op = "LogoutByLoginID", !.subject = s,
                                        !.dropSession = drop, !.covered = SubjectLogout(s)]
          BY <1>1, <3>3 DEF LogoutByLoginID
        <4> QED
          BY <4>1 DEF Blank, Issuing, LoginOps
      <3>4. CASE LogoutByDevice(c)
        <4>1. PICK s, d :
                Begin(c, "findDevice", {},
                      [Blank EXCEPT !.op = "LogoutByDevice", !.subject = s, !.device = d,
                         !.covered = {k \in IssuedTo(s, {"access"}) :
                                        tokens[k].state.device = d}])
          BY <3>4 DEF LogoutByDevice
        <4> DEFINE locals == [Blank EXCEPT !.op = "LogoutByDevice", !.subject = s, !.device = d,
                                !.covered = {k \in IssuedTo(s, {"access"}) :
                                               tokens[k].state.device = d}]
        <4>2. locals.op \notin Issuing
          BY DEF Blank, Issuing, LoginOps
        <4> HIDE DEF locals
        <4> QED
          BY <1>1, <4>1, <4>2 DEF locals
      <3>5. CASE RevokeRefreshToken(c) \/ RevokeRefreshByLoginID(c)
        <4>1. \/ \E t : loc'[c] = [Blank EXCEPT !.op = "RevokeRefreshToken", !.ref = t]
              \/ \E s : loc'[c] = [Blank EXCEPT !.op = "RevokeRefreshByLoginID", !.subject = s,
                                               !.covered = IssuedTo(s, {"refresh"})]
          BY <1>1, <3>5 DEF RevokeRefreshToken, RevokeRefreshByLoginID
        <4> QED
          BY <4>1 DEF Blank, Issuing, LoginOps
      <3>6. CASE GenerateNonce(c) \/ ConsumeNonce(c)
        <4>1. \E t : \/ loc'[c] = [Blank EXCEPT !.op = "GenerateNonce", !.nonce = t]
                     \/ loc'[c] = [Blank EXCEPT !.op = "ConsumeNonce", !.nonce = t]
          BY <1>1, <3>6, GenerateNonceBegins DEF ConsumeNonce
        <4> QED
          BY <4>1 DEF Blank, Issuing, LoginOps
      <3> QED
        BY <1>4, <3>2, <3>3, <3>4, <3>5, <3>6
    <2> QED
      BY <2>1 DEF HasSubject
  <1> QED
    BY <1>2, <1>3, <1>4 DEF Start

LEMMA NextQuiet ==
  ASSUME Inv, Quiet, [Next]_vars
  PROVE  Quiet'
  <1>1. UNCHANGED setup /\ Core /\ Atomic /\ Typed
    BY NextCarries DEF Inv, Core
  <1>2. ASSUME UNCHANGED <<tokens, pc, loc, issued>>, Undisturbed' => Undisturbed PROVE Owned'
    BY <1>2 DEF Quiet, Owned, Bears, NewAccess
  <1>3. ASSUME UNCHANGED <<tokens, pc, loc>> PROVE Subjected'
    BY <1>3 DEF Quiet, Subjected, HasSubject, Stored
  <1>4. CASE Tick
    <2>1. UNCHANGED <<pc, loc, ctx, issued, faults, cancels, crashes>>
      BY <1>4 DEF Tick, ghost, budget
    <2>2. \A k : (k \in Stored(tokens)' => k \in Stored(tokens) /\ tokens'[k] = tokens[k])
      BY <1>4 DEF Tick, Drop, Stored
    <2>3. \A t \in TokenValue : tokens[StoreKey(t)] = NoEntry => tokens'[StoreKey(t)] = NoEntry
      BY <1>1, <1>4, KeysDiffer DEF Tick, Drop, Typed, StoreShaped
    <2>4. Owned'
      BY <2>1, <2>3 DEF Quiet, Owned, Undisturbed, Bears, NewAccess
    <2> QED
      BY <2>1, <2>2, <2>4 DEF Quiet, Subjected, HasSubject, Counted
  <1>5. ASSUME NEW c \in Client, Start(c) PROVE Quiet'
    <2>1. /\ UNCHANGED <<tokens, issued, ctx, faults, cancels, crashes>> /\ pc[c] = "idle"
          /\ \A d \in Client \ {c} : pc'[d] = pc[d] /\ loc'[d] = loc[d]
      BY <1>1, <1>5, StartOpens, StartCounted DEF Opens
    <2>2. Owned'
      BY <2>1 DEF Quiet, Owned, Undisturbed, Bears, NewAccess, Bearing
    <2>3. Subjected'
      BY <1>1, <1>5, <2>1, StartHasSubject DEF Quiet, Subjected, HasSubject, Stored
    <2> QED
      BY <2>1, <2>2, <2>3 DEF Quiet, Counted
  <1>6. ASSUME NEW c \in Client, Step(c) PROVE Quiet'
    <2>1. Advances(c)
      BY <1>1, <1>6, StepAdvances
    <2>2. Subjected' /\ Counted' /\ (Undisturbed' => Undisturbed)
      BY <1>1, <1>6, <2>1, StepSubjected, StepCounted DEF Quiet
    <2>3. Owned'
      BY <1>1, <1>6, <2>1, <2>2, StepOwned DEF Owned
    <2> QED
      BY <2>2, <2>3 DEF Quiet
  <1>7. ASSUME NEW c \in Client, Crash(c) PROVE Quiet'
    <2>1. Advances(c) /\ loc'[c] = Blank
      BY <1>1, <1>7, CrashAdvances DEF Crash, Leave, Typed
    <2>2. Counted' /\ ~Undisturbed'
      BY <1>7 DEF Crash, Leave, Quiet, Counted, Undisturbed
    <2> QED
      BY <1>1, <2>1, <2>2, StepSubjected DEF Quiet, Owned
  <1>8. ASSUME NEW c \in Client, Cancel(c) PROVE Quiet'
    <2>1. UNCHANGED <<tokens, pc, loc>> /\ Counted' /\ ~Undisturbed'
      BY <1>8 DEF Cancel, store, Quiet, Counted, Undisturbed
    <2> QED
      BY <1>3, <2>1 DEF Quiet, Owned
  <1>9. CASE UNCHANGED vars
    BY <1>2, <1>3, <1>9 DEF vars, store, ghost, budget, Quiet, Counted, Undisturbed
  <1> QED
    BY <1>4, <1>5, <1>6, <1>7, <1>8, <1>9 DEF Next

LEMMA QuietHolds == Spec /\ Atomic /\ ~ReuseArgs => []Quiet
  <1>1. Init => Quiet
    <2> SUFFICES ASSUME Init PROVE Quiet
      OBVIOUS
    <2>1. \A t \in TokenValue : tokens[StoreKey(t)] = NoEntry
      BY KeysDiffer DEF Init
    <2>2. Subjected
      BY DEF Init, Subjected, HasSubject, Stored, Before
    <2>3. Counted
      BY DEF Init, Counted
    <2> QED
      BY <2>1, <2>2, <2>3 DEF Quiet, Owned
  <1> QED
    BY <1>1, InvHolds, NextQuiet, PTL DEF Spec

\* Unless a call fails, a context is done or a process dies, a flow that ends without
\* success leaves nothing behind: once all is quiet whatever is stored was handed to a
\* caller.  A login whose refresh token is not saved, and a refresh that loses its token
\* to a revocation, delete the access token they had stored (LoginWithRefresh, Refresh).
THEOREM NothingLeftBehind == Spec /\ Atomic /\ ~ReuseArgs => []NoOrphanAccess
  <1>1. Quiet => NoOrphanAccess
    BY DEF Quiet, Owned, Bears, Bearing, AllIdle, NoOrphanAccess
  <1> QED
    BY <1>1, QuietHolds, PTL

\* Without rotation a refresh succeeds only while the token it claimed is stored: what a
\* logout removed meanwhile is not swapped back, and the new access token is not handed
\* out (Refresh, updateTokenState).
THEOREM LogoutWins ==
  Spec /\ Atomic /\ ~ReuseArgs /\ ~RotateRefreshToken => LogoutBeatsRefresh
  <1> DEFINE Wins == \A c \in Client :
               loc[c].op = "Refresh" /\ pc[c] = "saveNext" /\ pc'[c] = "idle" /\ issued' # issued
                 => tokens[StoreKey(loc[c].ref)] # NoEntry
  <1>1. ASSUME Inv, ~RotateRefreshToken, [Next]_vars PROVE [Wins]_vars /\ ~RotateRefreshToken'
    <2>1. Typed /\ Atomic /\ UNCHANGED setup
      BY <1>1, NextCarries DEF Inv, Core
    <2>2. ASSUME NEW c \in Client, loc[c].op = "Refresh", pc[c] = "saveNext", pc'[c] = "idle",
                 issued' # issued
          PROVE  tokens[StoreKey(loc[c].ref)] # NoEntry
      <3>1. PICK d \in Client : Start(d) \/ Step(d)
        BY <1>1, <2>2 DEF Next, Tick, Cancel, Crash, vars, ghost
      <3>2. d = c
        <4>1. CASE Start(d)
          BY <2>1, <2>2, <4>1, StartOpens DEF Opens
        <4>2. CASE Step(d)
          BY <2>1, <2>2, <4>2, StepAdvances DEF Advances, Frame
        <4> QED
          BY <3>1, <4>1, <4>2
      <3>3. Step(c)
        <4>1. ~Start(c)
          BY <2>1, <2>2, StartOpens DEF Opens
        <4> QED
          BY <3>1, <3>2, <4>1
      <3>4. SaveReused(c)
        <4>1. ~LoginStep(c)
          BY <2>2 DEF LoginStep, SaveNonce, PeekNonce, ConsumeNonceState, JudgeNonce, Replace,
                    ReplaceRefresh, FindOthers, DeleteOthers, SaveAccess, SyncSession, SaveRefresh,
                    Calls
        <4>2. SaveReused(c) \/ ~RefreshStep(c)
          BY <1>1, <2>2 DEF RefreshStep, LoadRefresh, PeekRefresh, ClaimRefresh, ClaimExpired,
                    AfterClaim, LoginEntry, RevokeOldAccess, SaveRotated, Rollback, RestoreRefresh,
                    Calls
        <4>3. ~AccessStep(c)
          BY <2>2 DEF AccessStep, Get, EvictExpired, ClaimEntry, Update, DeleteAccess, FindLinked,
                    DeleteLinked, FindDevice, DeleteOnDevice, LogoutAccess, LogoutRefresh,
                    DropSession, RevokeAll, GetRefresh, Revoke, Calls
        <4>4. ~CallError(c)
          BY <2>2 DEF CallError, ghost
        <4> QED
          BY <3>3, <4>1, <4>2, <4>3, <4>4 DEF Step
      <3>5. MayUpdate(StoreKey(loc[c].ref), ClaimedState(c))
        BY <2>2, <3>4 DEF SaveReused, Go, ghost
      <3> QED
        BY <2>1, <3>5 DEF MayUpdate, Matches, Live, Stored
    <2> QED
      BY <1>1, <2>1, <2>2 DEF RotateRefreshToken
  <1> QED
    BY <1>1, InvHolds, PTL DEF Spec, LogoutBeatsRefresh

-----------------------------------------------------------------------------
(* Every variable has its type.                                             *)

\* What is stored: only one-time tokens are consumed, and a refresh token names an access
\* token.
Sound ==
  {s \in TokenState : /\ s.status = "consumed" => s.kind \in OneTime
                      /\ s.kind = "refresh" => s.access \in Token}

TokenMap == [Token -> [state : Sound, expiresAt : Deadline] \cup {NoEntry}]
SessionMap == [Subject -> Deadline \cup {NoEntry}]

\* What a request knows of the token it works with, once it has read it.
Knows(label, locals) ==
  /\ locals.op = "Refresh" /\ label # "load" =>
       locals.snap \in Sound /\ locals.snap.kind = "refresh"
  /\ label \in {"update", "revoke"} => locals.snap \in Sound
  /\ label \in {"getRefresh", "revoke"} => locals.ref \in TokenValue
  /\ locals.op \in LookupOps => locals.cur \in Token

Sorts ==
  /\ tokens \in TokenMap /\ sessions \in SessionMap
  /\ pc \in [Client -> Labels] /\ loc \in [Client -> Locals]
  /\ \A c \in Client : Knows(pc[c], loc[c])
  /\ ctx \in [Client -> {"live", "done"}]
  /\ dead \subseteq Token /\ recycled \subseteq issued
  /\ redeemed \in [TokenValue -> 0 .. 2]
  /\ {started, faults, cancels, crashes} \subseteq Nat

LEMMA NothingIsTyped ==
  /\ Blank \in Locals
  /\ Knows("idle", Blank)
  <1>1. Blank \in Locals
    BY DEF Blank, Locals, AnyToken
  <1>2. Blank.op = "none"
    BY DEF Blank
  <1> QED
    BY <1>1, <1>2 DEF Knows, LookupOps

\* The states that are built are sound.
LEMMA BuiltIsSound ==
  ASSUME now \in Nat, NEW kind \in TokenKind, NEW subject \in Subject \cup {NoSubject},
         NEW device \in Device \cup {NoDevice}, NEW deadline \in Deadline
  PROVE  /\ NewState(kind, subject, device, deadline) \in TokenState
         /\ kind # "refresh" => NewState(kind, subject, device, deadline) \in Sound
         /\ \A access \in Token, from \in Token \cup {NoKey} :
              [NewState(kind, subject, device, deadline)
                 EXCEPT !.access = access, !.rotatedFrom = from] \in Sound
         /\ \A at \in Nat : kind # "refresh" =>
              [NewState(kind, subject, device, deadline) EXCEPT !.lastActive = at] \in Sound
  <1> DEFINE s == NewState(kind, subject, device, deadline)
  <1>1. s \in TokenState
    BY DEF NewState, TokenState, TokenStatus
  <1>2. s.kind = kind /\ s.status = "active"
    BY DEF NewState
  <1> HIDE DEF s
  <1>3. \A access \in Token, from \in Token \cup {NoKey} :
          [s EXCEPT !.access = access, !.rotatedFrom = from] \in Sound
    <2> SUFFICES ASSUME NEW access \in Token, NEW from \in Token \cup {NoKey}
                 PROVE  [s EXCEPT !.access = access, !.rotatedFrom = from] \in Sound
      OBVIOUS
    <2>1. /\ [s EXCEPT !.access = access, !.rotatedFrom = from] \in TokenState
          /\ [s EXCEPT !.access = access, !.rotatedFrom = from].access = access
          /\ [s EXCEPT !.access = access, !.rotatedFrom = from].status = s.status
      BY <1>1 DEF TokenState
    <2> QED
      BY <1>2, <2>1 DEF Sound
  <1>4. ASSUME NEW at \in Nat, kind # "refresh" PROVE [s EXCEPT !.lastActive = at] \in Sound
    <2>1. /\ [s EXCEPT !.lastActive = at] \in TokenState
          /\ [s EXCEPT !.lastActive = at].kind = s.kind
          /\ [s EXCEPT !.lastActive = at].status = s.status
      BY <1>1 DEF TokenState
    <2> QED
      BY <1>2, <1>4, <2>1 DEF Sound
  <1> QED
    BY <1>1, <1>2, <1>3, <1>4 DEF s, Sound

LEMMA DeadlinesTyped ==
  ASSUME now \in Nat, NEW state, state.expiresAt \in Deadline
  PROVE  /\ RemainingTTL(state, now) \in Nat
         /\ \A ttl \in Nat : EffectiveExpiresAt(state, now, ttl) \in Deadline
BY DEF RemainingTTL, EffectiveExpiresAt, Earlier, DeadlineAfter, Deadline, Never

LEMMA SoundTyped ==
  ASSUME NEW s \in Sound
  PROVE  s \in TokenState /\ s.expiresAt \in Deadline /\ s.device \in Device \cup {NoDevice}
BY DEF Sound, TokenState

LEMMA PutTyped ==
  ASSUME tokens \in TokenMap, now \in Nat, NEW k, NEW s \in Sound, NEW ttl \in Nat,
         tokens' = Put(tokens, k, s, EffectiveExpiresAt(s, now, ttl))
  PROVE  tokens' \in TokenMap
  <1>1. EffectiveExpiresAt(s, now, ttl) \in Deadline
    BY SoundTyped, DeadlinesTyped
  <1> QED
    BY <1>1 DEF Put, TokenMap

LEMMA DropTyped ==
  ASSUME tokens \in TokenMap, NEW K, tokens' = Drop(tokens, K)
  PROVE  tokens' \in TokenMap
BY DEF Drop, TokenMap

LEMMA ReadTyped ==
  ASSUME tokens \in TokenMap, NEW k \in Token, tokens[k] # NoEntry
  PROVE  tokens[k].state \in Sound /\ tokens[k].expiresAt \in Deadline
BY DEF TokenMap

LEMMA ConsumeTyped ==
  ASSUME tokens \in TokenMap, Atomic, NEW k \in Token, NEW kind \in OneTime,
         tokens[k] # NoEntry, tokens' = Consume(tokens, k, ConsumedKinds(kind), now)
  PROVE  tokens' \in TokenMap
  <1> DEFINE s == tokens[k].state
  <1>1. s \in Sound /\ tokens[k].expiresAt \in Deadline
    BY ReadTyped
  <1>2. CASE Consumable(s, {kind}, now)
    <2>1. s.kind = kind
      BY <1>2 DEF Consumable, MatchKind
    <2>2. MarkConsumed(s) \in Sound
      <3>1. /\ MarkConsumed(s) \in TokenState /\ MarkConsumed(s).kind = s.kind
            /\ MarkConsumed(s).access = s.access
        BY <1>1 DEF Sound, MarkConsumed, TokenState, TokenStatus
      <3> QED
        BY <1>1, <2>1, <3>1 DEF Sound
    <2>3. tokens' = [tokens EXCEPT ![k] = [@ EXCEPT !.state = MarkConsumed(s)]]
      BY <1>2 DEF Consume, ConsumedKinds, Rewrite
    <2>4. tokens[k] \in [state : Sound, expiresAt : Deadline]
      BY DEF TokenMap
    <2>5. [tokens[k] EXCEPT !.state = MarkConsumed(s)] \in [state : Sound, expiresAt : Deadline]
      BY <2>2, <2>4
    <2> QED
      BY <2>3, <2>5 DEF TokenMap
  <1>3. CASE ~Consumable(s, {kind}, now)
    BY <1>3 DEF Consume, ConsumedKinds
  <1> QED
    BY <1>2, <1>3

\* Whom a call takes away from are stored keys.
LEMMA CoveredTyped ==
  ASSUME NEW s
  PROVE  /\ \A kinds : OfSubject(tokens, s, kinds) \subseteq Token
         /\ \A kinds : IssuedTo(s, kinds) \subseteq Token
         /\ SubjectLogout(s) \subseteq Token
BY DEF OfSubject, IssuedTo, SubjectLogout, Stored

(* What each call leaves behind.                                            *)

\* What a step has to show, besides what holds of any step.
StaysTyped(c) ==
  /\ tokens' \in TokenMap /\ sessions' \in SessionMap /\ dead' \subseteq Token
  /\ pc' \in [Client -> Labels] /\ loc' \in [Client -> Locals]
  /\ Knows(pc'[c], loc'[c])

LEMMA MoveTyped ==
  ASSUME Sorts, UNCHANGED setup, NEW c \in Client, NEW label \in Labels, NEW locals \in Locals,
         pc' = [pc EXCEPT ![c] = label], loc' = [loc EXCEPT ![c] = locals],
         Knows(label, locals)
  PROVE  /\ pc' \in [Client -> Labels] /\ loc' \in [Client -> Locals]
         /\ Knows(pc'[c], loc'[c])
BY DEF Sorts

LEMMA GoTyped ==
  ASSUME Sorts, UNCHANGED setup, NEW c \in Client, NEW label \in Labels, NEW locals \in Locals,
         Go(c, label, locals), Knows(label, locals),
         tokens' \in TokenMap, sessions' \in SessionMap
  PROVE  StaysTyped(c)
BY MoveTyped DEF Go, ghost, StaysTyped, Sorts

LEMMA LeaveTyped ==
  ASSUME Sorts, UNCHANGED setup, NEW c \in Client, Leave(c), dead' \subseteq Token,
         tokens' \in TokenMap, sessions' \in SessionMap
  PROVE  StaysTyped(c)
  <1>1. "idle" \in Labels
    BY DEF Labels
  <1> QED
    BY <1>1, MoveTyped, NothingIsTyped DEF Leave, StaysTyped

LEMMA FailTyped ==
  ASSUME Sorts, UNCHANGED setup, NEW c \in Client, Fail(c),
         tokens' \in TokenMap, sessions' \in SessionMap
  PROVE  StaysTyped(c)
BY LeaveTyped DEF Fail, ghost, Sorts

LEMMA SucceedTyped ==
  ASSUME Sorts, UNCHANGED setup, NEW c \in Client, NEW new, NEW gone, Succeed(c, new, gone),
         gone \subseteq Token, tokens' \in TokenMap, sessions' \in SessionMap
  PROVE  StaysTyped(c)
BY LeaveTyped DEF Succeed, Sorts

\* What is known of a request at work.
LEMMA RequestTyped ==
  ASSUME Sorts, Typed, NEW c \in Client
  PROVE  /\ setup \in Setups /\ now \in Nat /\ tokens \in TokenMap /\ sessions \in SessionMap
         /\ loc[c] \in Locals /\ loc[c].ttl \in Nat /\ loc[c].at \in Nat
         /\ loc[c].subject \in Subject \cup {NoSubject} /\ loc[c].covered \subseteq Token
         /\ Knows(pc[c], loc[c])
         /\ loc[c].op \in Issuing => loc[c].acc \in TokenValue
         /\ loc[c].op = "Refresh" => loc[c].ref \in TokenValue
         /\ Timeout \in Nat /\ RefreshTimeout \in Nat
         /\ ActiveTimeout \in Nat /\ NonceTimeout \in Nat
  <1>1. loc[c] \in Locals /\ Knows(pc[c], loc[c]) /\ Located(c)
    BY DEF Sorts, Typed
  <1>2. loc[c].op \in Issuing => loc[c].acc \in TokenValue
    BY <1>1 DEF Typed, Located, NewAccess
  <1>3. loc[c].op = "Refresh" => loc[c].ref \in TokenValue
    BY <1>1 DEF Typed, Located
  <1> QED
    BY <1>1, <1>2, <1>3, SetupTyped DEF Sorts, Typed, StoreShaped, Locals

LEMMA LabelsTyped == LoginEntry \in Labels /\ AfterClaim \in Labels
BY DEF LoginEntry, AfterClaim, Labels

\* A request that goes on with what it knows.
LEMMA GoOnTyped ==
  ASSUME Sorts, Typed, UNCHANGED setup, NEW c \in Client, NEW label \in Labels,
         Go(c, label, loc[c]), pc[c] # "load", label \notin {"update", "getRefresh", "revoke"},
         tokens' \in TokenMap, sessions' \in SessionMap
  PROVE  StaysTyped(c)
  <1>1. loc[c] \in Locals /\ Knows(label, loc[c])
    BY RequestTyped DEF Knows
  <1> QED
    BY <1>1, GoTyped

\* A request that remembers something else.
LEMMA SetsTyped ==
  ASSUME NEW l \in Locals
  PROVE  /\ \A at \in Nat : [l EXCEPT !.at = at] \in Locals
         /\ \A ttl \in Nat : [l EXCEPT !.ttl = ttl] \in Locals
         /\ \A s \in TokenState \cup {NoEntry} : [l EXCEPT !.snap = s] \in Locals
         /\ \A todo \in SUBSET Token : [l EXCEPT !.todo = todo] \in Locals
         /\ \A targets \in SUBSET Token :
              /\ [l EXCEPT !.targets = targets] \in Locals
              /\ \A k \in Token : [l EXCEPT !.targets = targets, !.cur = k] \in Locals
         /\ \A s \in TokenState : \A k \in Token : [l EXCEPT !.snap = s, !.cur = k] \in Locals
         /\ \A s \in TokenState : \A u \in Subject \cup {NoSubject} :
              [l EXCEPT !.snap = s, !.subject = u] \in Locals
  <1> QED
    BY DEF Locals
LEMMA SetsKnown ==
  ASSUME NEW l \in Locals, NEW label, NEW label2, Knows(label, l), label # "load",
         label2 \notin {"update", "getRefresh", "revoke"}
  PROVE  /\ \A at : Knows(label2, [l EXCEPT !.at = at])
         /\ \A ttl : Knows(label2, [l EXCEPT !.ttl = ttl])
         /\ \A todo : Knows(label2, [l EXCEPT !.todo = todo])
         /\ \A targets : /\ Knows(label2, [l EXCEPT !.targets = targets])
                         /\ \A k \in Token : Knows(label2, [l EXCEPT !.targets = targets, !.cur = k])
  <1>1. DOMAIN l = {"op", "acc", "ref", "next", "nonce", "subject", "device", "ttl",
                    "dropSession", "at", "snap", "cur", "todo", "targets", "covered"}
    BY DEF Locals
  <1> QED
    BY <1>1 DEF Knows

LEMMA NonceStateTyped ==
  ASSUME Typed
  PROVE  NonceState \in Sound
  <1>1. now \in Nat /\ DeadlineAfter(now, NonceTimeout) \in Deadline /\ "nonce" \in TokenKind
    BY SetupTyped, NotYet DEF Typed, StoreShaped, TokenKind
  <1> QED
    BY <1>1, BuiltIsSound DEF NonceState

LEMMA NonceTyped ==
  ASSUME Sorts, Typed, Atomic, UNCHANGED setup, NEW c \in Client,
         SaveNonce(c) \/ PeekNonce(c) \/ ConsumeNonceState(c) \/ JudgeNonce(c)
  PROVE  StaysTyped(c)
  <1> DEFINE t == loc[c].nonce
             k == StoreKey(t)
  <1>1. /\ now \in Nat /\ tokens \in TokenMap /\ sessions \in SessionMap /\ NonceTimeout \in Nat
        /\ loc[c] \in Locals /\ Knows(pc[c], loc[c]) /\ Located(c)
    BY RequestTyped DEF Typed
  <1>2. CASE SaveNonce(c)
    <2>1. NonceState \in Sound
      BY NonceStateTyped
    <2>2. tokens' \in TokenMap
      BY <1>1, <1>2, <2>1, PutTyped DEF SaveNonce
    <2> QED
      BY <1>1, <1>2, <2>2, SucceedTyped DEF SaveNonce
  <1>3. CASE PeekNonce(c)
    BY <1>1, <1>3 DEF PeekNonce, Calls, Located
  <1>4. CASE ConsumeNonceState(c)
    <2>1. pc[c] = "nonce" /\ k \in Token /\ UNCHANGED sessions
      BY <1>1, <1>4, KeysDiffer DEF ConsumeNonceState, Calls, Located, Typed
    <2>2. CASE tokens[k] = NoEntry
      BY <1>1, <1>4, <2>1, <2>2, FailTyped DEF ConsumeNonceState
    <2>3. CASE tokens[k] # NoEntry
      <3> DEFINE locals == [loc[c] EXCEPT !.snap = tokens[k].state]
      <3>1. /\ tokens' = Consume(tokens, k, ConsumedKinds("nonce"), now)
            /\ Go(c, "judgeNonce", locals)
        BY <1>4, <2>3 DEF ConsumeNonceState
      <3>2. tokens' \in TokenMap
        BY <1>1, <2>1, <2>3, <3>1, ConsumeTyped DEF OneTime
      <3>3. locals \in Locals
        BY <1>1, <2>1, <2>3, ReadTyped, SoundTyped, SetsTyped
      <3>4. Knows("judgeNonce", locals)
        BY <1>1, <2>1, Fields DEF Knows, Located
      <3>5. "judgeNonce" \in Labels
        BY DEF Labels
      <3> HIDE DEF locals
      <3> QED
        BY <1>1, <2>1, <3>1, <3>2, <3>3, <3>4, <3>5, GoTyped
    <2> QED
      BY <2>2, <2>3
  <1>5. CASE JudgeNonce(c)
    <2>1. pc[c] = "judgeNonce" /\ k \in Token /\ UNCHANGED <<tokens, sessions>>
      BY <1>1, <1>5, KeysDiffer DEF JudgeNonce, Located, Typed, store
    <2>2. CASE Fail(c)
      BY <1>1, <2>1, <2>2, FailTyped
    <2>3. CASE Leave(c) /\ dead' = dead \cup {k}
      BY <1>1, <2>1, <2>3, LeaveTyped DEF Sorts
    <2>4. CASE /\ pc' = [pc EXCEPT ![c] = LoginEntry]
               /\ loc' = [loc EXCEPT ![c].snap = NoEntry]
               /\ UNCHANGED dead
      <3> DEFINE locals == [loc[c] EXCEPT !.snap = NoEntry]
      <3>1. loc' = [loc EXCEPT ![c] = locals]
        BY <2>4
      <3>2. locals \in Locals
        BY <1>1, SetsTyped
      <3>3. Knows(LoginEntry, locals)
        <4>1. locals.op = loc[c].op /\ locals.cur = loc[c].cur
          BY <1>1 DEF Locals
        <4> QED
          BY <1>1, <2>1, <4>1 DEF Knows, Located, LoginEntry
      <3> HIDE DEF locals
      <3>4. pc' \in [Client -> Labels] /\ loc' \in [Client -> Locals] /\ Knows(pc'[c], loc'[c])
        BY <2>4, <3>1, <3>2, <3>3, LabelsTyped, MoveTyped
      <3> QED
        BY <1>1, <2>1, <2>4, <3>4 DEF StaysTyped, Sorts
    <2> QED
      BY <1>5, <2>2, <2>3, <2>4 DEF JudgeNonce
  <1> QED
    BY <1>2, <1>3, <1>4, <1>5

LEMMA ReplaceTyped ==
  ASSUME Sorts, Typed, UNCHANGED setup, NEW c \in Client,
         Replace(c) \/ ReplaceRefresh(c) \/ FindOthers(c) \/ DeleteOthers(c)
  PROVE  StaysTyped(c)
  <1>1. /\ now \in Nat /\ tokens \in TokenMap /\ sessions \in SessionMap
        /\ loc[c] \in Locals /\ Knows(pc[c], loc[c])
    BY RequestTyped
  <1>2. /\ {"saveAccess", "findOthers", "replaceRefresh", "deleteOthers"} \subseteq Labels
        /\ pc[c] # "load" /\ UNCHANGED sessions
    BY DEF Labels, Replace, ReplaceRefresh, FindOthers, DeleteOthers, Calls, store
  <1>3. tokens' \in TokenMap
    BY <1>1, DropTyped DEF Replace, ReplaceRefresh, FindOthers, DeleteOthers, store
  <1>4. CASE Replace(c)
    <2>1. PICK label \in {"saveAccess", "findOthers", "replaceRefresh"} :
            Go(c, label, [loc[c] EXCEPT !.at = now])
      BY <1>4 DEF Replace
    <2> DEFINE locals == [loc[c] EXCEPT !.at = now]
    <2>2. locals \in Locals /\ Knows(label, locals)
      BY <1>1, <1>2, SetsTyped, SetsKnown
    <2> HIDE DEF locals
    <2> QED
      BY <1>1, <1>2, <1>3, <2>1, <2>2, GoTyped DEF locals
  <1>5. CASE ReplaceRefresh(c)
    BY <1>1, <1>2, <1>3, <1>5, GoOnTyped DEF ReplaceRefresh
  <1>6. CASE FindOthers(c) \/ DeleteOthers(c)
    <2>1. PICK label \in {"saveAccess", "deleteOthers"}, todo \in SUBSET Token :
            Go(c, label, [loc[c] EXCEPT !.todo = todo])
      <3>1. CASE FindOthers(c)
        BY <3>1, CoveredTyped DEF FindOthers
      <3>2. CASE DeleteOthers(c)
        <4>1. PICK k : Go(c, IF loc[c].todo = {k} THEN "saveAccess" ELSE "deleteOthers",
                          [loc[c] EXCEPT !.todo = @ \ {k}])
          BY <3>2 DEF DeleteOthers
        <4>2. loc[c].todo \ {k} \in SUBSET Token
          BY <1>1 DEF Locals
        <4> QED
          BY <4>1, <4>2
      <3> QED
        BY <1>6, <3>1, <3>2
    <2> DEFINE locals == [loc[c] EXCEPT !.todo = todo]
    <2>2. locals \in Locals /\ Knows(label, locals)
      BY <1>1, <1>2, SetsTyped, SetsKnown
    <2> HIDE DEF locals
    <2> QED
      BY <1>1, <1>2, <1>3, <2>1, <2>2, GoTyped DEF locals
  <1> QED
    BY <1>4, <1>5, <1>6

\* The device of a refresh is that of the token it presented, unless it names one.
LEMMA DeviceTyped ==
  ASSUME Sorts, Typed, NEW c \in Client, pc[c] # "load"
  PROVE  LoginDevice(c) \in Device \cup {NoDevice}
BY RequestTyped, SoundTyped DEF LoginDevice, Knows, Locals

LEMMA AccessStateTyped ==
  ASSUME Sorts, Typed, NEW c \in Client, pc[c] = "saveAccess", NEW at \in Nat
  PROVE  AccessState(loc[c].subject, LoginDevice(c), at) \in Sound
  <1>1. /\ now \in Nat /\ DeadlineAfter(at, Timeout) \in Deadline /\ "access" \in TokenKind
        /\ loc[c].subject \in Subject \cup {NoSubject}
    BY RequestTyped, NotYet DEF TokenKind
  <1>2. LoginDevice(c) \in Device \cup {NoDevice}
    BY DeviceTyped
  <1> QED
    BY <1>1, <1>2, BuiltIsSound DEF AccessState

LEMMA SaveAccessTyped ==
  ASSUME Sorts, Typed, UNCHANGED setup, NEW c \in Client, SaveAccess(c)
  PROVE  StaysTyped(c)
  <1> DEFINE at == IF Concurrent THEN now ELSE loc[c].at
             state == AccessState(loc[c].subject, LoginDevice(c), at)
             locals == [loc[c] EXCEPT !.ttl = Timeout]
  <1>1. /\ now \in Nat /\ tokens \in TokenMap /\ sessions \in SessionMap /\ Timeout \in Nat
        /\ loc[c] \in Locals /\ Knows(pc[c], loc[c]) /\ at \in Nat
        /\ loc[c].subject \in Subject \cup {NoSubject}
    BY RequestTyped
  <1>2. /\ pc[c] = "saveAccess" /\ UNCHANGED sessions /\ Go(c, "session", locals)
        /\ tokens' = Put(tokens, StoreKey(loc[c].acc), state,
                         EffectiveExpiresAt(state, now, Timeout))
    BY DEF SaveAccess, Calls
  <1>3. state \in Sound
    BY <1>1, <1>2, AccessStateTyped
  <1>4. locals \in Locals /\ Knows("session", locals) /\ "session" \in Labels
    BY <1>1, <1>2, SetsTyped, SetsKnown DEF Labels
  <1> HIDE DEF state, locals
  <1>5. tokens' \in TokenMap
    BY <1>1, <1>2, <1>3, PutTyped
  <1> QED
    BY <1>1, <1>2, <1>4, <1>5, GoTyped

LEMMA SyncSessionTyped ==
  ASSUME Sorts, Typed, UNCHANGED setup, NEW c \in Client, SyncSession(c)
  PROVE  StaysTyped(c)
  <1>1. /\ now \in Nat /\ tokens \in TokenMap /\ sessions \in SessionMap
        /\ loc[c] \in Locals /\ Knows(pc[c], loc[c]) /\ loc[c].ttl \in Nat
        /\ loc[c].covered \subseteq Token
    BY RequestTyped
  <1>2. UNCHANGED tokens /\ {"saveRefresh", "saveNext"} \subseteq Labels /\ pc[c] = "session"
    BY DEF SyncSession, Labels, Calls
  <1>3. CASE loc[c].subject = NoSubject
    BY <1>1, <1>2, <1>3, FailTyped DEF SyncSession
  <1>4. CASE loc[c].subject # NoSubject
    <2>1. sessions' = [sessions EXCEPT ![loc[c].subject] = DeadlineAfter(now, loc[c].ttl)]
      BY <1>4 DEF SyncSession
    <2>2. sessions' \in SessionMap
      BY <1>1, <2>1, NotYet DEF SessionMap
    <2>3. \/ Go(c, "saveRefresh", loc[c]) \/ Go(c, "saveNext", loc[c])
          \/ Succeed(c, {loc[c].acc}, loc[c].covered) \/ Succeed(c, {}, {})
      BY <1>4 DEF SyncSession
    <2> QED
      BY <1>1, <1>2, <2>2, <2>3, GoOnTyped, SucceedTyped
  <1> QED
    BY <1>3, <1>4

\* The refresh token that is stored.
LEMMA RefreshStateTyped ==
  ASSUME Sorts, Typed, NEW c \in Client, loc[c].op \in Issuing,
         NEW device \in Device \cup {NoDevice}, NEW from \in Token \cup {NoKey}
  PROVE  NewRefreshState(loc[c].subject, device, StoreKey(loc[c].acc), from) \in Sound
  <1>1. /\ now \in Nat /\ DeadlineAfter(now, RefreshTimeout) \in Deadline
        /\ "refresh" \in TokenKind /\ StoreKey(loc[c].acc) \in Token
        /\ loc[c].subject \in Subject \cup {NoSubject}
    BY RequestTyped, KeysDiffer, NotYet DEF TokenKind
  <1> QED
    BY <1>1, BuiltIsSound DEF NewRefreshState

LEMMA NewRefreshTyped ==
  ASSUME Sorts, Typed, NEW c \in Client, loc[c].op \in Issuing,
         NEW device \in Device \cup {NoDevice}, NEW from \in Token \cup {NoKey}, NEW k,
         LET state == NewRefreshState(loc[c].subject, device, StoreKey(loc[c].acc), from)
         IN  tokens' = Put(tokens, k, state,
                           EffectiveExpiresAt(state, now, RemainingTTL(state, now)))
  PROVE  tokens' \in TokenMap
  <1> DEFINE state == NewRefreshState(loc[c].subject, device, StoreKey(loc[c].acc), from)
  <1>1. now \in Nat /\ tokens \in TokenMap
    BY RequestTyped
  <1>2. state \in Sound
    BY RefreshStateTyped
  <1> HIDE DEF state
  <1>3. RemainingTTL(state, now) \in Nat
    BY <1>1, <1>2, SoundTyped, DeadlinesTyped
  <1> QED
    BY <1>1, <1>2, <1>3, PutTyped DEF state

LEMMA SaveRefreshTyped ==
  ASSUME Sorts, Typed, UNCHANGED setup, NEW c \in Client, SaveRefresh(c)
  PROVE  StaysTyped(c)
  <1>1. loc[c].op \in Issuing
    BY DEF SaveRefresh, Calls, Typed, Located, Issuing, LoginOps
  <1>2. loc[c].device \in Device \cup {NoDevice} /\ loc[c].covered \subseteq Token
    BY RequestTyped DEF Locals
  <1>3. tokens' \in TokenMap
    BY <1>1, <1>2, NewRefreshTyped DEF SaveRefresh
  <1> QED
    BY <1>2, <1>3, RequestTyped, SucceedTyped DEF SaveRefresh

LEMMA LoginStepTyped ==
  ASSUME Sorts, Typed, Atomic, UNCHANGED setup, NEW c \in Client, LoginStep(c)
  PROVE  StaysTyped(c)
BY NonceTyped, ReplaceTyped, SaveAccessTyped, SyncSessionTyped, SaveRefreshTyped DEF LoginStep

LEMMA LoadRefreshTyped ==
  ASSUME Sorts, Typed, UNCHANGED setup, Atomic, NEW c \in Client, LoadRefresh(c)
  PROVE  StaysTyped(c)
  <1> DEFINE k == StoreKey(loc[c].ref)
             entry == tokens[k]
             locals == [loc[c] EXCEPT !.snap = entry.state, !.cur = k]
  <1>1. /\ tokens \in TokenMap /\ sessions \in SessionMap /\ loc[c] \in Locals
        /\ loc[c].op = "Refresh" /\ k \in Token /\ UNCHANGED <<tokens, sessions>>
    BY RequestTyped, KeysDiffer DEF LoadRefresh, Calls, Typed, Located, store
  <1>2. CASE Fail(c)
    BY <1>1, <1>2, FailTyped
  <1>3. CASE entry # NoEntry /\ UsableRefresh(entry.state) /\ Go(c, ClaimEntry, locals)
    <2>1. entry.state \in Sound /\ entry.state.kind = "refresh"
      BY <1>1, <1>3, ReadTyped DEF UsableRefresh
    <2>2. locals \in Locals
      BY <1>1, <2>1, SoundTyped, SetsTyped
    <2>3. Knows(ClaimEntry, locals) /\ ClaimEntry \in Labels
      <3>1. locals.snap = entry.state /\ locals.cur = k
        BY <1>1 DEF Locals
      <3> HIDE DEF locals
      <3>2. ClaimEntry = "claim"
        BY DEF ClaimEntry
      <3> QED
        BY <1>1, <2>1, <3>1, <3>2 DEF Knows, Labels
    <2> HIDE DEF locals
    <2> QED
      BY <1>1, <1>3, <2>2, <2>3, GoTyped
  <1> QED
    BY <1>2, <1>3 DEF LoadRefresh

LEMMA ClaimRefreshTyped ==
  ASSUME Sorts, Typed, UNCHANGED setup, Atomic, NEW c \in Client, ClaimRefresh(c)
  PROVE  StaysTyped(c)
  <1> DEFINE k == StoreKey(loc[c].ref)
             entry == tokens[k]
             claimed == [loc[c] EXCEPT !.snap = entry.state, !.subject = entry.state.subject]
  <1>1. /\ tokens \in TokenMap /\ sessions \in SessionMap /\ loc[c] \in Locals
        /\ loc[c].op = "Refresh" /\ k \in Token /\ UNCHANGED sessions
    BY RequestTyped, KeysDiffer DEF ClaimRefresh, Calls, Typed, Located
  <1>2. tokens' \in TokenMap
    <2>1. CASE entry = NoEntry
      BY <1>1, <2>1 DEF ClaimRefresh
    <2>2. CASE entry # NoEntry
      <3>1. tokens' = Consume(tokens, k, ConsumedKinds("refresh"), now)
        BY <2>2 DEF ClaimRefresh
      <3> QED
        BY <1>1, <2>2, <3>1, ConsumeTyped DEF OneTime
    <2> QED
      BY <2>1, <2>2
  <1>3. CASE Fail(c)
    BY <1>1, <1>2, <1>3, FailTyped
  <1>4. CASE /\ entry # NoEntry /\ UsableRefresh(entry.state)
             /\ Go(c, AfterClaim, claimed) \/ Go(c, "restore", claimed)
    <2>1. entry.state \in Sound /\ entry.state.kind = "refresh"
      BY <1>1, <1>4, ReadTyped DEF UsableRefresh
    <2>2. claimed \in Locals
      <3>1. entry.state \in TokenState /\ entry.state.subject \in Subject \cup {NoSubject}
        BY <2>1, SoundTyped DEF TokenState
      <3> QED
        BY <1>1, <3>1, SetsTyped
    <2>3. Knows(AfterClaim, claimed) /\ Knows("restore", claimed) /\ "restore" \in Labels
      <3>1. claimed.snap = entry.state /\ claimed.op = loc[c].op
        BY <1>1 DEF Locals
      <3> HIDE DEF claimed
      <3>2. AfterClaim \notin {"update", "getRefresh", "revoke"}
        BY DEF AfterClaim, LoginEntry
      <3> QED
        BY <1>1, <2>1, <3>1, <3>2 DEF Knows, Labels, LookupOps
    <2> HIDE DEF claimed
    <2> QED
      BY <1>1, <1>2, <1>4, <2>2, <2>3, LabelsTyped, GoTyped
  <1> QED
    BY <1>3, <1>4 DEF ClaimRefresh

\* What a refresh of a reusable token, or the release of its claim, writes back.
LEMMA SwapTyped ==
  ASSUME Sorts, Typed, NEW c \in Client, NEW state \in Sound, SwapRefresh(c, state)
  PROVE  tokens' \in TokenMap
  <1>1. now \in Nat /\ tokens \in TokenMap
    BY RequestTyped
  <1>2. RemainingTTL(state, now) \in Nat
    BY <1>1, SoundTyped, DeadlinesTyped
  <1> QED
    BY <1>1, <1>2, PutTyped DEF SwapRefresh

LEMMA ReplacedTyped ==
  ASSUME Sorts, Typed, NEW c \in Client, loc[c].op = "Refresh", pc[c] # "load"
  PROVE  Replaced(c) \subseteq Token /\ loc[c].snap \in Sound
BY RequestTyped DEF Replaced, Knows, Sound

LEMMA SaveRotatedTyped ==
  ASSUME Sorts, Typed, UNCHANGED setup, NEW c \in Client, SaveRotated(c)
  PROVE  StaysTyped(c)
  <1>1. /\ pc[c] = "saveNext" /\ loc[c].op = "Refresh" /\ loc[c].op \in Issuing
        /\ sessions \in SessionMap /\ UNCHANGED sessions /\ StoreKey(loc[c].ref) \in Token
    BY RequestTyped, KeysDiffer DEF SaveRotated, Calls, Typed, Located, Issuing
  <1>2. LoginDevice(c) \in Device \cup {NoDevice} /\ Replaced(c) \subseteq Token
    BY <1>1, DeviceTyped, ReplacedTyped
  <1>3. tokens' \in TokenMap
    BY <1>1, <1>2, NewRefreshTyped DEF SaveRotated
  <1>4. dead' \subseteq Token
    BY <1>1, <1>2 DEF SaveRotated, Sorts
  <1> QED
    BY <1>1, <1>3, <1>4, LeaveTyped DEF SaveRotated

LEMMA ReusedTyped ==
  ASSUME now \in Nat, NEW s \in Sound, NEW acc \in Token, NEW device \in Device \cup {NoDevice}
  PROVE  LET state == [Touch(s) EXCEPT !.access = acc, !.device = device]
         IN  state \in Sound /\ state.kind = s.kind /\ state.access = acc
  <1> DEFINE state == [Touch(s) EXCEPT !.access = acc, !.device = device]
  <1>1. /\ state \in TokenState /\ state.access = acc /\ state.status = s.status
        /\ state.kind = s.kind
    BY DEF Sound, Touch, TokenState
  <1> QED
    BY <1>1 DEF Sound

LEMMA SaveReusedTyped ==
  ASSUME Sorts, Typed, UNCHANGED setup, NEW c \in Client, SaveReused(c)
  PROVE  StaysTyped(c)
  <1> DEFINE s == loc[c].snap
             acc == StoreKey(loc[c].acc)
             device == LoginDevice(c)
             state == [Touch(s) EXCEPT !.access = acc, !.device = device]
  <1>1. /\ pc[c] = "saveNext" /\ loc[c].op = "Refresh" /\ loc[c].op \in Issuing
        /\ sessions \in SessionMap /\ UNCHANGED sessions /\ now \in Nat /\ acc \in Token
    BY RequestTyped, KeysDiffer DEF SaveReused, Calls, Typed, Located, Issuing
  <1>2. device \in Device \cup {NoDevice} /\ Replaced(c) \subseteq Token /\ s \in Sound
    BY <1>1, DeviceTyped, ReplacedTyped
  <1>3. state \in Sound
    BY <1>1, <1>2, ReusedTyped
  <1>4. tokens' \in TokenMap
    <2>1. SwapRefresh(c, state)
      BY DEF SaveReused
    <2> HIDE DEF state
    <2> QED
      BY <1>3, <2>1, SwapTyped
  <1>5. Succeed(c, {loc[c].acc}, Replaced(c) \ {acc}) \/ Go(c, "rollback", loc[c])
    BY DEF SaveReused
  <1> QED
    BY <1>1, <1>2, <1>4, <1>5, SucceedTyped, GoOnTyped DEF Labels

LEMMA RefreshStepTyped ==
  ASSUME Sorts, Typed, Atomic, UNCHANGED setup, NEW c \in Client, RefreshStep(c)
  PROVE  StaysTyped(c)
  <1>1. tokens \in TokenMap /\ sessions \in SessionMap /\ Located(c)
    BY RequestTyped DEF Typed
  <1>2. CASE PeekRefresh(c)
    BY <1>1, <1>2 DEF PeekRefresh, Calls, Located
  <1>3. CASE ClaimExpired(c)
    BY <1>1, <1>3, FailTyped DEF ClaimExpired, store
  <1>4. CASE RevokeOldAccess(c)
    <2>1. tokens' \in TokenMap /\ LoginEntry \notin {"update", "getRefresh", "revoke"}
      BY <1>1, <1>4, DropTyped DEF RevokeOldAccess, LoginEntry
    <2> QED
      BY <1>1, <1>4, <2>1, LabelsTyped, GoOnTyped DEF RevokeOldAccess, Calls
  <1>5. CASE Rollback(c)
    <2>1. tokens' \in TokenMap
      BY <1>1, <1>5, DropTyped DEF Rollback
    <2> QED
      BY <1>1, <1>5, <2>1, FailTyped, GoOnTyped DEF Rollback, GiveUp, Calls, Labels
  <1>6. CASE RestoreRefresh(c)
    <2>1. loc[c].snap \in Sound
      BY <1>1, <1>6, ReplacedTyped DEF RestoreRefresh, Calls, Located
    <2> QED
      BY <1>1, <1>6, <2>1, SwapTyped, FailTyped DEF RestoreRefresh
  <1> QED
    BY <1>2, <1>3, <1>4, <1>5, <1>6, LoadRefreshTyped, ClaimRefreshTyped, SaveRotatedTyped,
       SaveReusedTyped DEF RefreshStep

LEMMA CallErrorTyped ==
  ASSUME Sorts, Typed, UNCHANGED setup, NEW c \in Client, CallError(c)
  PROVE  StaysTyped(c)
  <1>1. /\ tokens' \in TokenMap /\ sessions' \in SessionMap /\ dead' \subseteq Token
        /\ loc[c] \in Locals /\ Knows(pc[c], loc[c])
    BY RequestTyped DEF CallError, store, ghost, Sorts
  <1>2. CASE Leave(c)
    BY <1>1, <1>2, LeaveTyped
  <1>3. ASSUME NEW label \in {"rollback", "restore"}, pc[c] # "load",
               pc' = [pc EXCEPT ![c] = label], UNCHANGED loc
        PROVE  StaysTyped(c)
    <2>1. label \in Labels /\ Knows(label, loc[c]) /\ loc' = [loc EXCEPT ![c] = loc[c]]
      BY <1>1, <1>3 DEF Labels, Knows, Sorts
    <2> QED
      BY <1>1, <1>3, <2>1, MoveTyped DEF StaysTyped
  <1> QED
    BY <1>2, <1>3 DEF CallError, OwesRelease

LEMMA GetTyped ==
  ASSUME Sorts, Typed, UNCHANGED setup, NEW c \in Client, Get(c)
  PROVE  StaysTyped(c)
  <1> DEFINE entry == tokens[loc[c].cur]
             found == [loc[c] EXCEPT !.snap = entry.state, !.subject = entry.state.subject]
  <1>1. /\ tokens \in TokenMap /\ sessions \in SessionMap /\ loc[c] \in Locals
        /\ UNCHANGED <<tokens, sessions>> /\ loc[c].op \in LookupOps /\ loc[c].cur \in Token
    BY RequestTyped DEF Get, Calls, Typed, Located, Knows, store
  <1>2. CASE Fail(c) \/ Succeed(c, {}, {})
    BY <1>1, <1>2, FailTyped, SucceedTyped
  <1>3. CASE entry # NoEntry /\ (Go(c, "deleteAccess", found) \/ Go(c, "update", found))
    <2>1. entry.state \in Sound
      BY <1>1, <1>3, ReadTyped
    <2>2. found \in Locals
      <3>1. entry.state \in TokenState /\ entry.state.subject \in Subject \cup {NoSubject}
        BY <2>1, SoundTyped DEF TokenState
      <3> QED
        BY <1>1, <3>1, SetsTyped
    <2>3. \A label \in {"deleteAccess", "update"} : label \in Labels /\ Knows(label, found)
      <3>1. found.snap = entry.state /\ found.op = loc[c].op /\ found.cur = loc[c].cur
        BY <1>1 DEF Locals
      <3> HIDE DEF found
      <3> QED
        BY <1>1, <2>1, <3>1 DEF Knows, Labels, LookupOps
    <2> HIDE DEF found
    <2> QED
      BY <1>1, <1>3, <2>2, <2>3, GoTyped
  <1> QED
    BY <1>2, <1>3 DEF Get

LEMMA UpdatedTyped ==
  ASSUME Sorts, Typed, NEW c \in Client, loc[c].snap \in Sound
  PROVE  Updated(c) \in Sound
  <1> DEFINE s == loc[c].snap
  <1>1. now \in Nat /\ loc[c].ttl \in Nat /\ ActiveTimeout \in Nat
    BY RequestTyped
  <1>2. s \in Sound /\ s \in TokenState
    BY SoundTyped
  <1> HIDE DEF s
  <1>3. /\ Touch(s) \in TokenState /\ Touch(s).status = s.status /\ Touch(s).kind = s.kind
        /\ Touch(s).access = s.access /\ Touch(s).expiresAt = s.expiresAt
        /\ Touch(s).online = s.online
    BY <1>1, <1>2 DEF Touch, TokenState
  <1>4. \A d \in Deadline : [Touch(s) EXCEPT !.expiresAt = d] \in Sound
    <2> SUFFICES ASSUME NEW d \in Deadline PROVE [Touch(s) EXCEPT !.expiresAt = d] \in Sound
      OBVIOUS
    <2> DEFINE u == Touch(s)
    <2> HIDE DEF u
    <2>1. u \in TokenState
      BY <1>3 DEF u
    <2>2. /\ [u EXCEPT !.expiresAt = d] \in TokenState
          /\ [u EXCEPT !.expiresAt = d].status = u.status
          /\ [u EXCEPT !.expiresAt = d].kind = u.kind
          /\ [u EXCEPT !.expiresAt = d].access = u.access
      BY <2>1 DEF TokenState
    <2>3. [u EXCEPT !.expiresAt = d] \in Sound
      BY <1>2, <1>3, <2>2 DEF Sound, u
    <2> QED
      BY <2>3 DEF u
  <1>5. MarkOnline(s) \in Sound /\ MarkOffline(s) \in Sound
    <2> DEFINE u == Touch(s)
    <2> HIDE DEF u
    <2>1. u \in TokenState
      BY <1>3 DEF u
    <2>2. \A o \in SUBSET {"online", "offline"} :
            /\ [u EXCEPT !.online = o] \in TokenState
            /\ [u EXCEPT !.online = o].status = u.status
            /\ [u EXCEPT !.online = o].kind = u.kind
            /\ [u EXCEPT !.online = o].access = u.access
            /\ [u EXCEPT !.online = o, !.status = "active"] \in TokenState
            /\ [u EXCEPT !.online = o, !.status = "active"].status = "active"
            /\ [u EXCEPT !.online = o, !.status = "active"].kind = u.kind
            /\ [u EXCEPT !.online = o, !.status = "active"].access = u.access
      BY <2>1 DEF TokenState, TokenStatus
    <2>3. /\ u.online \cup {"online"} \in SUBSET {"online", "offline"}
          /\ u.online \cup {"offline"} \in SUBSET {"online", "offline"}
      BY <2>1 DEF TokenState
    <2>4. \A o \in SUBSET {"online", "offline"} :
            [u EXCEPT !.online = o] \in Sound /\ [u EXCEPT !.online = o, !.status = "active"] \in Sound
      BY <1>2, <1>3, <2>2 DEF Sound, u
    <2> QED
      BY <2>3, <2>4 DEF u, MarkOnline, MarkOffline
  <1>6. /\ DeadlineAfter(now, loc[c].ttl) \in Deadline
        /\ (IF ActiveTimeout > 0 THEN now + ActiveTimeout ELSE Touch(s).expiresAt) \in Deadline
    BY <1>1, <1>2, <1>3, NotYet, SoundTyped DEF Deadline
  <1> QED
    BY <1>4, <1>5, <1>6 DEF Updated, s

\* What a renewal, an online mark or a revocation writes back.
LEMMA WrittenTyped ==
  ASSUME Sorts, Typed, NEW k, NEW state \in Sound, NEW ttl,
         ttl = RemainingTTL(state, now) \/ ttl \in Nat,
         tokens' = Put(tokens, k, state, EffectiveExpiresAt(state, now, ttl))
  PROVE  tokens' \in TokenMap /\ ttl \in Nat
  <1>1. now \in Nat /\ tokens \in TokenMap
    BY DEF Sorts, Typed, StoreShaped
  <1>2. ttl \in Nat
    BY <1>1, SoundTyped, DeadlinesTyped
  <1> QED
    BY <1>1, <1>2, PutTyped

LEMMA UpdateTyped ==
  ASSUME Sorts, Typed, UNCHANGED setup, NEW c \in Client, Update(c)
  PROVE  StaysTyped(c)
  <1> DEFINE next == Updated(c)
             ttl == IF loc[c].op = "Renew" THEN loc[c].ttl ELSE RemainingTTL(next, now)
             locals == [loc[c] EXCEPT !.ttl = ttl]
  <1>1. /\ tokens \in TokenMap /\ sessions \in SessionMap /\ UNCHANGED sessions
        /\ loc[c] \in Locals /\ loc[c].ttl \in Nat /\ Knows(pc[c], loc[c]) /\ pc[c] = "update"
    BY RequestTyped DEF Update, Calls
  <1>2. next \in Sound
    BY <1>1, UpdatedTyped DEF Knows
  <1> HIDE DEF next
  <1>3. CASE UNCHANGED tokens /\ Fail(c)
    BY <1>1, <1>3, FailTyped
  <1>4. CASE /\ tokens' = Put(tokens, loc[c].cur, next, EffectiveExpiresAt(next, now, ttl))
             /\ Go(c, "session", locals) \/ Succeed(c, {}, {})
    <2>1. tokens' \in TokenMap /\ ttl \in Nat
      BY <1>1, <1>2, <1>4, WrittenTyped
    <2> HIDE DEF ttl
    <2>2. locals \in Locals /\ Knows("session", locals) /\ "session" \in Labels
      BY <1>1, <2>1, SetsTyped, SetsKnown DEF Labels
    <2> HIDE DEF locals
    <2> QED
      BY <1>1, <1>4, <2>1, <2>2, GoTyped, SucceedTyped
  <1> QED
    BY <1>3, <1>4 DEF Update, next

LEMMA RevokedTyped ==
  ASSUME NEW s \in Sound
  PROVE  /\ MarkRevoked(s) \in Sound
         /\ MarkRevoked(s).status = "revoked" /\ MarkRevoked(s).kind = s.kind
  <1>1. /\ MarkRevoked(s) \in TokenState /\ MarkRevoked(s).status = "revoked"
        /\ MarkRevoked(s).kind = s.kind /\ MarkRevoked(s).access = s.access
    BY DEF Sound, MarkRevoked, TokenState, TokenStatus
  <1> QED
    BY <1>1 DEF Sound

LEMMA RevokeTyped ==
  ASSUME Sorts, Typed, UNCHANGED setup, NEW c \in Client, Revoke(c)
  PROVE  StaysTyped(c)
  <1> DEFINE s == loc[c].snap
             k == StoreKey(loc[c].ref)
             next == MarkRevoked(s)
  <1>1. /\ tokens \in TokenMap /\ sessions \in SessionMap /\ UNCHANGED sessions
        /\ s \in Sound /\ k \in Token
    BY RequestTyped, KeysDiffer DEF Revoke, Calls, Knows
  <1> HIDE DEF s
  <1>2. next \in Sound
    BY <1>1, RevokedTyped
  <1> HIDE DEF next
  <1>3. CASE UNCHANGED tokens /\ Fail(c)
    BY <1>1, <1>3, FailTyped
  <1>4. CASE /\ tokens' = Put(tokens, k, next,
                              EffectiveExpiresAt(next, now, RemainingTTL(next, now)))
             /\ Succeed(c, {}, {k})
    BY <1>1, <1>2, <1>4, WrittenTyped, SucceedTyped
  <1> QED
    BY <1>3, <1>4 DEF Revoke, next, s

\* What a logout still has to do, or has promised.
LEMMA LinkedTyped ==
  ASSUME Sorts, Typed, UNCHANGED setup, NEW c \in Client, NEW todo \in SUBSET Token,
         LinkedDone(c, todo), pc[c] \in {"findLinked", "deleteLinked"},
         tokens' \in TokenMap, sessions' \in SessionMap
  PROVE  StaysTyped(c)
  <1>1. /\ loc[c] \in Locals /\ Knows(pc[c], loc[c]) /\ loc[c].covered \subseteq Token
        /\ {} \in SUBSET Token /\ {"deleteLinked", "deleteAccess"} \subseteq Labels
    BY RequestTyped DEF Labels
  <1>2. \A s \in SUBSET Token, label \in {"deleteLinked", "deleteAccess"} :
          Go(c, label, [loc[c] EXCEPT !.todo = s]) => StaysTyped(c)
    <2> SUFFICES ASSUME NEW s \in SUBSET Token, NEW label \in {"deleteLinked", "deleteAccess"},
                        Go(c, label, [loc[c] EXCEPT !.todo = s])
                 PROVE  StaysTyped(c)
      OBVIOUS
    <2> DEFINE locals == [loc[c] EXCEPT !.todo = s]
    <2>1. locals \in Locals /\ Knows(label, locals)
      BY <1>1, SetsTyped, SetsKnown
    <2> HIDE DEF locals
    <2> QED
      BY <1>1, <2>1, GoTyped DEF locals
  <1>3. ASSUME NEW gone, Succeed(c, {}, gone), gone \subseteq Token PROVE StaysTyped(c)
    BY <1>3, SucceedTyped
  <1>4. loc[c].op = "Logout" => loc[c].cur \in Token
    BY <1>1 DEF Knows, LookupOps
  <1>5. loc[c].covered \cup (IF loc[c].op = "Logout" THEN {loc[c].cur} ELSE {}) \subseteq Token
    BY <1>1, <1>4
  <1> QED
    BY <1>1, <1>2, <1>3, <1>5 DEF LinkedDone

LEMMA DevicesTyped ==
  ASSUME Sorts, Typed, UNCHANGED setup, NEW c \in Client, FindDevice(c) \/ DeleteOnDevice(c)
  PROVE  StaysTyped(c)
  <1>1. /\ tokens \in TokenMap /\ sessions \in SessionMap
        /\ loc[c] \in Locals /\ Knows(pc[c], loc[c]) /\ loc[c].covered \subseteq Token
        /\ {"deleteAccess", "findLinked"} \subseteq Labels
    BY RequestTyped DEF Labels
  <1>2. pc[c] # "load" /\ UNCHANGED sessions /\ tokens' \in TokenMap
    BY <1>1, DropTyped DEF FindDevice, DeleteOnDevice, Calls, store
  <1>3. ASSUME NEW targets \in SUBSET Token, Go(c, "deleteAccess", [loc[c] EXCEPT !.targets = targets])
        PROVE  StaysTyped(c)
    <2> DEFINE locals == [loc[c] EXCEPT !.targets = targets]
    <2>1. locals \in Locals /\ Knows("deleteAccess", locals)
      BY <1>1, <1>2, SetsTyped, SetsKnown
    <2> HIDE DEF locals
    <2> QED
      BY <1>1, <1>2, <1>3, <2>1, GoTyped DEF locals
  <1>4. ASSUME NEW targets \in SUBSET Token, NEW k \in Token,
               Go(c, "findLinked", [loc[c] EXCEPT !.targets = targets, !.cur = k])
        PROVE  StaysTyped(c)
    <2> DEFINE locals == [loc[c] EXCEPT !.targets = targets, !.cur = k]
    <2>1. locals \in Locals /\ Knows("findLinked", locals)
      BY <1>1, <1>2, SetsTyped, SetsKnown
    <2> HIDE DEF locals
    <2> QED
      BY <1>1, <1>2, <1>4, <2>1, GoTyped DEF locals
  <1>5. CASE Succeed(c, {}, loc[c].covered)
    BY <1>1, <1>2, <1>5, SucceedTyped
  <1>6. CASE FindDevice(c)
    <2> DEFINE found == {k \in OfSubject(tokens, loc[c].subject, {"access"}) :
                           tokens[k].state.device = loc[c].device}
    <2>1. found \in SUBSET Token
      BY CoveredTyped
    <2>2. \/ Succeed(c, {}, loc[c].covered)
          \/ Go(c, "deleteAccess", [loc[c] EXCEPT !.targets = found])
      BY <1>6 DEF FindDevice
    <2> HIDE DEF found
    <2> QED
      BY <1>3, <1>5, <2>1, <2>2
  <1>7. CASE DeleteOnDevice(c)
    <2>1. PICK k \in loc[c].targets :
            \/ Go(c, "findLinked", [loc[c] EXCEPT !.targets = loc[c].targets \ {k}, !.cur = k])
            \/ Go(c, "deleteAccess", [loc[c] EXCEPT !.targets = loc[c].targets \ {k}])
            \/ Succeed(c, {}, loc[c].covered)
      BY <1>7 DEF DeleteOnDevice
    <2>2. loc[c].targets \ {k} \in SUBSET Token /\ k \in Token
      BY <1>1 DEF Locals
    <2> QED
      BY <1>3, <1>4, <1>5, <2>1, <2>2
  <1> QED
    BY <1>6, <1>7

LEMMA LogoutTyped ==
  ASSUME Sorts, Typed, UNCHANGED setup, NEW c \in Client,
         \/ DeleteAccess(c) \/ LogoutAccess(c) \/ LogoutRefresh(c) \/ DropSession(c) \/ RevokeAll(c)
  PROVE  StaysTyped(c)
  <1>1. /\ tokens \in TokenMap /\ sessions \in SessionMap
        /\ loc[c] \in Locals /\ Knows(pc[c], loc[c]) /\ loc[c].covered \subseteq Token
        /\ {"findLinked", "logoutRefresh", "dropSession"} \subseteq Labels
    BY RequestTyped DEF Labels
  <1>2. pc[c] # "load"
    BY DEF DeleteAccess, LogoutAccess, LogoutRefresh, DropSession, RevokeAll, Calls
  <1>3. tokens' \in TokenMap
    BY <1>1, DropTyped DEF DeleteAccess, LogoutAccess, LogoutRefresh, DropSession, RevokeAll
  <1>4. sessions' \in SessionMap
    <2>1. CASE DropSession(c)
      BY <1>1, <2>1 DEF DropSession, SessionMap
    <2> QED
      BY <1>1, <2>1 DEF DeleteAccess, LogoutAccess, LogoutRefresh, RevokeAll
  <1>5. DeleteAccess(c) => loc[c].cur \in Token
    BY <1>1 DEF DeleteAccess, Knows, LookupOps
  <1>6. \/ \E label \in {"findLinked", "logoutRefresh", "dropSession"} : Go(c, label, loc[c])
        \/ Succeed(c, {}, loc[c].covered)
        \/ loc[c].cur \in Token /\ Succeed(c, {}, {loc[c].cur})
    BY <1>5 DEF DeleteAccess, LogoutAccess, LogoutRefresh, DropSession, RevokeAll
  <1>7. ASSUME NEW label \in {"findLinked", "logoutRefresh", "dropSession"}, Go(c, label, loc[c])
        PROVE  StaysTyped(c)
    BY <1>1, <1>2, <1>3, <1>4, <1>7, GoOnTyped
  <1> QED
    BY <1>1, <1>3, <1>4, <1>6, <1>7, SucceedTyped

LEMMA GetRefreshTyped ==
  ASSUME Sorts, Typed, UNCHANGED setup, NEW c \in Client, GetRefresh(c)
  PROVE  StaysTyped(c)
  <1> DEFINE k == StoreKey(loc[c].ref)
             locals == [loc[c] EXCEPT !.snap = tokens[k].state]
  <1>1. /\ tokens \in TokenMap /\ sessions \in SessionMap /\ UNCHANGED <<tokens, sessions>>
        /\ loc[c] \in Locals /\ Knows(pc[c], loc[c]) /\ pc[c] = "getRefresh"
    BY RequestTyped DEF GetRefresh, store, Calls
  <1>2. CASE Fail(c)
    BY <1>1, <1>2, FailTyped
  <1>3. CASE tokens[k] # NoEntry /\ tokens[k].state.kind = "refresh" /\ Go(c, "revoke", locals)
    <2>1. k \in Token
      BY <1>1, KeysDiffer DEF Knows
    <2>2. tokens[k].state \in Sound
      BY <1>1, <1>3, <2>1, ReadTyped
    <2>3. locals \in Locals /\ "revoke" \in Labels
      BY <1>1, <2>2, SoundTyped, SetsTyped DEF Labels
    <2>4. Knows("revoke", locals)
      <3>1. /\ locals.snap = tokens[k].state /\ locals.op = loc[c].op
            /\ locals.cur = loc[c].cur /\ locals.ref = loc[c].ref
        BY <1>1 DEF Locals
      <3> HIDE DEF locals
      <3> QED
        BY <1>1, <1>3, <2>2, <3>1 DEF Knows
    <2> HIDE DEF locals
    <2> QED
      BY <1>1, <1>3, <2>3, <2>4, GoTyped
  <1> QED
    BY <1>2, <1>3 DEF GetRefresh

LEMMA AccessStepTyped ==
  ASSUME Sorts, Typed, UNCHANGED setup, NEW c \in Client, AccessStep(c)
  PROVE  StaysTyped(c)
  <1>1. tokens \in TokenMap /\ sessions \in SessionMap /\ loc[c] \in Locals
    BY RequestTyped
  <1>2. CASE EvictExpired(c)
    BY <1>1, <1>2, DropTyped, FailTyped DEF EvictExpired
  <1>3. CASE FindLinked(c)
    <2> DEFINE todo == {k \in OfSubject(tokens, loc[c].subject, {"refresh"}) :
                          tokens[k].state.access = loc[c].cur}
    <2>1. todo \in SUBSET Token /\ LinkedDone(c, todo) /\ UNCHANGED <<tokens, sessions>>
          /\ pc[c] \in {"findLinked", "deleteLinked"}
      BY <1>3, CoveredTyped DEF FindLinked, store, Calls
    <2> HIDE DEF todo
    <2> QED
      BY <1>1, <2>1, LinkedTyped
  <1>4. CASE DeleteLinked(c)
    <2>1. PICK k : tokens' = Drop(tokens, {k}) /\ LinkedDone(c, loc[c].todo \ {k})
      BY <1>4 DEF DeleteLinked
    <2>2. loc[c].todo \ {k} \in SUBSET Token /\ tokens' \in TokenMap
      BY <1>1, <2>1, DropTyped DEF Locals
    <2> QED
      BY <1>1, <1>4, <2>1, <2>2, LinkedTyped DEF DeleteLinked, Calls
  <1> QED
    BY <1>2, <1>3, <1>4, GetTyped, UpdateTyped, RevokeTyped, DevicesTyped, LogoutTyped,
       GetRefreshTyped DEF AccessStep

-----------------------------------------------------------------------------
(* Requests that begin, and the environment.                                *)

\* What a request that begins has to show.
Commences(label, locals) ==
  /\ label \in Labels /\ Knows(label, locals)
  /\ locals.op \in Ops => locals \in Locals

LEMMA BeginTyped ==
  ASSUME Sorts, UNCHANGED setup, NEW c \in Client, NEW label, NEW new, NEW locals,
         Begin(c, label, new, locals), Commences(label, locals)
  PROVE  Sorts'
  <1>1. locals \in Locals /\ pc' = [pc EXCEPT ![c] = label] /\ loc' = [loc EXCEPT ![c] = locals]
    BY DEF Begin, Commences
  <1>2. pc' \in [Client -> Labels] /\ loc' \in [Client -> Locals] /\ Knows(pc'[c], loc'[c])
    BY <1>1, MoveTyped DEF Commences
  <1>3. \A d \in Client : Knows(pc'[d], loc'[d])
    BY <1>1, <1>2 DEF Sorts
  <1>4. {started, faults, cancels, crashes}' \subseteq Nat
    BY DEF Begin, Sorts
  <1>5. UNCHANGED <<tokens, sessions, ctx, dead, redeemed>>
    BY DEF Begin, store, ghost
  <1>6. Locals' = Locals
    BY DEF Locals, Ops
  <1>7. recycled' \subseteq issued'
    BY DEF Begin, ghost, Sorts
  <1> QED
    BY <1>2, <1>3, <1>4, <1>5, <1>6, <1>7 DEF Sorts

LEMMA EntriesTyped == NonceEntry \in Labels /\ LoginEntry \in Labels
BY DEF NonceEntry, LoginEntry, Labels

LEMMA LoginCommences ==
  ASSUME NEW acc \in TokenValue, NEW ref \in TokenValue, NEW nonce \in AnyToken,
         NEW s \in Subject, NEW d \in Device \cup {NoDevice}, NEW covered \in SUBSET Token
  PROVE  LET label == IF RequireNonce THEN NonceEntry ELSE LoginEntry
         IN  /\ Commences(label, [Blank EXCEPT !.op = "Login", !.acc = acc, !.nonce = nonce,
                                    !.subject = s, !.device = d, !.covered = covered])
             /\ Commences(label, [Blank EXCEPT !.op = "LoginWithRefresh", !.acc = acc, !.ref = ref,
                                    !.nonce = nonce, !.subject = s, !.device = d,
                                    !.covered = covered])
  <1> DEFINE label == IF RequireNonce THEN NonceEntry ELSE LoginEntry
             plain == [Blank EXCEPT !.op = "Login", !.acc = acc, !.nonce = nonce,
                                    !.subject = s, !.device = d, !.covered = covered]
             double == [Blank EXCEPT !.op = "LoginWithRefresh", !.acc = acc, !.ref = ref,
                                     !.nonce = nonce, !.subject = s, !.device = d,
                                     !.covered = covered]
  <1>1. label \in Labels /\ label \notin {"update", "getRefresh", "revoke"}
    BY EntriesTyped DEF NonceEntry, LoginEntry
  <1>2. plain.op = "Login" /\ double.op = "LoginWithRefresh"
    BY DEF Blank
  <1>3. plain.op \in Ops => plain \in Locals
    BY <1>2, NothingIsTyped DEF Blank, Locals, AnyToken
  <1>4. double.op \in Ops => double \in Locals
    BY <1>2, NothingIsTyped DEF Blank, Locals, AnyToken
  <1> HIDE DEF plain, double, label
  <1>5. Commences(label, plain) /\ Commences(label, double)
    BY <1>1, <1>2, <1>3, <1>4 DEF Commences, Knows, LookupOps
  <1> QED
    BY <1>5 DEF plain, double, label

LEMMA LoginsTyped ==
  ASSUME Sorts, Typed, UNCHANGED setup, NEW c \in Client, Login(c) \/ LoginWithRefresh(c)
  PROVE  Sorts'
  <1> DEFINE label == IF RequireNonce THEN NonceEntry ELSE LoginEntry
  <1>1. /\ setup \in Setups /\ used \subseteq TokenValue /\ Devices \subseteq Device
        /\ Nonces \subseteq AnyToken /\ NoToken \in AnyToken /\ TokenValue \subseteq AnyToken
    <2>1. setup \in Setup
      BY ManagerAssumption DEF Typed
    <2> QED
      BY <2>1 DEF Typed, Setup, Devices, Nonces, AnyToken
  <1>2. \A s : (IF Concurrent THEN {} ELSE SubjectLogout(s)) \in SUBSET Token
    BY CoveredTyped
  <1>3. CASE Login(c)
    <2>1. PICK s \in Subject, d \in Devices \cup {NoDevice}, n \in Nonces,
               covered \in SUBSET Token :
            /\ Unused(1)
            /\ Begin(c, label, {Fresh1},
                     [Blank EXCEPT !.op = "Login", !.acc = Fresh1, !.nonce = n,
                                   !.subject = s, !.device = d, !.covered = covered])
      BY <1>2, <1>3, LoginBegins
    <2>2. Fresh1 \in TokenValue
      BY <1>1, <2>1, Fresh
    <2> DEFINE locals == [Blank EXCEPT !.op = "Login", !.acc = Fresh1, !.nonce = n,
                                       !.subject = s, !.device = d, !.covered = covered]
    <2>3. Commences(label, locals)
      BY <1>1, <2>2, LoginCommences
    <2> HIDE DEF locals, label
    <2> QED
      BY <2>1, <2>3, BeginTyped DEF locals
  <1>4. CASE LoginWithRefresh(c)
    <2>1. PICK s \in Subject, d \in Devices \cup {NoDevice}, n \in Nonces,
               r \in {Fresh1, Fresh2}, covered \in SUBSET Token :
            /\ Unused(2)
            /\ Begin(c, label, {Fresh1, r},
                     [Blank EXCEPT !.op = "LoginWithRefresh", !.acc = Fresh1, !.ref = r,
                                   !.nonce = n, !.subject = s, !.device = d,
                                   !.covered = covered])
      BY <1>2, <1>4, LoginWithRefreshBegins
    <2>2. Fresh1 \in TokenValue /\ r \in TokenValue
      BY <1>1, <2>1, Fresh
    <2> DEFINE locals == [Blank EXCEPT !.op = "LoginWithRefresh", !.acc = Fresh1, !.ref = r,
                                       !.nonce = n, !.subject = s, !.device = d,
                                       !.covered = covered]
    <2>3. Commences(label, locals)
      BY <1>1, <2>2, LoginCommences
    <2> HIDE DEF locals, label
    <2> QED
      BY <2>1, <2>3, BeginTyped DEF locals
  <1> QED
    BY <1>3, <1>4

LEMMA RefreshTyped ==
  ASSUME Sorts, Typed, UNCHANGED setup, NEW c \in Client, Refresh(c)
  PROVE  Sorts'
  <1>1. /\ setup \in Setups /\ used \subseteq TokenValue /\ Devices \subseteq Device
        /\ issued \subseteq TokenValue
    <2>1. setup \in Setup
      BY ManagerAssumption DEF Typed
    <2> QED
      BY <2>1 DEF Typed, Setup, Devices
  <1>2. PICK ref \in issued, d \in Devices \cup {NoDevice} :
          /\ Unused(IF RotateRefreshToken THEN 2 ELSE 1)
          /\ \E acc \in {Fresh1} \cup Aliases(ref),
                next \in IF RotateRefreshToken THEN {Fresh2} \cup Aliases(ref) ELSE {NoToken} :
               Begin(c, "load", {acc, next} \ {NoToken},
                     [Blank EXCEPT !.op = "Refresh", !.ref = ref, !.acc = acc,
                                   !.next = next, !.device = d])
    BY DEF Refresh
  <1>3. PICK acc \in {Fresh1} \cup Aliases(ref),
             next \in IF RotateRefreshToken THEN {Fresh2} \cup Aliases(ref) ELSE {NoToken} :
               Begin(c, "load", {acc, next} \ {NoToken},
                     [Blank EXCEPT !.op = "Refresh", !.ref = ref, !.acc = acc,
                                   !.next = next, !.device = d])
    BY <1>2
  <1>4. Fresh1 \in TokenValue /\ (RotateRefreshToken => Fresh2 \in TokenValue)
    BY <1>1, <1>2, Fresh
  <1>5. Aliases(ref) \subseteq TokenValue
    BY <1>1 DEF Aliases
  <1>6. acc \in AnyToken /\ next \in AnyToken /\ ref \in AnyToken
    BY <1>1, <1>3, <1>4, <1>5 DEF AnyToken
  <1> DEFINE locals == [Blank EXCEPT !.op = "Refresh", !.ref = ref, !.acc = acc,
                                     !.next = next, !.device = d]
  <1>7. locals.op = "Refresh" /\ (locals.op \in Ops => locals \in Locals)
    BY <1>1, <1>6, NothingIsTyped DEF Blank, Locals
  <1> HIDE DEF locals
  <1>8. Commences("load", locals)
    BY <1>7 DEF Commences, Knows, Labels, LookupOps
  <1> QED
    BY <1>3, <1>8, BeginTyped DEF locals

LEMMA AskingTyped ==
  ASSUME Sorts, Typed, UNCHANGED setup, NEW c \in Client,
         \/ Lookup(c) \/ LogoutByLoginID(c) \/ LogoutByDevice(c) \/ RevokeRefreshToken(c)
         \/ RevokeRefreshByLoginID(c) \/ GenerateNonce(c) \/ ConsumeNonce(c)
  PROVE  Sorts'
  <1>1. /\ setup \in Setups /\ used \subseteq TokenValue /\ Devices \subseteq Device
        /\ RenewTTL \subseteq Nat /\ issued \subseteq TokenValue
        /\ \A t \in TokenValue : t \in AnyToken /\ StoreKey(t) \in Token
    <2>1. setup \in Setup
      BY ManagerAssumption DEF Typed
    <2> QED
      BY <2>1, KeysDiffer DEF Typed, Setup, Devices, RenewTTL, AnyToken
  <1>2. \A label, new, locals : Begin(c, label, new, locals) /\ Commences(label, locals) => Sorts'
    BY BeginTyped
  <1>3. CASE Lookup(c)
    <2>1. PICK op \in LookupOps, t \in issued, ttl \in RenewTTL :
            Begin(c, "get", {},
                  [Blank EXCEPT !.op = op, !.acc = t, !.cur = StoreKey(t), !.ttl = ttl])
      BY <1>3 DEF Lookup
    <2> DEFINE locals == [Blank EXCEPT !.op = op, !.acc = t, !.cur = StoreKey(t), !.ttl = ttl]
    <2>2. /\ locals.op = op /\ locals.cur = StoreKey(t)
          /\ locals.op \in Ops => locals \in Locals
      BY <1>1, NothingIsTyped DEF Blank, Locals
    <2> HIDE DEF locals
    <2>3. Commences("get", locals)
      BY <1>1, <2>2 DEF Commences, Knows, Labels, LookupOps
    <2> QED
      BY <1>2, <2>1, <2>3 DEF locals
  <1>4. CASE LogoutByLoginID(c)
    <2>1. PICK s \in Subject, drop \in BOOLEAN :
            Begin(c, "logoutAccess", {},
                  [Blank EXCEPT !.op = "LogoutByLoginID", !.subject = s, !.dropSession = drop,
                                !.covered = SubjectLogout(s)])
      BY <1>4 DEF LogoutByLoginID
    <2> DEFINE locals == [Blank EXCEPT !.op = "LogoutByLoginID", !.subject = s,
                                       !.dropSession = drop, !.covered = SubjectLogout(s)]
    <2>2. /\ locals.op = "LogoutByLoginID"
          /\ locals.op \in Ops => locals \in Locals
      BY CoveredTyped, NothingIsTyped DEF Blank, Locals
    <2> HIDE DEF locals
    <2>3. Commences("logoutAccess", locals)
      BY <2>2 DEF Commences, Knows, Labels, LookupOps
    <2> QED
      BY <1>2, <2>1, <2>3 DEF locals
  <1>5. CASE LogoutByDevice(c)
    <2> DEFINE Of(s, d) == {k \in IssuedTo(s, {"access"}) : tokens[k].state.device = d}
    <2>1. PICK s \in Subject, d \in Devices :
            Begin(c, "findDevice", {},
                  [Blank EXCEPT !.op = "LogoutByDevice", !.subject = s, !.device = d,
                                !.covered = Of(s, d)])
      BY <1>5 DEF LogoutByDevice
    <2>2. Of(s, d) \in SUBSET Token
      BY CoveredTyped
    <2> HIDE DEF Of
    <2> DEFINE locals == [Blank EXCEPT !.op = "LogoutByDevice", !.subject = s, !.device = d,
                                       !.covered = Of(s, d)]
    <2>3. /\ locals.op = "LogoutByDevice"
          /\ locals.op \in Ops => locals \in Locals
      BY <1>1, <2>2, NothingIsTyped DEF Blank, Locals
    <2> HIDE DEF locals
    <2>4. Commences("findDevice", locals)
      BY <2>3 DEF Commences, Knows, Labels, LookupOps
    <2> QED
      BY <1>2, <2>1, <2>4 DEF locals
  <1>6. CASE RevokeRefreshToken(c)
    <2>1. PICK t \in issued :
            Begin(c, "getRefresh", {}, [Blank EXCEPT !.op = "RevokeRefreshToken", !.ref = t])
      BY <1>6 DEF RevokeRefreshToken
    <2> DEFINE locals == [Blank EXCEPT !.op = "RevokeRefreshToken", !.ref = t]
    <2>2. /\ locals.op = "RevokeRefreshToken" /\ locals.ref = t
          /\ locals.op \in Ops => locals \in Locals
      BY <1>1, NothingIsTyped DEF Blank, Locals
    <2> HIDE DEF locals
    <2>3. Commences("getRefresh", locals)
      BY <1>1, <2>2 DEF Commences, Knows, Labels, LookupOps
    <2> QED
      BY <1>2, <2>1, <2>3 DEF locals
  <1>7. CASE RevokeRefreshByLoginID(c)
    <2>1. PICK s \in Subject :
            Begin(c, "revokeAll", {},
                  [Blank EXCEPT !.op = "RevokeRefreshByLoginID", !.subject = s,
                                !.covered = IssuedTo(s, {"refresh"})])
      BY <1>7 DEF RevokeRefreshByLoginID
    <2> DEFINE locals == [Blank EXCEPT !.op = "RevokeRefreshByLoginID", !.subject = s,
                                       !.covered = IssuedTo(s, {"refresh"})]
    <2>2. /\ locals.op = "RevokeRefreshByLoginID"
          /\ locals.op \in Ops => locals \in Locals
      BY CoveredTyped, NothingIsTyped DEF Blank, Locals
    <2> HIDE DEF locals
    <2>3. Commences("revokeAll", locals)
      BY <2>2 DEF Commences, Knows, Labels, LookupOps
    <2> QED
      BY <1>2, <2>1, <2>3 DEF locals
  <1>8. CASE GenerateNonce(c) \/ ConsumeNonce(c)
    <2>1. PICK op \in {"GenerateNonce", "ConsumeNonce"}, t \in TokenValue,
               label \in {"saveNonce", NonceEntry} :
            \E new : Begin(c, label, new, [Blank EXCEPT !.op = op, !.nonce = t])
      <3>1. Unused(1) => Fresh1 \in TokenValue
        BY <1>1, Fresh
      <3> QED
        BY <1>1, <1>8, <3>1, GenerateNonceBegins DEF ConsumeNonce
    <2> DEFINE locals == [Blank EXCEPT !.op = op, !.nonce = t]
    <2>2. /\ locals.op = op
          /\ locals.op \in Ops => locals \in Locals
      BY <1>1, NothingIsTyped DEF Blank, Locals
    <2> HIDE DEF locals
    <2>3. Commences(label, locals)
      BY <2>2 DEF Commences, Knows, Labels, LookupOps, NonceEntry
    <2> QED
      BY <1>2, <2>1, <2>3 DEF locals
  <1> QED
    BY <1>3, <1>4, <1>5, <1>6, <1>7, <1>8

LEMMA StepSorts ==
  ASSUME Inv, Sorts, UNCHANGED setup, NEW c \in Client, Step(c)
  PROVE  Sorts'
  <1>1. Typed /\ Atomic
    BY DEF Inv, Core
  <1>2. StaysTyped(c)
    BY <1>1, LoginStepTyped, RefreshStepTyped, AccessStepTyped, CallErrorTyped DEF Step
  <1>3. Advances(c)
    BY <1>1, StepAdvances
  <1>4. \A d \in Client : Knows(pc'[d], loc'[d])
    BY <1>2, <1>3 DEF StaysTyped, Advances, Frame, Sorts
  <1>5. redeemed' \in [TokenValue -> 0 .. 2]
    BY <1>3 DEF Advances, Redeems, Sorts
  <1>6. ctx' \in [Client -> {"live", "done"}] /\ {started, faults, cancels, crashes}' \subseteq Nat
    BY StepAccounts DEF Accounts, Sorts
  <1>7. Locals' = Locals
    BY DEF Locals, Ops
  <1>8. recycled' \subseteq issued'
    BY <1>3, StepAccounts DEF Advances, Leaves, Stays, Accounts, Sorts
  <1> QED
    BY <1>2, <1>4, <1>5, <1>6, <1>7, <1>8 DEF StaysTyped, Sorts

LEMMA NextSorts ==
  ASSUME Inv, Sorts, [Next]_vars
  PROVE  Sorts'
  <1>1. UNCHANGED setup /\ Typed
    BY NextCarries DEF Inv, Core
  <1>2. Locals' = Locals
    BY <1>1 DEF Locals, Ops
  <1>3. CASE Tick
    <2>1. tokens' \in TokenMap
      BY <1>3, DropTyped DEF Tick, Sorts
    <2>2. sessions' \in SessionMap
      BY <1>3 DEF Tick, Sorts, SessionMap
    <2>3. UNCHANGED <<pc, loc, ctx, dead, issued, recycled, redeemed>>
          /\ UNCHANGED <<started, faults, cancels, crashes>>
      BY <1>3 DEF Tick, ghost, budget
    <2> QED
      BY <1>2, <2>1, <2>2, <2>3 DEF Sorts
  <1>4. ASSUME NEW c \in Client, Start(c) PROVE Sorts'
    BY <1>1, <1>4, LoginsTyped, RefreshTyped, AskingTyped DEF Start
  <1>5. ASSUME NEW c \in Client, Step(c) PROVE Sorts'
    BY <1>1, <1>5, StepSorts
  <1>6. ASSUME NEW c \in Client, Cancel(c) PROVE Sorts'
    BY <1>2, <1>6 DEF Cancel, store, ghost, Sorts
  <1>7. ASSUME NEW c \in Client, Crash(c) PROVE Sorts'
    <2>1. /\ Leave(c) /\ UNCHANGED <<tokens, sessions, dead, issued, recycled, redeemed>>
          /\ UNCHANGED <<started, faults, cancels>>
          /\ crashes' = crashes + 1
      BY <1>7 DEF Crash, store, ghost
    <2>2. StaysTyped(c)
      BY <1>1, <2>1, LeaveTyped DEF Sorts
    <2>3. \A d \in Client : Knows(pc'[d], loc'[d])
      BY <2>1, <2>2 DEF StaysTyped, Leave, Sorts
    <2>4. ctx' \in [Client -> {"live", "done"}] /\ {started, faults, cancels, crashes}' \subseteq Nat
      BY <2>1 DEF Leave, Sorts
    <2> QED
      BY <1>2, <2>1, <2>2, <2>3, <2>4 DEF StaysTyped, Sorts
  <1>8. CASE UNCHANGED vars
    BY <1>2, <1>8 DEF vars, store, ghost, budget, Sorts
  <1> QED
    BY <1>3, <1>4, <1>5, <1>6, <1>7, <1>8 DEF Next

LEMMA SortsHolds == Spec /\ Atomic /\ ~ReuseArgs => []Sorts
  <1>1. Init => Sorts
    <2> SUFFICES ASSUME Init PROVE Sorts
      OBVIOUS
    <2>1. tokens \in TokenMap /\ sessions \in SessionMap
      BY DEF Init, TokenMap, SessionMap
    <2>2. pc \in [Client -> Labels] /\ loc \in [Client -> Locals]
      BY NothingIsTyped DEF Init, Labels
    <2>3. \A c \in Client : Knows(pc[c], loc[c])
      BY NothingIsTyped DEF Init
    <2> QED
      BY <2>1, <2>2, <2>3 DEF Init, Sorts
  <1> QED
    BY <1>1, InvHolds, NextSorts, PTL DEF Spec

\* Every variable has its type: what the store holds, what a request remembers between
\* two store calls, and what is recorded of the past.  Only one-time tokens are ever
\* consumed (Manager over an AtomicStore).
THEOREM TypeCorrect == Spec /\ Atomic /\ ~ReuseArgs => []TypeOK
  <1>1. Inv /\ Sorts => TypeOK
    <2> SUFFICES ASSUME Inv, Sorts PROVE TypeOK
      OBVIOUS
    <2>1. tokens \in [Token -> Entry \cup {NoEntry}]
      BY DEF Sorts, TokenMap, Sound, Entry
    <2>2. \A k \in Stored(tokens) : tokens[k].state.status = "consumed"
                                     => tokens[k].state.kind \in {"refresh", "nonce"}
      BY ReadTyped DEF Sorts, Stored, Sound, OneTime
    <2>3. setup \in Setups /\ now \in Nat /\ issued \subseteq TokenValue /\ used \subseteq TokenValue
      BY DEF Inv, Core, Typed, StoreShaped
    <2> QED
      BY <2>1, <2>2, <2>3 DEF Sorts, SessionMap, TypeOK
  <1> QED
    BY <1>1, InvHolds, SortsHolds, PTL
=============================================================================
